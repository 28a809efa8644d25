---------------------------- MODULE MCSaveRoutes ----------------------------
(***************************************************************************)
(* A net with one to three sinks whose routes run over up to three shared  *)
(* wires in any order, and small nets for the walks of the reader.         *)
(***************************************************************************)
EXTENDS SaveRoutes, TLC

CONSTANTS MaxWires2, MaxWires3   \* the wires on the routes of the sinks 2 and 3

MCNodes == {"pin0", "s", "a", "b", "c", "t1", "t2", "t3", "pin1", "pin2", "pin3"}

MCWires == [n \in MCNodes |-> CASE n = "pin2" -> MaxWires2 [] n = "pin3" -> MaxWires3 [] OTHER -> 3]

\* The nodes of the set have the outgoing nodes given, the others none.
Out(f) == [n \in MCNodes |-> IF n \in DOMAIN f THEN f[n] ELSE <<>>]

\* The incoming nodes, once for each PIP, with the wires in the given order.
NodeOrder == <<"pin0", "s", "a", "b", "c", "t1", "t2", "t3", "pin1", "pin2", "pin3">>
Inc(out, order) ==
  [n \in MCNodes |-> FlattenSeq([j \in DOMAIN order |->
     [i \in DOMAIN SelectSeq(out[order[j]], LAMBDA m : m = n) |-> order[j]]])]

Net(f, INT, sources, sinks) ==
  [out |-> Out(f), inc |-> Inc(Out(f), NodeOrder), INT |-> INT, last |-> "c",
   sources |-> sources, sinks |-> sinks]
WithIncoming(nets, order) == {[x EXCEPT !.inc = Inc(x.out, order)] : x \in nets}

\* The fabric: s drives the wires and the sinks, the wires each other.
Fabric ==
  [pin0 |-> <<"s">>, s |-> <<"a", "b", "c", "t1", "t2", "t3">>,
   a |-> <<"b", "c", "t1", "t2", "t3">>, b |-> <<"a", "c", "t1", "t2", "t3">>,
   c |-> <<"a", "b", "t1", "t2", "t3">>,
   t1 |-> <<"pin1">>, t2 |-> <<"pin2">>, t3 |-> <<"pin3">>]
FabricINT == {"a", "b", "c", "t1", "t2", "t3"}

FabricNets == {Net(Fabric, FabricINT, <<"pin0">>, sinks) : sinks \in {<<"pin1">>, <<"pin1", "pin2", "pin3">>}}

\* A carry chain from the pin c, and the fabric from the pin pin0: the net has
\* connections of both kinds, in both orders of its source pins.
CarryNets ==
  {Net([pin0 |-> <<"s">>, s |-> <<"a">>, a |-> <<"t1", "t2">>, t1 |-> <<"pin1">>, t2 |-> <<"pin2">>,
        c |-> outC, b |-> <<"pin3">>], {"a", "t1", "t2"}, sources, sinks) :
     outC \in {<<"b">>, <<"b", "pin3">>}, sources \in {<<"c", "pin0">>, <<"pin0", "c">>, <<"c">>},
     sinks \in {<<"pin1", "pin3">>, <<"pin3", "pin1">>, <<"pin1", "pin2", "pin3">>}}

\* Direct connections only, whose walks meet nodes again by longer ways, or run
\* in a cycle.  Without a cycle the walk meets pin2 as the 21st node, as the
\* watchdog just allows; or as the 23rd if b also leads to s, and is given up.
ChainNets ==
  {Net([pin0 |-> <<"a", "b">>, a |-> <<"c", "b">>, b |-> outB, c |-> out,
        t1 |-> <<"pin1", "t2">>, t2 |-> <<"pin2">>], {"t3"}, <<"pin0">>, sinks) :
     out \in {<<"t1">>, <<"b">>}, outB \in {<<"c", "t1">>, <<"c", "t1", "s">>},
     sinks \in {<<"pin1">>, <<"pin1", "pin2">>, <<"pin2", "pin3">>, <<"pin3">>}}

\* Paths of several nodes between the pins and the fabric, some of them too
\* long, with a cycle outside the fabric at either end, two PIPs between the same
\* nodes, and a source among the sinks.
OnePathNets ==
  {Net([pin0 |-> <<"s", "c">>, s |-> <<"b", "c">>, b |-> outB, c |-> <<"b">>,
        a |-> <<"t1">>, t1 |-> outT1, t2 |-> outT, t3 |-> <<"t2", "pin2">>],
       INT, <<"pin0">>, sinks) :
     outB \in {<<"a">>, <<"c", "a">>}, outT \in {<<"pin1", "pin2">>, <<"pin1", "pin1", "t3">>},
     outT1 \in {<<"t2", "t3">>, <<"t3">>}, INT \in {{"a", "t1"}, {"t1"}},
     sinks \in {<<"pin1">>, <<"pin1", "pin2">>, <<"pin0">>}}
PathNets == OnePathNets \cup WithIncoming(OnePathNets, Reverse(NodeOrder))

\* The last node of the device is a sink pin, or the first sink pin is in an INT
\* tile and the end of the route to the second one.
PinNets ==
  {[Net([pin0 |-> <<"s">>, s |-> <<"a">>, a |-> <<"t1", "t2">>, t1 |-> <<"pin1">>, t2 |-> <<"pin2">>],
        {"a", "t1", "t2"}, <<"pin0">>, sinks) EXCEPT !.last = last] :
     last \in {"c", "pin2"}, sinks \in {<<"pin1", "pin2">>, <<"pin2", "pin1">>, <<"t1", "pin1">>, <<"t1", "t2">>}}

MCNets == FabricNets \cup CarryNets \cup ChainNets \cup PathNets \cup PinNets

MCCosts ==
  {[n \in MCNodes |-> IF n = w THEN 3 ELSE j] : w \in {"a", "b"}, j \in {0, 1}}

=============================================================================
