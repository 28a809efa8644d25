----------------------------- MODULE MCFrontEnd -----------------------------
(***************************************************************************)
(* Devices of five nodes over two INT tiles and a CLE tile, with the PIPs  *)
(* of the type INT in every combination: nodes of several wires, wires     *)
(* that a tile joins twice, a PIP that works both ways, and cycles.  Each  *)
(* of them is loaded from its dump and reduced for four netlists.  For two *)
(* devices, the dump is written and runs are ended and started again.      *)
(***************************************************************************)
EXTENDS FrontEnd

MCTileType == [c |-> "CLE", i1 |-> "INT", i2 |-> "INT"]
Nodes5 == <<
  <<<<"c", "o">>, <<"i1", "a">>>>,
  <<<<"i1", "b">>, <<"i2", "a">>>>,
  <<<<"i2", "b">>, <<"i1", "q">>>>,
  <<<<"i2", "p">>, <<"i2", "r">>>>,
  <<<<"i1", "p">>>> >>

To(w0, w1) == [w0 |-> w0, w1 |-> w1, directional |-> TRUE]
Both(w0, w1) == [w0 |-> w0, w1 |-> w1, directional |-> FALSE]
File(pips, nodes) ==
  [tileType |-> MCTileType, pips |-> [CLE |-> <<>>, INT |-> pips], nodes |-> nodes]

OneWay == <<To("a", "b"), To("a", "p"), To("q", "p"), To("q", "b"), To("a", "r")>>
BothWays == <<<<>>, <<To("p", "b")>>, <<Both("b", "p")>>>>

\* The PIPs in the combination k, k < 96.
PipsOf(k) ==
  FlattenSeq([j \in 1..5 |-> IF (k \div 2^(j - 1)) % 2 = 1 THEN <<OneWay[j]>> ELSE <<>>])
  \o BothWays[k \div 32 + 1]

\* Device 1 has four nodes, device 2 + k the PIPs of the combination k.
MCFiles ==
  <<File(PipsOf(95), SubSeq(Nodes5, 1, 4))>> \o [k \in 1..96 |-> File(PipsOf(k - 1), Nodes5)]
MCDeviceNodes == [d \in DOMAIN MCFiles |-> Len(MCFiles[d].nodes)]

WholeDump(d) == [f \in Dump |-> Written(f, ReadMemory(d))]
Nothing == [f \in Dump |-> Absent]
MCSetups ==
  {[plan |-> p, disk |-> Nothing, asked |-> {}] : p \in {<<97, 97, 97>>, <<1, 97>>}}
  \cup {[plan |-> <<d>>, disk |-> WholeDump(d), asked |-> {d}] : d \in DOMAIN MCFiles}

Net(pins, pips) == [pins |-> pins, pips |-> pips]
NetlistOf(fixed, sourceless, sinks) ==
  [fixed |-> fixed, sourceless |-> sourceless, sources |-> {1}, sinks |-> sinks]
Netlists5 ==
  {NetlistOf({}, {}, {4}), NetlistOf({}, {}, {4, 5}),
   NetlistOf({Net({}, <<<<"i1", "a", "b">>>>)}, {}, {5}),
   NetlistOf({Net({1}, <<>>)}, {5}, {4})}
MCNetlists ==
  [d \in DOMAIN MCFiles |-> IF d = 1 THEN {NetlistOf({}, {}, {4})} ELSE Netlists5]

MCNodes == 1..5
=============================================================================
