------------------------------ MODULE NetReader ------------------------------
(***************************************************************************)
(* How a net comes to its connections and its direct connections to their  *)
(* routes: the signal nets of Netlist::parseNetlist (src/src/db/netlist.cpp) *)
(* and routeDirectConnections (src/src/route/aStarRoute.cpp).  Three       *)
(* breadth-first walks over the device decide it: from a source pin to the *)
(* node before the INT tiles, from a sink pin back to the INT tiles, and   *)
(* from the source to the sink of a connection that needs no INT tile.     *)
(* None of them keeps a set of visited nodes: a node that is met again is  *)
(* queued again and its predecessor overwritten, and only a counter stops  *)
(* the walk.                                                               *)
(***************************************************************************)
EXTENDS Integers, Sequences, FiniteSets, SequencesExt

CONSTANTS
  Nodes,
  Nets,           \* the nets with their devices: out, inc, INT, last, sources, sinks
  Wires,          \* Wires[n], the most wires on a route to the sink pin n
  MaxLayers,      \* 5 in the code
  InputWatchdog,  \* 1000 in the code
  DirectWatchdog  \* 10000 in the code

NoNode == "none"

ASSUME ReaderAssumption ==
  /\ NoNode \notin Nodes /\ IsFiniteSet(Nodes)
  /\ \A x \in Nets : /\ x.out \in [Nodes -> Seq(Nodes)] /\ x.INT \subseteq Nodes /\ x.last \in Nodes
                     /\ x.inc \in [Nodes -> Seq(Nodes)]
                     /\ \A m, n \in Nodes : m \in ToSet(x.inc[n]) <=> n \in ToSet(x.out[m])
                     /\ x.sources \in Seq(Nodes) /\ Len(x.sources) \in 1..2
                     /\ x.sinks \in Seq(Nodes) /\ x.sinks # <<>>
                     /\ ToSet(x.sources) \cap x.INT = {}
  /\ Wires \in [Nodes -> Nat]
  /\ {MaxLayers, InputWatchdog, DirectWatchdog} \subseteq Nat

VARIABLES
  net,        \* out[n] and inc[n], the outgoing and the incoming nodes of n in the
              \* order of its wires, a node once for each PIP; INT, the nodes on
              \* INT tiles; the last node; the pins sources, sinks
  pc,         \* "source", "sink", "route", "direct", then as in SaveRoutes;
              \* "hung" in a walk back along prev_map that does not end
  k,          \* the pin or the connection that is dealt with
  q, prev_map, layer, watchdog,  \* of the walk
  srcPaths,   \* the path of each source pin to the INT tiles, <<>> for none
  conns       \* the connections of the net in the order of its sinks, when they
              \* are saved in the order of SaveRoutes

walkVars == <<q, prev_map, layer, watchdog>>
readerVars == <<net, pc, k, walkVars, srcPaths, conns>>

Outgoing(n) == net.out[n]
Incoming(n) == net.inc[n]

ReaderInit ==
  /\ net \in Nets
  /\ pc = "source" /\ k = 1
  /\ q = <<net.sources[1]>>
  /\ prev_map = [n \in Nodes |-> NoNode]
  /\ layer = [n \in Nodes |-> MaxLayers] /\ watchdog = 0
  /\ srcPaths = <<>> /\ conns = <<>>

StartWalk(n, dog) ==
  /\ q' = <<n>> /\ watchdog' = dog
  /\ prev_map' = [m \in Nodes |-> NoNode]
  /\ layer' = [m \in Nodes |-> MaxLayers]

EndWalk ==
  /\ q' = <<>> /\ watchdog' = 0
  /\ prev_map' = [m \in Nodes |-> NoNode]
  /\ layer' = [m \in Nodes |-> MaxLayers]

PrevAfter(n, next) == [m \in Nodes |-> IF m \in ToSet(next) THEN n ELSE prev_map[m]]

\* n is taken from the queue and its neighbours are appended to it.
Expand(n, next) ==
  /\ q' = Tail(q) \o next
  /\ prev_map' = PrevAfter(n, next)
  /\ layer' = [m \in Nodes |-> IF m \in ToSet(next) THEN layer[n] - 1 ELSE layer[m]]

\* n and the nodes before it along prev; some of them twice if they go round.
Trace(prev, n) ==
  LET before(m) == IF m = NoNode THEN NoNode ELSE prev[m]
      back[j \in 0..Cardinality(Nodes)] == IF j = 0 THEN n ELSE before(back[j - 1])
      len == Cardinality({j \in 0..Cardinality(Nodes) : back[j] # NoNode})
  IN  [j \in 1..len |-> back[j - 1]]
Endless(trace) == ~IsInjective(trace)

-----------------------------------------------------------------------------
(* project_output_node_to_int_node *)

EndSource(path) ==
  /\ srcPaths' = Append(srcPaths, path)
  /\ IF k < Len(net.sources)
     THEN k' = k + 1 /\ pc' = pc /\ StartWalk(net.sources[k + 1], 0)
     ELSE k' = 1 /\ pc' = "sink" /\ StartWalk(net.sinks[1], InputWatchdog)

\* The nodes of the list before its first node on an INT tile.
BeforeINT(next) ==
  LET first == CHOOSE j \in DOMAIN next :
                 next[j] \in net.INT /\ \A l \in 1..(j - 1) : next[l] \notin net.INT
  IN  SubSeq(next, 1, first - 1)

SourceWalk ==
  /\ pc = "source" /\ q # <<>>
  /\ LET n == Head(q)
         next == IF layer[n] < 0 THEN <<>> ELSE Outgoing(n)
     IN  IF ToSet(next) \cap net.INT = {}
         THEN Expand(n, next) /\ UNCHANGED <<pc, k, watchdog, srcPaths>>
         ELSE \E trace \in {Trace(PrevAfter(n, BeforeINT(next)), n)} :
                IF Endless(trace)
                THEN pc' = "hung" /\ UNCHANGED <<k, walkVars, srcPaths>>
                ELSE EndSource(Reverse(trace))
  /\ UNCHANGED <<net, conns>>

NoSourcePath ==
  /\ pc = "source" /\ q = <<>>
  /\ EndSource(<<>>)
  /\ UNCHANGED <<net, conns>>

-----------------------------------------------------------------------------
(* project_input_node_to_int_node, and the connection it decides on *)

SourcePath ==
  LET first == SelectInSeq(srcPaths, LAMBDA p : p # <<>>)
  IN  IF first = 0 THEN <<>> ELSE srcPaths[first]

\* Slip: a direct connection starts at the last source pin.
ConnectionFromLast(path) ==
  IF path # <<>> /\ SourcePath # <<>>
  THEN [direct |-> FALSE, sourceToIntPath |-> SourcePath,
        rnodes |-> <<>>, intToSinkPath |-> path]
  ELSE [direct |-> TRUE, sourceToIntPath |-> <<Last(net.sources)>>,
        rnodes |-> <<>>, intToSinkPath |-> <<net.sinks[k]>>]

\* An indirect connection has a path at both ends; the second source pin
\* counts when the first has none.  A direct connection starts at the first.
Connection(path) ==
  IF path # <<>> /\ SourcePath # <<>>
  THEN [direct |-> FALSE, sourceToIntPath |-> SourcePath,
        rnodes |-> <<>>, intToSinkPath |-> path]
  ELSE [direct |-> TRUE, sourceToIntPath |-> <<net.sources[1]>>,
        rnodes |-> <<>>, intToSinkPath |-> <<net.sinks[k]>>]

EndSink(path) ==
  LET c == Connection(path) IN
  IF c.direct /\ net.sources[1] = net.sinks[k]
  THEN pc' = "aborted" /\ UNCHANGED <<k, walkVars, conns>>
  ELSE /\ conns' = Append(conns, c)
       /\ IF k < Len(net.sinks)
          THEN k' = k + 1 /\ pc' = pc /\ StartWalk(net.sinks[k + 1], InputWatchdog)
          ELSE k' = 1 /\ pc' = "route" /\ EndWalk

\* The incoming nodes of n that have incoming nodes themselves.
Uphill(n) ==
  LET in == Incoming(n)
  IN  FlattenSeq([j \in DOMAIN in |-> IF Incoming(in[j]) = <<>> THEN <<>> ELSE <<in[j]>>])

SinkWalk ==
  /\ pc = "sink" /\ q # <<>>
  /\ LET n == Head(q)
         next == Uphill(n)
     IN  IF n \in net.INT
         THEN \E trace \in {Trace(prev_map, n)} :
                IF Endless(trace) THEN pc' = "hung" /\ UNCHANGED <<k, walkVars, conns>>
                                  ELSE EndSink(trace)
         ELSE IF watchdog = 0
              THEN EndSink(<<>>)
              ELSE Expand(n, next) /\ watchdog' = watchdog - 1 /\ UNCHANGED <<pc, k, conns>>
  /\ UNCHANGED <<net, srcPaths>>

NoSinkPath ==
  /\ pc = "sink" /\ q = <<>>
  /\ EndSink(<<>>)
  /\ UNCHANGED <<net, srcPaths>>

-----------------------------------------------------------------------------
(* The routes: of the indirect connections whichever the searches find, *)
(* of the direct ones by routeDirectConnections *)

\* From the sink to the source, as a route is stored.
Routes(c) ==
  LET most == Wires[Last(c.intToSinkPath)]
      wires == {w \in UNION {[1..j -> net.INT] : j \in 0..most} : IsInjective(w)}
      ends(w) == <<Head(c.intToSinkPath)>> \o w \o <<Last(c.sourceToIntPath)>>
      isPath(p) == IsInjective(p) /\ \A j \in 1..(Len(p) - 1) : p[j] \in ToSet(Outgoing(p[j + 1]))
  IN  {r \in {ends(w) : w \in wires} : isPath(r)}

EndRoute(rnodes) ==
  /\ conns' = [conns EXCEPT ![k].rnodes = rnodes]
  /\ k' = k + 1 /\ pc' = "route"
  /\ EndWalk

RouteIndirect ==
  /\ pc = "route" /\ k <= Len(conns) /\ ~conns[k].direct
  /\ \E r \in Routes(conns[k]) : EndRoute(r)
  /\ UNCHANGED <<net, srcPaths>>

Source == Head(conns[k].sourceToIntPath)
Sink == Last(conns[k].intToSinkPath)

StartDirect ==
  /\ pc = "route" /\ k <= Len(conns) /\ conns[k].direct
  /\ IF Sink \in ToSet(Outgoing(Source))
     THEN EndRoute(<<Sink, Source>>)
     ELSE pc' = "direct" /\ StartWalk(Source, DirectWatchdog) /\ UNCHANGED <<k, conns>>
  /\ UNCHANGED <<net, srcPaths>>

DirectWalk ==
  /\ pc = "direct" /\ q # <<>>
  /\ LET n == Head(q) IN
       IF n = Sink
       THEN \E trace \in {Trace(prev_map, n)} :
              IF Endless(trace) THEN pc' = "hung" /\ UNCHANGED <<k, walkVars, conns>>
                                ELSE EndRoute(trace)
       ELSE IF watchdog = 0
            THEN EndRoute(<<>>)
            ELSE Expand(n, Outgoing(n)) /\ watchdog' = watchdog - 1 /\ UNCHANGED <<pc, k, conns>>
  /\ UNCHANGED <<net, srcPaths>>

\* A connection without a route keeps no nodes; the failure is logged.
NoDirectRoute ==
  /\ pc = "direct" /\ q = <<>>
  /\ EndRoute(<<>>)
  /\ UNCHANGED <<net, srcPaths>>

ReaderNext ==
  \/ SourceWalk \/ NoSourcePath \/ SinkWalk \/ NoSinkPath
  \/ RouteIndirect \/ StartDirect \/ DirectWalk \/ NoDirectRoute

=============================================================================
