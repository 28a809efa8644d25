----------------------------- MODULE RouteGraph -----------------------------
(***************************************************************************)
(* The routing graph that the searches see (src/src/db/database.cpp):      *)
(* reduceRouteNode takes out, level by level, the nodes from which nothing *)
(* can be reached, and setRouteNodeChildren puts the pins back and stores  *)
(* the remaining edges as the children of the route nodes.                 *)
(*                                                                         *)
(* The threads that compute the degrees, the parents and the children own  *)
(* a stride of the nodes each, and the threads that mark the pins write    *)
(* the same value: each of these rounds is one step here.                  *)
(***************************************************************************)
EXTENDS Integers, Sequences, FiniteSets

CONSTANTS
  Nodes,
  Graphs,     \* what graph may be
  MaxPath     \* bound on the length of the paths of NoPathLost

IsGraph(g) ==
  /\ g.outgoing \subseteq Nodes \X Nodes /\ g.allowed \subseteq Nodes
  /\ g.sources \subseteq Nodes /\ g.sinks \subseteq Nodes

ASSUME RouteGraphAssumption ==
  /\ IsFiniteSet(Nodes)
  /\ MaxPath \in Nat
  /\ \A g \in Graphs : IsGraph(g)

VARIABLES
  graph,        \* the device and the netlist as they have been read
  pc,           \* "reduce", "children" or "done"
  inGraph,      \* the nodes whose nodes_in_graph is true
  outDegrees,
  deadEndNodeIds, newDeadEndNodeIds,
  children      \* the edges stored as children

vars == <<graph, pc, inGraph, outDegrees, deadEndNodeIds, newDeadEndNodeIds, children>>

Pins == graph.sources \cup graph.sinks

\* The nodes on an edge between two allowed tiles; the tile of a node is allowed
\* when it is of the type INT or LAG, which the code tests twice for a child.
NodesInGraph ==
  {n \in graph.allowed : \E m \in graph.allowed :
     <<n, m>> \in graph.outgoing \/ <<m, n>> \in graph.outgoing}

\* The edges that may be used when the nodes of G are in the graph.
Edges(G) ==
  {e \in graph.outgoing : e[1] \in G /\ e[2] \in (G \cap graph.allowed) \ graph.preserved}

\* Slip: edges that may not be used count as well.
AnyParents(n) == {m \in NodesInGraph : <<m, n>> \in graph.outgoing}

Parents(n) == {m \in Nodes : <<m, n>> \in Edges(NodesInGraph)}
OutEdges(n, G) == {m \in Nodes : <<n, m>> \in Edges(G)}

Init ==
  /\ graph \in Graphs
  /\ pc = "reduce"
  /\ inGraph = NodesInGraph
  /\ outDegrees = [n \in Nodes |-> Cardinality(OutEdges(n, NodesInGraph))]
  /\ deadEndNodeIds = {n \in NodesInGraph \ Pins : outDegrees[n] = 0}
  /\ newDeadEndNodeIds = {}
  /\ children = {}

\* Slips: a pin is a dead end too, or a node that has lost its first edge is
\* not looked at again.
DeadEndOrPin(deg, S) == {p \in S : deg[p] = 0}
DeadEndOnce(deg, S) == {p \in S \ Pins : deg[p] = 0 /\ Cardinality(OutEdges(p, NodesInGraph)) = 1}

\* The parents that have lost their last edge.
DeadEnds(deg, S) == {p \in S \ Pins : deg[p] = 0}

RemoveDeadEnd ==
  /\ pc = "reduce"
  /\ \E n \in deadEndNodeIds :
       /\ inGraph' = inGraph \ {n}
       /\ outDegrees' =
            [m \in Nodes |-> IF m \in Parents(n) THEN outDegrees[m] - 1 ELSE outDegrees[m]]
       /\ newDeadEndNodeIds' = newDeadEndNodeIds \cup DeadEnds(outDegrees', Parents(n))
       /\ deadEndNodeIds' = deadEndNodeIds \ {n}
  /\ UNCHANGED <<graph, pc, children>>

NextLevel ==
  /\ pc = "reduce" /\ deadEndNodeIds = {} /\ newDeadEndNodeIds # {}
  /\ deadEndNodeIds' = newDeadEndNodeIds
  /\ newDeadEndNodeIds' = {}
  /\ UNCHANGED <<graph, pc, inGraph, outDegrees, children>>

\* set_source_and_sink_in_graph
AddPins ==
  /\ pc = "reduce" /\ deadEndNodeIds = {} /\ newDeadEndNodeIds = {}
  /\ inGraph' = inGraph \cup Pins
  /\ pc' = "children"
  /\ UNCHANGED <<graph, outDegrees, deadEndNodeIds, newDeadEndNodeIds, children>>

SetChildren ==
  /\ pc = "children"
  /\ children' = Edges(inGraph)
  /\ pc' = "done"
  /\ UNCHANGED <<graph, inGraph, outDegrees, deadEndNodeIds, newDeadEndNodeIds>>

Next == RemoveDeadEnd \/ NextLevel \/ AddPins \/ SetChildren

Spec == Init /\ [][Next]_vars

-----------------------------------------------------------------------------

TypeOK ==
  /\ IsGraph(graph)
  /\ pc \in {"reduce", "children", "done"}
  /\ inGraph \subseteq Nodes
  /\ outDegrees \in [Nodes -> Nat]
  /\ deadEndNodeIds \subseteq Nodes /\ newDeadEndNodeIds \subseteq Nodes
  /\ children \subseteq Nodes \X Nodes

Paths == UNION {[1..k -> Nodes] : k \in 1..MaxPath}
Follows(p, E) == \A i \in 1..(Len(p) - 1) : <<p[i], p[i + 1]>> \in E

\* The edges of the device that enter a node the netlist leaves free.
DeviceEdges == {e \in graph.outgoing : e[2] \in graph.allowed \ graph.preserved}

\* The reduction loses no route (database.cpp:263-283, 286-329): a path of the
\* device from a source to a sink over allowed and free nodes is a path of the
\* children that the searches follow.
NoPathLost ==
  pc = "done" =>
    \A p \in Paths :
      p[1] \in graph.sources /\ p[Len(p)] \in graph.sinks /\ Follows(p, DeviceEdges)
        => Follows(p, children)

\* The reduction is complete (database.cpp:268-283): no node is left, other
\* than the pins, in which a search would get stuck.
NoDeadEndLeft ==
  pc = "done" => \A n \in inGraph \ Pins : \E e \in children : e[1] = n

\* The degree of a node counts its edges to nodes that have not been taken
\* out (database.cpp:276-278), so none is taken out too early or forgotten.
DegreesExact ==
  pc = "reduce" => \A n \in Nodes :
    outDegrees[n] = Cardinality(OutEdges(n, NodesInGraph) \cap inGraph)

=============================================================================
