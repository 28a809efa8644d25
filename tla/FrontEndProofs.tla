--------------------------- MODULE FrontEndProofs --------------------------
(***************************************************************************)
(* What comes out of the front end, for every device file, netlist and     *)
(* sequence of runs: a dump serves the device of its directory, the graph  *)
(* that is reduced is the one of the device that is in memory, its edges   *)
(* are the same from both ends, and a PIP that is written for an edge of   *)
(* it joins the nodes of the edge.  And the reduction of the graph loses   *)
(* no route and leaves no dead end.                                        *)
(*                                                                         *)
(* Neither property of the reduction is inductive.  What it maintains is   *)
(* that the nodes taken out are closed under the edges and hold no pin:    *)
(* the next node of a path that has entered them is one of them, so the    *)
(* path never comes to a sink.  That rests on the degrees being exact.     *)
(*                                                                         *)
(* The next parts are about the sequences that the walks flatten and the   *)
(* tables of the device: a walk lists the PIPs at the wires of a node,     *)
(* each once, and the PIPs that lead from m to n are those that come to n  *)
(* from m.  A dump is correct because each file of it, whole or not, is what a  *)
(* run for a device of the directory wrote; the edges need no invariant of *)
(* their own, as they are found anew from memory, which changes only       *)
(* between two runs.                                                       *)
(***************************************************************************)
EXTENDS FrontEnd, TLAPS, FiniteSetTheorems, NaturalsInduction, WellFoundedInduction,
        SequenceTheorems, FunctionTheorems

-----------------------------------------------------------------------------
(* The reduction of the routing graph, for every finite graph *)

Removed == NodesInGraph \ inGraph

\* No edge and no pin outside: what has been taken out reaches no pin.
RemovedClosed ==
  /\ Removed \cap Pins = {}
  /\ \A n \in Removed : OutEdges(n, NodesInGraph) \subseteq Removed

\* The dead ends still to be taken out are those of the graph, each once.
DeadEndsListed ==
  pc = "reduce" =>
    /\ inGraph \subseteq NodesInGraph
    /\ deadEndNodeIds \cap newDeadEndNodeIds = {}
    /\ deadEndNodeIds \cup newDeadEndNodeIds = {n \in inGraph \ Pins : outDegrees[n] = 0}

\* After the reduction the pins are in the graph and the others have an edge.
Reduced ==
  pc # "reduce" =>
    /\ Pins \subseteq inGraph
    /\ \A n \in inGraph \ Pins : n \in NodesInGraph /\ OutEdges(n, NodesInGraph) \cap inGraph # {}

ChildrenStored == pc = "done" => children = Edges(inGraph)

IInv == TypeOK /\ DegreesExact /\ RemovedClosed /\ DeadEndsListed /\ Reduced /\ ChildrenStored

-----------------------------------------------------------------------------

\* The edges, neighbours and degrees are over the nodes, and finite.
LEMMA GraphTypes ==
  ASSUME IsGraph(graph)
  PROVE  /\ NodesInGraph \subseteq Nodes
         /\ Pins \subseteq Nodes
         /\ graph.outgoing \subseteq Nodes \X Nodes
         /\ \A n, G : /\ OutEdges(n, G) \subseteq Nodes
                      /\ IsFiniteSet(OutEdges(n, G))
                      /\ \A H : IsFiniteSet(OutEdges(n, G) \cap H)
         /\ \A G : Edges(G) \subseteq Nodes \X Nodes
<1>1. /\ NodesInGraph \subseteq Nodes
      /\ Pins \subseteq Nodes
      /\ graph.outgoing \subseteq Nodes \X Nodes
  BY DEF IsGraph, NodesInGraph, Pins
<1>2. \A n, G : OutEdges(n, G) \subseteq Nodes
  BY DEF OutEdges
<1>3. \A n, G : IsFiniteSet(OutEdges(n, G))
  BY <1>2, RouteGraphAssumption, FS_Subset
<1>4. \A n, G, H : IsFiniteSet(OutEdges(n, G) \cap H)
  <2>1. \A n, G, H : OutEdges(n, G) \cap H \in SUBSET Nodes
    BY <1>2
  <2>2. QED  BY <2>1, RouteGraphAssumption, FS_Subset
<1>5. \A G : Edges(G) \subseteq Nodes \X Nodes
  BY <1>1 DEF Edges
<1>6. QED  BY <1>1, <1>2, <1>3, <1>4, <1>5

\* A degree is 0 exactly when no edge is left.
LEMMA DegreeZero ==
  ASSUME TypeOK, DegreesExact, pc = "reduce", NEW n \in Nodes
  PROVE  outDegrees[n] = 0 <=> OutEdges(n, NodesInGraph) \cap inGraph = {}
<1>1. IsFiniteSet(OutEdges(n, NodesInGraph) \cap inGraph)
  BY GraphTypes DEF TypeOK
<1>2. QED  BY <1>1, FS_EmptySet DEF DegreesExact

\* The state in which the reduction of a graph starts.
Unreduced ==
  /\ IsGraph(graph) /\ pc = "reduce" /\ inGraph = NodesInGraph
  /\ outDegrees = [n \in Nodes |-> Cardinality(OutEdges(n, NodesInGraph))]
  /\ deadEndNodeIds = {n \in NodesInGraph \ Pins : outDegrees[n] = 0}
  /\ newDeadEndNodeIds = {} /\ children = {}

LEMMA UnreducedIInv == Unreduced => IInv
<1> SUFFICES ASSUME Unreduced PROVE IInv
  OBVIOUS
<1> USE DEF Unreduced
<1>1. /\ NodesInGraph \subseteq Nodes
      /\ \A n \in Nodes : IsFiniteSet(OutEdges(n, NodesInGraph))
  BY GraphTypes
<1>2. TypeOK
  <2>1. \A n \in Nodes : Cardinality(OutEdges(n, NodesInGraph)) \in Nat
    BY <1>1, FS_CardinalityType
  <2>2. outDegrees \in [Nodes -> Nat]
    BY <2>1
  <2>3. QED  BY <1>1, <2>2 DEF TypeOK
<1>3. DegreesExact
  <2>1. \A n \in Nodes : OutEdges(n, NodesInGraph) \cap inGraph = OutEdges(n, NodesInGraph)
    BY DEF OutEdges, Edges
  <2>2. QED  BY <2>1 DEF DegreesExact
<1>4. Removed = {}
  BY DEF Removed
<1>5. RemovedClosed /\ DeadEndsListed /\ Reduced /\ ChildrenStored
  BY <1>4 DEF RemovedClosed, DeadEndsListed, Reduced, ChildrenStored
<1>6. QED  BY <1>2, <1>3, <1>5 DEF IInv

\* What taking out one dead end does to the invariant.
LEMMA RemoveDeadEndIInv == IInv /\ RemoveDeadEnd => IInv'
<1> SUFFICES ASSUME IInv, RemoveDeadEnd PROVE IInv'
  OBVIOUS
<1> USE DEF IInv
<1>0. /\ pc = "reduce" /\ pc' = "reduce" /\ graph' = graph /\ children' = children
  BY DEF RemoveDeadEnd
<1>1. PICK n \in deadEndNodeIds :
        /\ inGraph' = inGraph \ {n}
        /\ outDegrees' =
             [m \in Nodes |-> IF m \in Parents(n) THEN outDegrees[m] - 1 ELSE outDegrees[m]]
        /\ newDeadEndNodeIds' = newDeadEndNodeIds \cup DeadEnds(outDegrees', Parents(n))
        /\ deadEndNodeIds' = deadEndNodeIds \ {n}
  BY DEF RemoveDeadEnd
<1>2. /\ Pins' = Pins /\ NodesInGraph' = NodesInGraph
      /\ \A m, G : OutEdges(m, G)' = OutEdges(m, G)
  BY <1>0 DEF Pins, NodesInGraph, OutEdges, Edges
<1>3. /\ n \in Nodes /\ n \in inGraph /\ n \notin Pins /\ outDegrees[n] = 0 /\ n \in NodesInGraph
  BY <1>0 DEF TypeOK, DeadEndsListed
<1>4. OutEdges(n, NodesInGraph) \subseteq Removed
  <2>1. OutEdges(n, NodesInGraph) \cap inGraph = {}
    BY <1>0, <1>3, DegreeZero
  <2>2. OutEdges(n, NodesInGraph) \subseteq NodesInGraph
    BY DEF OutEdges, Edges
  <2>3. QED  BY <2>1, <2>2 DEF Removed
<1>5. \A m \in Nodes : m \in Parents(n) <=> n \in OutEdges(m, NodesInGraph) \cap inGraph
  BY <1>3 DEF Parents, OutEdges
<1>6. \A m \in Nodes :
        outDegrees'[m] = Cardinality(OutEdges(m, NodesInGraph) \cap (inGraph \ {n}))
  <2> SUFFICES ASSUME NEW m \in Nodes
               PROVE  outDegrees'[m] = Cardinality(OutEdges(m, NodesInGraph) \cap (inGraph \ {n}))
    OBVIOUS
  <2> DEFINE left == OutEdges(m, NodesInGraph) \cap inGraph
  <2>1. IsFiniteSet(left)
    BY GraphTypes DEF TypeOK
  <2>2. Cardinality(left \ {n}) = IF n \in left THEN Cardinality(left) - 1 ELSE Cardinality(left)
    BY <2>1, FS_RemoveElement
  <2>3. outDegrees[m] = Cardinality(left)
    BY <1>0 DEF DegreesExact
  <2>4. outDegrees'[m] = Cardinality(left \ {n})
    BY <1>1, <1>5, <2>2, <2>3
  <2>5. left \ {n} = OutEdges(m, NodesInGraph) \cap (inGraph \ {n})
    OBVIOUS
  <2>6. QED  BY <2>4, <2>5
<1>7. DegreesExact'
  BY <1>1, <1>2, <1>6 DEF DegreesExact
<1>8. \A m \in Parents(n) : outDegrees[m] # 0
  <2>1. Parents(n) \subseteq Nodes
    BY DEF Parents
  <2>2. QED  BY <1>0, <1>5, <2>1, DegreeZero
<1>9. TypeOK'
  <2>1. \A m \in Nodes : outDegrees[m] \in Nat
    BY DEF TypeOK
  <2>2. outDegrees' \in [Nodes -> Nat]
    <3>1. \A m \in Nodes : (IF m \in Parents(n) THEN outDegrees[m] - 1 ELSE outDegrees[m]) \in Nat
      BY <1>8, <2>1
    <3>2. QED  BY <1>1, <3>1
  <2>3. DeadEnds(outDegrees', Parents(n)) \subseteq Nodes
    BY DEF DeadEnds, Parents
  <2>4. QED  BY <1>0, <1>1, <2>2, <2>3 DEF TypeOK
<1>10. Removed' = Removed \cup {n}
  BY <1>1, <1>2, <1>3 DEF Removed
<1>11. RemovedClosed'
  <2>1. Removed' \cap Pins' = {}
    BY <1>2, <1>3, <1>10 DEF RemovedClosed
  <2>2. \A m \in Removed' : OutEdges(m, NodesInGraph) \subseteq Removed'
    BY <1>4, <1>10 DEF RemovedClosed
  <2>3. QED  BY <1>2, <2>1, <2>2 DEF RemovedClosed
<1>12. \A m \in Parents(n) : m \in inGraph \ {n} /\ m \notin deadEndNodeIds \cup newDeadEndNodeIds
  <2> SUFFICES ASSUME NEW m \in Parents(n)
               PROVE  m \in inGraph \ {n} /\ m \notin deadEndNodeIds \cup newDeadEndNodeIds
    OBVIOUS
  <2>1. m \in Nodes /\ m \in NodesInGraph /\ n \in OutEdges(m, NodesInGraph) /\ outDegrees[m] # 0
    BY <1>3, <1>8 DEF Parents, OutEdges, Edges
  <2>2. m \in inGraph
    BY <1>3, <2>1 DEF RemovedClosed, Removed
  <2>3. QED  BY <1>0, <1>3, <2>1, <2>2 DEF DeadEndsListed
<1>13. DeadEndsListed'
  <2>1. inGraph' \subseteq NodesInGraph
    BY <1>0, <1>1 DEF DeadEndsListed
  <2>2. deadEndNodeIds' \cap newDeadEndNodeIds' = {}
    BY <1>0, <1>1, <1>12 DEF DeadEndsListed, DeadEnds
  <2>3. ASSUME NEW m
        PROVE  m \in deadEndNodeIds' \cup newDeadEndNodeIds'
                 <=> m \in inGraph' \ Pins /\ outDegrees'[m] = 0
    <3>1. m \in inGraph => m \in Nodes
      BY DEF TypeOK
    <3>2. m \in Parents(n) => m \in Nodes
      BY DEF Parents
    <3>3. n \notin newDeadEndNodeIds
      BY <1>0 DEF DeadEndsListed
    <3>4. CASE m \in Parents(n)
      BY <1>1, <1>12, <3>2, <3>4 DEF DeadEnds
    <3>5. CASE m \notin Parents(n)
      <4>1. m \in deadEndNodeIds' \cup newDeadEndNodeIds'
              <=> m # n /\ m \in deadEndNodeIds \cup newDeadEndNodeIds
        BY <1>1, <3>3, <3>5 DEF DeadEnds
      <4>2. m \in inGraph => outDegrees'[m] = outDegrees[m]
        BY <1>1, <3>1, <3>5
      <4>3. QED  BY <1>0, <1>1, <4>1, <4>2 DEF DeadEndsListed
    <3>6. QED  BY <3>4, <3>5
  <2>4. deadEndNodeIds' \cup newDeadEndNodeIds' = {m \in inGraph' \ Pins : outDegrees'[m] = 0}
    BY <2>3
  <2>5. QED  BY <1>2, <2>1, <2>2, <2>4 DEF DeadEndsListed
<1>14. Reduced' /\ ChildrenStored'
  BY <1>0 DEF Reduced, ChildrenStored
<1>15. QED  BY <1>7, <1>9, <1>11, <1>13, <1>14

\* When no dead end is left, every node but the pins has an edge left.
LEMMA AddPinsIInv == IInv /\ AddPins => IInv'
<1> SUFFICES ASSUME IInv, AddPins PROVE IInv'
  OBVIOUS
<1> USE DEF IInv
<1>1. /\ pc = "reduce" /\ pc' = "children" /\ inGraph' = inGraph \cup Pins
      /\ deadEndNodeIds = {} /\ newDeadEndNodeIds = {}
      /\ UNCHANGED <<graph, outDegrees, deadEndNodeIds, newDeadEndNodeIds, children>>
  BY DEF AddPins
<1>2. /\ Pins' = Pins /\ NodesInGraph' = NodesInGraph
      /\ \A m, G : OutEdges(m, G)' = OutEdges(m, G)
  BY <1>1 DEF Pins, NodesInGraph, OutEdges, Edges
<1>3. TypeOK'
  BY <1>1, GraphTypes DEF TypeOK
<1>4. Removed' = Removed
  BY <1>1, <1>2 DEF Removed, RemovedClosed
<1>5. RemovedClosed'
  BY <1>2, <1>4 DEF RemovedClosed
<1>6. Reduced'
  <2>1. Pins' \subseteq inGraph'
    BY <1>1, <1>2
  <2>2. \A n \in inGraph' \ Pins' :
          n \in NodesInGraph /\ OutEdges(n, NodesInGraph) \cap inGraph # {}
    <3> SUFFICES ASSUME NEW n \in inGraph \ Pins
                 PROVE  n \in NodesInGraph /\ OutEdges(n, NodesInGraph) \cap inGraph # {}
      BY <1>1, <1>2
    <3>1. n \in Nodes /\ n \in NodesInGraph /\ outDegrees[n] # 0
      BY <1>1 DEF TypeOK, DeadEndsListed
    <3>2. QED  BY <1>1, <3>1, DegreeZero
  <2>3. QED  BY <1>1, <1>2, <2>1, <2>2 DEF Reduced
<1>7. DegreesExact' /\ DeadEndsListed' /\ ChildrenStored'
  BY <1>1 DEF DegreesExact, DeadEndsListed, ChildrenStored
<1>8. QED  BY <1>3, <1>5, <1>6, <1>7

LEMMA NextIInv == IInv /\ [Next]_vars => IInv'
<1> SUFFICES ASSUME IInv, [Next]_vars PROVE IInv'
  OBVIOUS
<1>1. CASE RemoveDeadEnd
  BY <1>1, RemoveDeadEndIInv
<1>2. CASE NextLevel
  <2>1. UNCHANGED <<graph, pc, inGraph, outDegrees, children>>
    BY <1>2 DEF NextLevel
  <2>2. /\ Pins' = Pins /\ NodesInGraph' = NodesInGraph
        /\ \A m, G : OutEdges(m, G)' = OutEdges(m, G)
    BY <2>1 DEF Pins, NodesInGraph, OutEdges, Edges
  <2>3. TypeOK' /\ DeadEndsListed'
    BY <1>2, <2>1, <2>2 DEF IInv, TypeOK, DeadEndsListed, NextLevel
  <2>4. DegreesExact'
    BY <2>1, <2>2 DEF IInv, DegreesExact
  <2>5. RemovedClosed'
    BY <2>1, <2>2 DEF IInv, RemovedClosed, Removed
  <2>6. Reduced' /\ ChildrenStored'
    BY <1>2, <2>1 DEF NextLevel, Reduced, ChildrenStored
  <2>7. QED  BY <2>3, <2>4, <2>5, <2>6 DEF IInv
<1>3. CASE AddPins
  BY <1>3, AddPinsIInv
<1>4. CASE SetChildren
  <2>1. /\ pc = "children" /\ pc' = "done" /\ children' = Edges(inGraph)
        /\ UNCHANGED <<graph, inGraph, outDegrees, deadEndNodeIds, newDeadEndNodeIds>>
    BY <1>4 DEF SetChildren
  <2>2. /\ Pins' = Pins /\ NodesInGraph' = NodesInGraph /\ Edges(inGraph)' = Edges(inGraph)
        /\ \A m, G : OutEdges(m, G)' = OutEdges(m, G)
    BY <2>1 DEF Pins, NodesInGraph, OutEdges, Edges
  <2>3. TypeOK'
    BY <2>1, GraphTypes DEF IInv, TypeOK
  <2>4. RemovedClosed'
    BY <2>1, <2>2 DEF IInv, RemovedClosed, Removed
  <2>5. Reduced' /\ ChildrenStored'
    BY <2>1, <2>2 DEF IInv, Reduced, ChildrenStored
  <2>6. DegreesExact' /\ DeadEndsListed'
    BY <2>1 DEF DegreesExact, DeadEndsListed
  <2>7. QED  BY <2>3, <2>4, <2>5, <2>6 DEF IInv
<1>5. CASE UNCHANGED vars
  <2>1. UNCHANGED <<graph, pc, inGraph, outDegrees, deadEndNodeIds, newDeadEndNodeIds, children>>
    BY <1>5 DEF vars
  <2>2. /\ Pins' = Pins /\ NodesInGraph' = NodesInGraph /\ Edges(inGraph)' = Edges(inGraph)
        /\ \A m, G : OutEdges(m, G)' = OutEdges(m, G)
    BY <2>1 DEF Pins, NodesInGraph, OutEdges, Edges
  <2>3. TypeOK' /\ DegreesExact'
    BY <2>1, <2>2 DEF IInv, TypeOK, DegreesExact
  <2>4. RemovedClosed'
    BY <2>1, <2>2 DEF IInv, RemovedClosed, Removed
  <2>5. DeadEndsListed' /\ Reduced' /\ ChildrenStored'
    BY <2>1, <2>2 DEF IInv, DeadEndsListed, Reduced, ChildrenStored
  <2>6. QED  BY <2>3, <2>4, <2>5 DEF IInv
<1>6. QED  BY <1>1, <1>2, <1>3, <1>4, <1>5 DEF Next

\* A path that enters the nodes taken out stays in them.
LEMMA PathStaysRemoved ==
  ASSUME TypeOK, RemovedClosed,
         NEW p \in Paths, Follows(p, DeviceEdges),
         NEW i \in 1..Len(p), p[i] \in Removed
  PROVE  p[Len(p)] \in Removed
<1>1. PICK k \in 1..MaxPath : p \in [1..k -> Nodes]
  BY DEF Paths
<1>2. k \in Nat /\ Len(p) = k
  BY <1>1, RouteGraphAssumption
<1> DEFINE T == {j \in Nat : i <= j /\ j <= k /\ p[j] \notin Removed}
<1>3. SUFFICES ASSUME T # {} PROVE FALSE
  BY <1>2
<1>4. PICK j \in T : \A h \in T : ~(<<h, j>> \in OpToRel(<, Nat))
  BY <1>3, NatLessThanWellFounded, WFMin, T \subseteq Nat
<1>5. j - 1 \in Nat /\ i <= j - 1 /\ j - 1 < k /\ j - 1 \in 1..(Len(p) - 1)
  <2>1. j # i
    BY <1>2
  <2>2. QED  BY <1>2, <2>1
<1>6. p[j - 1] \in Removed
  <2>1. <<j - 1, j>> \in OpToRel(<, Nat)
    BY <1>5 DEF OpToRel
  <2>2. j - 1 \notin T
    BY <1>4, <2>1
  <2>3. QED  BY <1>5, <2>2
<1>7. <<p[j - 1], p[j]>> \in DeviceEdges
  <2>1. <<p[j - 1], p[(j - 1) + 1]>> \in DeviceEdges
    BY <1>5 DEF Follows
  <2>2. (j - 1) + 1 = j
    BY <1>5
  <2>3. QED  BY <2>1, <2>2
<1>8. p[j] \in OutEdges(p[j - 1], NodesInGraph)
  <2>1. /\ <<p[j - 1], p[j]>> \in graph.outgoing
        /\ p[j] \in graph.allowed /\ p[j] \notin graph.preserved
    BY <1>7 DEF DeviceEdges
  <2>2. p[j - 1] \in NodesInGraph /\ p[j - 1] \in graph.allowed
    BY <1>6 DEF Removed, NodesInGraph
  <2>3. p[j] \in NodesInGraph
    BY <2>1, <2>2 DEF NodesInGraph
  <2>4. p[j] \in Nodes
    BY <2>3, GraphTypes DEF TypeOK
  <2>5. QED  BY <2>1, <2>2, <2>3, <2>4 DEF OutEdges, Edges
<1>9. QED  BY <1>6, <1>8 DEF RemovedClosed

LEMMA IInvNoPathLost == IInv => NoPathLost
<1> SUFFICES ASSUME IInv, pc = "done", NEW p \in Paths,
                    p[1] \in graph.sources, p[Len(p)] \in graph.sinks, Follows(p, DeviceEdges),
                    NEW i \in 1..(Len(p) - 1)
             PROVE  <<p[i], p[i + 1]>> \in children
  BY DEF NoPathLost, Follows
<1> USE DEF IInv
<1>1. PICK k \in 1..MaxPath : p \in [1..k -> Nodes]
  BY DEF Paths
<1>2. k \in Nat /\ Len(p) = k /\ i \in Nat /\ i < k /\ 1 <= i
  BY <1>1, RouteGraphAssumption
<1>3. Pins \subseteq inGraph /\ children = Edges(inGraph)
  BY DEF Reduced, ChildrenStored
<1>4. \A j \in 1..k : p[j] \notin Removed
  <2>1. p[Len(p)] \notin Removed
    BY DEF RemovedClosed, Pins
  <2>2. QED  BY <1>2, <2>1, PathStaysRemoved
<1>5. \A j \in 1..(k - 1) :
        /\ <<p[j], p[j + 1]>> \in graph.outgoing
        /\ p[j + 1] \in graph.allowed \ graph.preserved
  BY <1>2 DEF Follows, DeviceEdges
<1>6. \A j \in 1..k : p[j] \in inGraph
  <2> SUFFICES ASSUME NEW j \in 1..k PROVE p[j] \in inGraph
    OBVIOUS
  <2>1. CASE j = 1
    BY <1>3, <2>1 DEF Pins
  <2>2. CASE j = k
    BY <1>2, <1>3, <2>2 DEF Pins
  <2>3. CASE j # 1 /\ j # k
    <3>1. j - 1 \in 1..(k - 1) /\ j \in 1..(k - 1) /\ (j - 1) + 1 = j
      BY <1>2, <2>3
    <3>2. p[j] \in graph.allowed /\ p[j + 1] \in graph.allowed
          /\ <<p[j], p[j + 1]>> \in graph.outgoing
      BY <1>5, <3>1
    <3>3. p[j] \in NodesInGraph
      BY <3>2 DEF NodesInGraph
    <3>4. QED  BY <1>4, <3>3 DEF Removed
  <2>4. QED  BY <2>1, <2>2, <2>3
<1>7. i \in 1..(k - 1) /\ i \in 1..k /\ i + 1 \in 1..k
  BY <1>2
<1>8. QED  BY <1>3, <1>5, <1>6, <1>7 DEF Edges

LEMMA IInvNoDeadEndLeft == IInv => NoDeadEndLeft
<1> SUFFICES ASSUME IInv, pc = "done", NEW n \in inGraph \ Pins
             PROVE  \E e \in children : e[1] = n
  BY DEF NoDeadEndLeft
<1> USE DEF IInv
<1>1. PICK m \in inGraph : m \in OutEdges(n, NodesInGraph)
  BY DEF Reduced
<1>2. <<n, m>> \in Edges(inGraph)
  BY <1>1 DEF OutEdges, Edges
<1>3. QED  BY <1>2 DEF ChildrenStored

-----------------------------------------------------------------------------

\* The inductive invariant holds in every state of the reduction.
THEOREM ReductionInvariant == Spec => []IInv
<1>1. Init => IInv
  BY UnreducedIInv, RouteGraphAssumption DEF Init, Unreduced
<1>2. QED  BY <1>1, NextIInv, PTL DEF Spec

\* The degrees that reduceRouteNode counts down are exact at all times
\* (database.cpp:276-278).
THEOREM DegreesAreExact == Spec => [](TypeOK /\ DegreesExact)
<1>1. IInv => TypeOK /\ DegreesExact
  BY DEF IInv
<1>2. QED  BY <1>1, ReductionInvariant, PTL

\* Whatever the graph, the reduction loses no path from a source to a sink
\* (database.cpp:263-329).
THEOREM ReductionKeepsPaths == Spec => []NoPathLost
<1>1. QED  BY IInvNoPathLost, ReductionInvariant, PTL

\* Whatever the graph, only pins are left without a child
\* (database.cpp:268-329).
THEOREM ReductionIsComplete == Spec => []NoDeadEndLeft
<1>1. QED  BY IInvNoDeadEndLeft, ReductionInvariant, PTL


-----------------------------------------------------------------------------
\* Sequences

\* Every set of numbers that is not empty has a least one.
LEMMA LeastNat ==
  ASSUME NEW T, T \subseteq Nat, T # {}
  PROVE  \E m \in T : \A n \in T : m <= n
<1>1. PICK m \in T : \A n \in T : ~(<<n, m>> \in OpToRel(<, Nat))
  BY NatLessThanWellFounded, WFMin
<1>2. ASSUME NEW n \in T, n < m PROVE FALSE
  <2>1. <<n, m>> \in OpToRel(<, Nat)
    BY <1>2 DEF OpToRel
  <2>2. QED  BY <1>1, <2>1
<1>3. QED  BY <1>2

\* FlattenSeq puts the sequences one after the other.
Flattens(f, ss, n) ==
  DOMAIN f = 1..n /\ \A i \in 1..n : f[i] = IF i = 1 THEN ss[i] ELSE f[i - 1] \o ss[i]

LEMMA FlattensNext ==
  ASSUME NEW ss, NEW n \in Nat \ {0}, NEW f, Flattens(f, ss, n)
  PROVE  \E g : Flattens(g, ss, n + 1)
<1>0. PICK s : s = f[n] \o ss[n + 1]
  OBVIOUS
<1> DEFINE g == [i \in 1..(n + 1) |-> IF i = n + 1 THEN s ELSE f[i]]
<1>1. DOMAIN g = 1..(n + 1) /\ g[n + 1] = f[n] \o ss[n + 1] /\ \A i \in 1..n : g[i] = f[i]
  <2>1. DOMAIN g = 1..(n + 1) /\ g[n + 1] = s
    OBVIOUS
  <2>2. \A i \in 1..n : i \in 1..(n + 1) /\ i # n + 1
    OBVIOUS
  <2>3. QED  BY <1>0, <2>1, <2>2
<1> HIDE DEF g
<1>2. ASSUME NEW i \in 1..(n + 1) PROVE g[i] = IF i = 1 THEN ss[i] ELSE g[i - 1] \o ss[i]
  <2>1. CASE i = n + 1
    <3>1. i - 1 = n /\ n \in 1..n /\ i # 1
      BY <2>1
    <3>2. QED  BY <1>1, <2>1, <3>1
  <2>2. CASE i # n + 1
    <3>1. i \in 1..n /\ (i # 1 => i - 1 \in 1..n)
      BY <2>2
    <3>2. QED  BY <1>1, <3>1 DEF Flattens
  <2>3. QED  BY <2>1, <2>2
<1>3. QED  BY <1>1, <1>2 DEF Flattens

LEMMA FlattensExists ==
  ASSUME NEW ss, NEW n \in Nat \ {0}
  PROVE  \E f : Flattens(f, ss, n)
<1> DEFINE T == {m \in 1..n : ~ \E f : Flattens(f, ss, m)}
<1>1. CASE T = {}
  BY <1>1
<1>2. CASE T # {}
  <2>1. PICK m \in T : \A l \in T : m <= l
    <3>1. T \subseteq Nat
      OBVIOUS
    <3> HIDE DEF T
    <3>2. QED  BY <1>2, <3>1, LeastNat
  <2>2. CASE m = 1
    <3> DEFINE g == [i \in 1..1 |-> ss[i]]
    <3>1. Flattens(g, ss, 1)
      BY DEF Flattens
    <3>2. QED  BY <2>1, <2>2, <3>1
  <2>3. CASE m # 1
    <3>1. m - 1 \in 1..n /\ m - 1 \notin T /\ m \in Nat \ {0}
      BY <2>1, <2>3
    <3>2. PICK f : Flattens(f, ss, m - 1)
      BY <3>1
    <3>3. (m - 1) + 1 = m
      BY <3>1
    <3>4. \E g : Flattens(g, ss, m)
      BY <2>3, <3>1, <3>2, <3>3, FlattensNext
    <3>5. QED  BY <2>1, <3>4
  <2>4. QED  BY <2>2, <2>3
<1>3. QED  BY <1>1, <1>2

LEMMA FlattenSeqIs ==
  ASSUME NEW ss, Len(ss) \in Nat \ {0}
  PROVE  \E f : Flattens(f, ss, Len(ss)) /\ FlattenSeq(ss) = f[Len(ss)]
<1> DEFINE F(f) == f = [i \in 1..Len(ss) |-> IF i = 1 THEN ss[i] ELSE f[i - 1] \o ss[i]]
<1>1. PICK f : Flattens(f, ss, Len(ss))
  BY FlattensExists
<1> DEFINE g == [i \in 1..Len(ss) |-> f[i]]
<1>2. F(g)
  <2>1. \A i \in 1..Len(ss) : g[i] = f[i] /\ (i # 1 => g[i - 1] = f[i - 1])
    OBVIOUS
  <2>2. \A i \in 1..Len(ss) : g[i] = IF i = 1 THEN ss[i] ELSE g[i - 1] \o ss[i]
    <3> HIDE DEF g
    <3>1. QED  BY <1>1, <2>1 DEF Flattens
  <2>3. g = [i \in 1..Len(ss) |-> g[i]]
    OBVIOUS
  <2> HIDE DEF g
  <2>4. QED  BY <2>2, <2>3
<1> HIDE DEF g
<1>3. F(CHOOSE h : F(h))
  BY <1>2
<1>4. Flattens(CHOOSE h : F(h), ss, Len(ss))
  BY <1>3 DEF Flattens
<1>5. FlattenSeq(ss) = (CHOOSE h : F(h))[Len(ss)]
  BY DEF FlattenSeq
<1>6. QED  BY <1>4, <1>5

LEMMA ToSetOfConcat ==
  ASSUME NEW S, NEW s \in Seq(S), NEW u \in Seq(S)
  PROVE  /\ s \o u \in Seq(S)
         /\ \A x : x \in ToSet(s \o u) <=> x \in ToSet(s) \/ x \in ToSet(u)
<1>1. /\ s \o u \in Seq(S) /\ Len(s \o u) = Len(s) + Len(u) /\ Len(s) \in Nat /\ Len(u) \in Nat
      /\ \A i \in 1..(Len(s) + Len(u)) : (s \o u)[i] = IF i <= Len(s) THEN s[i] ELSE u[i - Len(s)]
  BY ConcatProperties, LenProperties
<1>2. DOMAIN s = 1..Len(s) /\ DOMAIN u = 1..Len(u) /\ DOMAIN (s \o u) = 1..(Len(s) + Len(u))
  BY <1>1, LenProperties
<1>3. PICK w : w = s \o u
  OBVIOUS
<1>4. ASSUME NEW x, x \in ToSet(s) PROVE x \in ToSet(w)
  <2>1. PICK i \in 1..Len(s) : x = s[i]
    BY <1>2, <1>4 DEF ToSet
  <2>2. i \in 1..(Len(s) + Len(u)) /\ w[i] = x
    BY <1>1, <1>3, <2>1
  <2>3. QED  BY <1>2, <1>3, <2>2 DEF ToSet
<1>5. ASSUME NEW x, x \in ToSet(u) PROVE x \in ToSet(w)
  <2>1. PICK i \in 1..Len(u) : x = u[i]
    BY <1>2, <1>5 DEF ToSet
  <2>2. i + Len(s) \in 1..(Len(s) + Len(u)) /\ ~(i + Len(s) <= Len(s)) /\ (i + Len(s)) - Len(s) = i
    BY <1>1
  <2>3. w[i + Len(s)] = x
    BY <1>1, <1>3, <2>1, <2>2
  <2>4. QED  BY <1>2, <1>3, <2>2, <2>3 DEF ToSet
<1>6. ASSUME NEW x, x \in ToSet(w) PROVE x \in ToSet(s) \/ x \in ToSet(u)
  <2>1. PICK i \in 1..(Len(s) + Len(u)) : x = w[i]
    BY <1>2, <1>3, <1>6 DEF ToSet
  <2>2. CASE i <= Len(s)
    BY <1>1, <1>2, <1>3, <2>1, <2>2 DEF ToSet
  <2>3. CASE ~(i <= Len(s))
    <3>1. i - Len(s) \in 1..Len(u) /\ x = u[i - Len(s)]
      BY <1>1, <1>3, <2>1, <2>3
    <3>2. QED  BY <1>2, <3>1 DEF ToSet
  <2>4. QED  BY <2>2, <2>3
<1>7. QED  BY <1>1, <1>3, <1>4, <1>5, <1>6

\* All elements of the sequences are in it, and no others.
LEMMA FlattenSeqOf ==
  ASSUME NEW S, NEW ss \in Seq(Seq(S))
  PROVE  /\ FlattenSeq(ss) \in Seq(S)
         /\ \A i \in 1..Len(ss) : \A x \in ToSet(ss[i]) : x \in ToSet(FlattenSeq(ss))
<1>1. Len(ss) \in Nat /\ \A i \in 1..Len(ss) : ss[i] \in Seq(S)
  OBVIOUS
<1>2. CASE Len(ss) = 0
  <2>1. FlattenSeq(ss) = ss
    BY <1>2 DEF FlattenSeq
  <2>2. ss = <<>>
    BY <1>2
  <2>3. QED  BY <1>2, <2>1, <2>2, EmptySeq
<1>3. CASE Len(ss) # 0
  <2>1. PICK f : Flattens(f, ss, Len(ss)) /\ FlattenSeq(ss) = f[Len(ss)]
    BY <1>1, <1>3, FlattenSeqIs
  <2> DEFINE Good(n) == /\ f[n] \in Seq(S)
                        /\ \A i \in 1..n : \A x \in ToSet(ss[i]) : x \in ToSet(f[n])
             T == {n \in 1..Len(ss) : ~Good(n)}
  <2>2. CASE T = {}
    <3>1. Len(ss) \in 1..Len(ss)
      BY <1>1, <1>3
    <3>2. Good(Len(ss))
      BY <2>2, <3>1
    <3>3. QED  BY <2>1, <3>2
  <2>3. CASE T # {}
    <3>1. PICK m \in T : \A l \in T : m <= l
      <4>1. T \subseteq Nat
        BY <1>1
      <4> HIDE DEF T
      <4>2. QED  BY <2>3, <4>1, LeastNat
    <3>2. m \in 1..Len(ss) /\ ~Good(m) /\ ss[m] \in Seq(S)
      BY <1>1, <3>1
    <3>3. CASE m = 1
      <4>1. f[1] = ss[1]
        BY <2>1, <3>2, <3>3 DEF Flattens
      <4>2. QED  BY <3>2, <3>3, <4>1
    <3>4. CASE m # 1
      <4>1. m - 1 \in 1..Len(ss) /\ m \in Int /\ m - 1 < m
        <5> HIDE DEF Good
        <5>1. QED  BY <1>1, <3>2, <3>4
      <4>0. f[m] = f[m - 1] \o ss[m]
        <5> HIDE DEF Good
        <5>1. m \in 1..Len(ss) /\ m # 1
          BY <3>2, <3>4
        <5>2. QED  BY <2>1, <5>1 DEF Flattens
      <4>2. Good(m - 1)
        <5> HIDE DEF Good
        <5>1. m - 1 \notin T
          <6>1. SUFFICES ASSUME m - 1 \in T PROVE FALSE
            OBVIOUS
          <6>2. m <= m - 1
            <7> HIDE DEF T
            <7>1. QED  BY <3>1, <6>1
          <6>3. QED  BY <4>1, <6>2
        <5>2. QED  BY <4>1, <5>1
      <4>3. /\ f[m] \in Seq(S)
            /\ \A x : x \in ToSet(f[m - 1]) \/ x \in ToSet(ss[m]) => x \in ToSet(f[m])
        <5>1. PICK s \in Seq(S) : s = f[m - 1]
          BY <4>2
        <5>2. PICK u \in Seq(S) : u = ss[m]
          BY <3>2
        <5>3. s \o u \in Seq(S) /\ \A x : x \in ToSet(s) \/ x \in ToSet(u) => x \in ToSet(s \o u)
          BY ToSetOfConcat
        <5>4. QED  BY <4>0, <5>1, <5>2, <5>3
      <4>4. \A i \in 1..m : i = m \/ i \in 1..(m - 1)
        BY <4>1
      <4>5. Good(m)
        BY <4>2, <4>3, <4>4
      <4>6. QED  BY <3>2, <4>5
    <3>5. QED  BY <3>3, <3>4
  <2>4. QED  BY <2>2, <2>3
<1>4. QED  BY <1>2, <1>3

LEMMA FlattenElements ==
  ASSUME NEW S, NEW ss \in Seq(Seq(S))
  PROVE  \A x : x \in ToSet(FlattenSeq(ss)) <=> \E i \in 1..Len(ss) : x \in ToSet(ss[i])
<1> DEFINE E == UNION {ToSet(ss[i]) : i \in 1..Len(ss)}
<1>1. Len(ss) \in Nat /\ DOMAIN ss = 1..Len(ss) /\ \A i \in 1..Len(ss) : ss[i] \in Seq(S)
  OBVIOUS
<1>2. ASSUME NEW i \in 1..Len(ss) PROVE ss[i] \in Seq(E)
  <2>1. PICK u \in Seq(S) : u = ss[i]
    BY <1>1
  <2>2. \A k \in 1..Len(u) : u[k] \in ToSet(u)
    BY DEF ToSet
  <2>3. ToSet(u) \subseteq E
    BY <2>1
  <2> HIDE DEF E
  <2>4. u \in Seq(E)
    BY <2>2, <2>3
  <2>5. QED  BY <2>1, <2>4
<1>3. ss \in Seq(Seq(E))
  <2> HIDE DEF E
  <2>1. QED  BY <1>1, <1>2
<1>4. /\ FlattenSeq(ss) \in Seq(E)
      /\ \A i \in 1..Len(ss) : \A x \in ToSet(ss[i]) : x \in ToSet(FlattenSeq(ss))
  <2> HIDE DEF E
  <2>1. QED  BY <1>3, FlattenSeqOf
<1>5. ASSUME NEW x, x \in ToSet(FlattenSeq(ss)) PROVE x \in E
  <2> HIDE DEF E
  <2>1. PICK u \in Seq(E) : u = FlattenSeq(ss)
    BY <1>4
  <2>2. PICK k \in DOMAIN u : x = u[k]
    BY <1>5, <2>1 DEF ToSet
  <2>3. QED  BY <2>1, <2>2
<1>6. QED  BY <1>4, <1>5

-----------------------------------------------------------------------------
\* The device

\* What is known of a node and of the PIPs of a wire.
LEMMA NodeOfDevice ==
  ASSUME NEW d \in Devices
  PROVE  /\ NodeNum(d) \in Nat
         /\ \A n \in 1..NodeNum(d) :
              /\ Wires(d, n) \in Seq(ToSet(Wires(d, n)))
              /\ \A i \in DOMAIN Wires(d, n) :
                   LET wire == Wires(d, n)[i] IN
                   wire = <<wire[1], wire[2]>> /\ PIPs(d, wire) \in Seq(ToSet(PIPs(d, wire)))
<1>1. NodeNum(d) \in Nat
  <2>1. PICK u : u = Files[d].nodes
    OBVIOUS
  <2>2. u \in Seq(ToSet(u))
    BY <2>1, FilesAssumption DEF IsSequence
  <2>3. Len(u) \in Nat
    BY <2>2
  <2>4. QED  BY <2>1, <2>3 DEF NodeNum
<1>2. ASSUME NEW n \in 1..NodeNum(d)
      PROVE  /\ Wires(d, n) \in Seq(ToSet(Wires(d, n)))
             /\ \A wire \in ToSet(Wires(d, n)) :
                  wire = <<wire[1], wire[2]>> /\ PIPs(d, wire) \in Seq(ToSet(PIPs(d, wire)))
  BY FilesAssumption DEF IsSequence
<1>3. ASSUME NEW n \in 1..NodeNum(d), NEW i \in DOMAIN Wires(d, n)
      PROVE  Wires(d, n)[i] \in ToSet(Wires(d, n))
  BY DEF ToSet
<1>4. QED  BY <1>1, <1>2, <1>3

\* A wire is in one node, so the search finds the node that has it.
LEMMA NodeOfWire ==
  ASSUME NEW d \in Devices, NEW tile, NEW w
  PROVE  /\ tile_wire_to_node(d, tile, w) \in 0..NodeNum(d)
         /\ tile_wire_to_node(d, tile, w) # 0
              => <<tile, w>> \in ToSet(Wires(d, tile_wire_to_node(d, tile, w)))
         /\ \A n \in 1..NodeNum(d) : <<tile, w>> \in ToSet(Wires(d, n)) => tile_wire_to_node(d, tile, w) = n
<1> DEFINE ns == {n \in 1..NodeNum(d) : <<tile, w>> \in ToSet(Wires(d, n))}
<1>0. tile_wire_to_node(d, tile, w) = IF ns = {} THEN 0 ELSE CHOOSE n \in ns : TRUE
  BY DEF tile_wire_to_node, invalid_obj_idx
<1>1. NodeNum(d) \in Nat
  BY NodeOfDevice
<1>2. CASE ns = {}
  <2>1. tile_wire_to_node(d, tile, w) = 0
    <3> HIDE DEF ns
    <3>1. QED  BY <1>0, <1>2
  <2>2. \A n \in 1..NodeNum(d) : ~(<<tile, w>> \in ToSet(Wires(d, n)))
    BY <1>2
  <2>3. QED  BY <1>1, <2>1, <2>2
<1>3. CASE ns # {}
  <2>1. PICK c : c = CHOOSE n \in ns : TRUE
    OBVIOUS
  <2>2. c \in ns
    BY <1>3, <2>1
  <2>3. tile_wire_to_node(d, tile, w) = c
    <3> HIDE DEF ns
    <3>1. QED  BY <1>0, <1>3, <2>1
  <2>4. c \in 1..NodeNum(d) /\ <<tile, w>> \in ToSet(Wires(d, c))
    BY <2>2
  <2>5. ASSUME NEW n \in 1..NodeNum(d), <<tile, w>> \in ToSet(Wires(d, n)) PROVE c = n
    <3>1. \A m, k \in 1..NodeNum(d) : m # k => ToSet(Wires(d, m)) \cap ToSet(Wires(d, k)) = {}
      BY FilesAssumption
    <3>2. QED  BY <2>4, <2>5, <3>1
  <2>6. QED  BY <1>1, <2>3, <2>4, <2>5
<1>4. QED  BY <1>2, <1>3

\* The wires to which the PIPs of a wire lead, and those from which they come.
LEMMA WiresOfPIPs ==
  ASSUME NEW ps, ps \in Seq(ToSet(ps)), NEW w
  PROVE  /\ tile_type_outgoing_wires(ps, w) \in Seq(ToSet(tile_type_outgoing_wires(ps, w)))
         /\ tile_type_incoming_wires(ps, w) \in Seq(ToSet(tile_type_incoming_wires(ps, w)))
         /\ \A v : v \in ToSet(tile_type_outgoing_wires(ps, w)) <=>
                     \E p \in ToSet(ps) : (p.w0 = w /\ p.w1 = v) \/ (~p.directional /\ p.w1 = w /\ p.w0 = v)
         /\ \A v : v \in ToSet(tile_type_incoming_wires(ps, w)) <=>
                     \E p \in ToSet(ps) : (p.w1 = w /\ p.w0 = v) \/ (~p.directional /\ p.w0 = w /\ p.w1 = v)
<1> DEFINE S == UNION {{p.w0, p.w1} : p \in ToSet(ps)}
<1>1. Len(ps) \in Nat /\ DOMAIN ps = 1..Len(ps)
  OBVIOUS
<1>2. \A i \in DOMAIN ps : ps[i].w0 \in S /\ ps[i].w1 \in S
  BY DEF ToSet
<1>4. /\ \A x, v : v \in ToSet(<<x>>) <=> v = x
      /\ \A v : v \notin ToSet(<<>>)
  BY DEF ToSet
<1>5. ASSUME NEW i \in DOMAIN ps
      PROVE  /\ Leads(ps[i], w) \in Seq(S)
             /\ \A v : v \in ToSet(Leads(ps[i], w)) <=>
                  (ps[i].w0 = w /\ ps[i].w1 = v) \/ (~ps[i].directional /\ ps[i].w1 = w /\ ps[i].w0 = v)
  <2>1. PICK p : p = ps[i] /\ p.w0 \in S /\ p.w1 \in S
    BY <1>2
  <2> HIDE DEF S
  <2>2. Leads(p, w) \in Seq(S)
    BY <2>1 DEF Leads
  <2>3. \A v : v \in ToSet(Leads(p, w)) <=>
                  (p.w0 = w /\ p.w1 = v) \/ (~p.directional /\ p.w1 = w /\ p.w0 = v)
    <3>1. PICK a : a = IF p.w0 = w THEN <<p.w1>> ELSE <<>>
      OBVIOUS
    <3>2. PICK b : b = IF ~p.directional /\ p.w1 = w THEN <<p.w0>> ELSE <<>>
      OBVIOUS
    <3>3. a \in Seq(S) /\ b \in Seq(S)
      BY <2>1, <3>1, <3>2
    <3>4. \A v : v \in ToSet(a \o b) <=> v \in ToSet(a) \/ v \in ToSet(b)
      BY <3>3, ToSetOfConcat
    <3>5. Leads(p, w) = a \o b
      BY <3>1, <3>2 DEF Leads
    <3>6. \A v : v \in ToSet(a) <=> p.w0 = w /\ p.w1 = v
      BY <1>4, <3>1
    <3>7. \A v : v \in ToSet(b) <=> ~p.directional /\ p.w1 = w /\ p.w0 = v
      BY <1>4, <3>2
    <3>8. QED  BY <3>4, <3>5, <3>6, <3>7
  <2>4. QED  BY <2>1, <2>2, <2>3
<1>6. ASSUME NEW i \in DOMAIN ps
      PROVE  /\ Comes(ps[i], w) \in Seq(S)
             /\ \A v : v \in ToSet(Comes(ps[i], w)) <=>
                  (ps[i].w1 = w /\ ps[i].w0 = v) \/ (~ps[i].directional /\ ps[i].w0 = w /\ ps[i].w1 = v)
  <2>1. PICK p : p = ps[i] /\ p.w0 \in S /\ p.w1 \in S
    BY <1>2
  <2> HIDE DEF S
  <2>2. Comes(p, w) \in Seq(S)
    BY <2>1 DEF Comes
  <2>3. \A v : v \in ToSet(Comes(p, w)) <=>
                  (p.w1 = w /\ p.w0 = v) \/ (~p.directional /\ p.w0 = w /\ p.w1 = v)
    <3>1. PICK a : a = IF p.w1 = w THEN <<p.w0>> ELSE <<>>
      OBVIOUS
    <3>2. PICK b : b = IF ~p.directional /\ p.w0 = w THEN <<p.w1>> ELSE <<>>
      OBVIOUS
    <3>3. a \in Seq(S) /\ b \in Seq(S)
      BY <2>1, <3>1, <3>2
    <3>4. \A v : v \in ToSet(a \o b) <=> v \in ToSet(a) \/ v \in ToSet(b)
      BY <3>3, ToSetOfConcat
    <3>5. Comes(p, w) = a \o b
      BY <3>1, <3>2 DEF Comes
    <3>6. \A v : v \in ToSet(a) <=> p.w1 = w /\ p.w0 = v
      BY <1>4, <3>1
    <3>7. \A v : v \in ToSet(b) <=> ~p.directional /\ p.w0 = w /\ p.w1 = v
      BY <1>4, <3>2
    <3>8. QED  BY <3>4, <3>5, <3>6, <3>7
  <2>4. QED  BY <2>1, <2>2, <2>3
<1> HIDE DEF S
<1>7. PICK os : os = [i \in DOMAIN ps |-> Leads(ps[i], w)]
  OBVIOUS
<1>8. PICK is : is = [i \in DOMAIN ps |-> Comes(ps[i], w)]
  OBVIOUS
<1>9. os \in Seq(Seq(S)) /\ Len(os) = Len(ps) /\ is \in Seq(Seq(S)) /\ Len(is) = Len(ps)
  BY <1>1, <1>5, <1>6, <1>7, <1>8
<1>10. tile_type_outgoing_wires(ps, w) = FlattenSeq(os) /\ tile_type_incoming_wires(ps, w) = FlattenSeq(is)
  BY <1>7, <1>8 DEF tile_type_outgoing_wires, tile_type_incoming_wires
<1>11. FlattenSeq(os) \in Seq(ToSet(FlattenSeq(os))) /\ FlattenSeq(is) \in Seq(ToSet(FlattenSeq(is)))
  <2>1. PICK u \in Seq(S) : u = FlattenSeq(os)
    BY <1>9, FlattenSeqOf
  <2>2. PICK x \in Seq(S) : x = FlattenSeq(is)
    BY <1>9, FlattenSeqOf
  <2>3. u \in Seq(ToSet(u)) /\ x \in Seq(ToSet(x))
    BY DEF ToSet
  <2>4. QED  BY <2>1, <2>2, <2>3
<1>12. \A p : p \in ToSet(ps) <=> \E i \in DOMAIN ps : ps[i] = p
  BY DEF ToSet
<1>13. \A v : v \in ToSet(FlattenSeq(os)) <=> \E i \in DOMAIN ps : v \in ToSet(os[i])
  BY <1>1, <1>9, FlattenElements
<1>14. \A v : v \in ToSet(FlattenSeq(is)) <=> \E i \in DOMAIN ps : v \in ToSet(is[i])
  BY <1>1, <1>9, FlattenElements
<1>15. \A v : v \in ToSet(FlattenSeq(os)) <=>
         \E i \in DOMAIN ps : (ps[i].w0 = w /\ ps[i].w1 = v) \/ (~ps[i].directional /\ ps[i].w1 = w /\ ps[i].w0 = v)
  <2>1. \A i \in DOMAIN ps : os[i] = Leads(ps[i], w)
    BY <1>7
  <2>2. QED  BY <1>5, <1>13, <2>1
<1>16. \A v : v \in ToSet(FlattenSeq(is)) <=>
         \E i \in DOMAIN ps : (ps[i].w1 = w /\ ps[i].w0 = v) \/ (~ps[i].directional /\ ps[i].w0 = w /\ ps[i].w1 = v)
  <2>1. \A i \in DOMAIN ps : is[i] = Comes(ps[i], w)
    BY <1>8
  <2>2. QED  BY <1>6, <1>14, <2>1
<1>17. QED  BY <1>10, <1>11, <1>12, <1>15, <1>16

\* The nodes that the walk from a node finds: those of the wires to which the
\* PIPs of its wires lead.
LEMMA OutgoingNodes ==
  ASSUME NEW d \in Devices, NEW n \in 1..NodeNum(d)
  PROVE  \A m : m \in ToSet(get_outgoing_nodes(d, Wires(d, n))) <=>
           \E i \in DOMAIN Wires(d, n) :
             LET wire == Wires(d, n)[i] IN
             \E v \in ToSet(tile_type_outgoing_wires(PIPs(d, wire), wire[2])) :
               m = tile_wire_to_node(d, wire[1], v) /\ m \in 1..NodeNum(d)
<1> DEFINE N == 1..NodeNum(d)
           out(i) == tile_type_outgoing_wires(PIPs(d, Wires(d, n)[i]), Wires(d, n)[i][2])
<1>1. PICK ws : ws = Wires(d, n)
  OBVIOUS
<1>2. PICK far : far = [i \in DOMAIN ws |-> tile_type_outgoing_wires(PIPs(d, ws[i]), ws[i][2])]
  OBVIOUS
<1> DEFINE node(i, j) == tile_wire_to_node(d, ws[i][1], far[i][j])
           of(i) == [j \in DOMAIN far[i] |-> NodeIfAny(node(i, j))]
<1>3. get_outgoing_nodes(d, ws) = FlattenSeq([i \in DOMAIN ws |-> FlattenSeq(of(i))])
  BY <1>2 DEF get_outgoing_nodes, FarNodes
<1>4. Len(ws) \in Nat /\ DOMAIN ws = 1..Len(ws)
  <2>1. ws \in Seq(ToSet(ws))
    BY <1>1, NodeOfDevice
  <2>2. QED  BY <2>1
<1>5. ASSUME NEW i \in DOMAIN ws
      PROVE  far[i] \in Seq(ToSet(far[i])) /\ far[i] = tile_type_outgoing_wires(PIPs(d, ws[i]), ws[i][2])
  <2>1. far[i] = tile_type_outgoing_wires(PIPs(d, ws[i]), ws[i][2])
    BY <1>2
  <2>2. PIPs(d, ws[i]) \in Seq(ToSet(PIPs(d, ws[i])))
    BY <1>1, NodeOfDevice
  <2>3. QED  BY <2>1, <2>2, WiresOfPIPs
<1>6. \A k \in 0..NodeNum(d) : /\ NodeIfAny(k) \in Seq(N)
                               /\ \A x : x \in ToSet(NodeIfAny(k)) <=> x = k /\ k \in N
  <2>1. NodeNum(d) \in Nat
    BY NodeOfDevice
  <2>2. \A x : \A k : x \in ToSet(<<k>>) <=> x = k
    BY DEF ToSet
  <2>3. \A x : x \notin ToSet(<<>>)
    BY DEF ToSet
  <2>4. ASSUME NEW k \in 0..NodeNum(d), k = 0
        PROVE  NodeIfAny(k) \in Seq(N) /\ \A x : x \in ToSet(NodeIfAny(k)) <=> x = k /\ k \in N
    <3>1. NodeIfAny(k) = <<>> /\ k \notin N
      BY <2>4 DEF NodeIfAny, invalid_obj_idx
    <3> HIDE DEF N
    <3>2. QED  BY <2>3, <3>1
  <2>5. ASSUME NEW k \in 0..NodeNum(d), k # 0
        PROVE  NodeIfAny(k) \in Seq(N) /\ \A x : x \in ToSet(NodeIfAny(k)) <=> x = k /\ k \in N
    <3>1. NodeIfAny(k) = <<k>> /\ k \in N
      BY <2>1, <2>5 DEF NodeIfAny, invalid_obj_idx
    <3> HIDE DEF N
    <3>2. QED  BY <2>2, <3>1
  <2>6. QED  BY <2>4, <2>5
<1> HIDE DEF N
<1>7. ASSUME NEW i \in DOMAIN ws
      PROVE  /\ FlattenSeq(of(i)) \in Seq(N)
             /\ \A x : x \in ToSet(FlattenSeq(of(i))) <=>
                  \E v \in ToSet(far[i]) : x = tile_wire_to_node(d, ws[i][1], v) /\ x \in N
  <2>1. Len(far[i]) \in Nat /\ DOMAIN far[i] = 1..Len(far[i])
    BY <1>5
  <2>2. \A j \in DOMAIN far[i] : node(i, j) \in 0..NodeNum(d)
    BY NodeOfWire
  <2>3. PICK ss : ss = of(i)
    OBVIOUS
  <2>4. ss \in Seq(Seq(N)) /\ Len(ss) = Len(far[i])
    BY <1>6, <2>1, <2>2, <2>3
  <2>5. \A j \in 1..Len(ss) : ss[j] = NodeIfAny(node(i, j))
    BY <2>1, <2>3, <2>4
  <2>6. FlattenSeq(ss) \in Seq(N)
    BY <2>4, FlattenSeqOf
  <2>7. \A x : x \in ToSet(FlattenSeq(ss)) <=> \E j \in 1..Len(ss) : x \in ToSet(ss[j])
    BY <2>4, FlattenElements
  <2>8. \A x : x \in ToSet(FlattenSeq(ss)) <=> \E j \in DOMAIN far[i] : x = node(i, j) /\ x \in N
    <3> HIDE DEF node
    <3>1. \A j \in DOMAIN far[i] : \A x : x \in ToSet(ss[j]) <=> x = node(i, j) /\ x \in N
      <4>1. ASSUME NEW j \in DOMAIN far[i], NEW x
            PROVE  x \in ToSet(ss[j]) <=> x = node(i, j) /\ x \in N
        <5>1. ss[j] = NodeIfAny(node(i, j))
          BY <2>1, <2>4, <2>5
        <5>2. PICK k \in 0..NodeNum(d) : k = node(i, j)
          BY <2>2
        <5>3. QED  BY <1>6, <5>1, <5>2
      <4>2. QED  BY <4>1
    <3>2. DOMAIN far[i] = 1..Len(ss)
      BY <2>1, <2>4
    <3>3. QED  BY <2>7, <3>1, <3>2
  <2>9. \A v : v \in ToSet(far[i]) <=> \E j \in DOMAIN far[i] : v = far[i][j]
    BY DEF ToSet
  <2>10. QED  BY <2>3, <2>6, <2>8, <2>9
<1>8. PICK fs : fs = [i \in DOMAIN ws |-> FlattenSeq(of(i))]
  OBVIOUS
<1>9. fs \in Seq(Seq(N)) /\ Len(fs) = Len(ws) /\ \A i \in DOMAIN ws : fs[i] = FlattenSeq(of(i))
  <2> HIDE DEF of
  <2>1. QED  BY <1>4, <1>7, <1>8
<1>10. \A x : x \in ToSet(FlattenSeq(fs)) <=> \E i \in DOMAIN ws : x \in ToSet(fs[i])
  BY <1>4, <1>9, FlattenElements
<1>11. \A x : x \in ToSet(FlattenSeq(fs)) <=>
         \E i \in DOMAIN ws : \E v \in ToSet(far[i]) : x = tile_wire_to_node(d, ws[i][1], v) /\ x \in N
  <2> HIDE DEF of
  <2>1. QED  BY <1>7, <1>9, <1>10
<1>12. get_outgoing_nodes(d, ws) = FlattenSeq(fs)
  BY <1>3, <1>8
<1>13. \A i \in DOMAIN ws : far[i] = tile_type_outgoing_wires(PIPs(d, ws[i]), ws[i][2])
  BY <1>5
<1>14. QED  BY <1>1, <1>11, <1>12, <1>13 DEF N

-----------------------------------------------------------------------------
\* The PIP of an edge

\* Of the pairs that a PIP joins there is one that the code comes to last among
\* the wires of the parent, and with it first among those of the child.
LEMMA LastOfParent ==
  ASSUME NEW p \in Nat, NEW q \in Nat, NEW hits, hits \subseteq (1..p) \X (1..q), hits # {}
  PROVE  \E h \in hits : \A g \in hits : g[1] < h[1] \/ (g[1] = h[1] /\ h[2] <= g[2])
<1> DEFINE A == {p - g[1] : g \in hits}
<1>0. \A g \in hits : g[1] \in 1..p /\ g[2] \in 1..q
  OBVIOUS
<1>1. A \subseteq Nat /\ A # {}
  BY <1>0
<1>2. PICK a \in A : \A x \in A : a <= x
  <2> HIDE DEF A
  <2>1. QED  BY <1>1, LeastNat
<1>3. PICK h0 \in hits : a = p - h0[1]
  OBVIOUS
<1>4. \A g \in hits : g[1] <= h0[1]
  <2>1. ASSUME NEW g \in hits PROVE g[1] <= h0[1]
    <3>1. p - g[1] \in A
      OBVIOUS
    <3>2. a <= p - g[1]
      <4> HIDE DEF A
      <4>1. QED  BY <1>2, <3>1
    <3>3. QED  BY <1>0, <1>3, <3>2
  <2>2. QED  BY <2>1
<1> DEFINE B == {g[2] : g \in {x \in hits : x[1] = h0[1]}}
<1>5. B \subseteq Nat /\ B # {}
  BY <1>0
<1>6. PICK b \in B : \A x \in B : b <= x
  <2> HIDE DEF B
  <2>1. QED  BY <1>5, LeastNat
<1>7. PICK h \in hits : h[1] = h0[1] /\ h[2] = b
  OBVIOUS
<1>8. ASSUME NEW g \in hits PROVE g[1] < h[1] \/ (g[1] = h[1] /\ h[2] <= g[2])
  <2>1. g[1] <= h[1] /\ g[1] \in Int /\ h[1] \in Int
    BY <1>0, <1>4, <1>7
  <2>2. CASE g[1] = h[1]
    <3>1. g[2] \in B
      BY <1>7, <2>2
    <3>2. b <= g[2]
      <4> HIDE DEF B
      <4>1. QED  BY <1>6, <3>1
    <3>3. QED  BY <1>7, <2>2, <3>2
  <2>3. CASE g[1] # h[1]
    BY <2>1, <2>3
  <2>4. QED  BY <2>2, <2>3
<1>9. QED  BY <1>8

\* What WrittenPipConnects says of one edge.
PipConnects(d, ws0, ws1, n, m) ==
  LET tile == WrittenTile(ws0, ws1)
      pip == getTileTypePIP(d, ws0, ws1)
      from == IF pip.forward THEN pip.w0 ELSE pip.w1
      to == IF pip.forward THEN pip.w1 ELSE pip.w0
  IN  /\ tile_wire_to_node(d, tile, from) = n
      /\ tile_wire_to_node(d, tile, to) = m
      /\ \E p \in ToSet(Files[d].pips[Files[d].tileType[tile]]) :
           p.w0 = pip.w0 /\ p.w1 = pip.w1 /\ (pip.forward \/ ~p.directional)

LEMMA EdgePipConnects ==
  ASSUME NEW d \in Devices, DrivenWhereItBegins(d),
         NEW n \in 1..NodeNum(d), NEW m, m \in ToSet(get_outgoing_nodes(d, Wires(d, n)))
  PROVE  PipConnects(d, Wires(d, n), Wires(d, m), n, m)
<1>1. PICK i0 \in DOMAIN Wires(d, n) :
        LET wire == Wires(d, n)[i0] IN
        \E v \in ToSet(tile_type_outgoing_wires(PIPs(d, wire), wire[2])) :
          m = tile_wire_to_node(d, wire[1], v) /\ m \in 1..NodeNum(d)
  BY OutgoingNodes
<1>2. PICK ws0 : ws0 = Wires(d, n)
  OBVIOUS
<1>3. PICK ws1 : ws1 = Wires(d, m)
  OBVIOUS
<1>4. m \in 1..NodeNum(d) /\ NodeNum(d) \in Nat
  BY <1>1, NodeOfDevice
<1>5. /\ ws0 \in Seq(ToSet(ws0)) /\ ws1 \in Seq(ToSet(ws1))
      /\ \A i \in DOMAIN ws0 : ws0[i] = <<ws0[i][1], ws0[i][2]>> /\ PIPs(d, ws0[i]) \in Seq(ToSet(PIPs(d, ws0[i])))
      /\ \A i \in DOMAIN ws1 : ws1[i] = <<ws1[i][1], ws1[i][2]>> /\ PIPs(d, ws1[i]) \in Seq(ToSet(PIPs(d, ws1[i])))
  BY <1>2, <1>3, <1>4, NodeOfDevice
<1>6. PICK q \in Nat : DOMAIN ws0 = 1..q
  BY <1>5
<1>7. PICK p \in Nat : DOMAIN ws1 = 1..p
  BY <1>5
<1>8. \A u \in DOMAIN ws0 : tile_wire_to_node(d, ws0[u][1], ws0[u][2]) = n
  <2>1. ASSUME NEW u \in DOMAIN ws0 PROVE tile_wire_to_node(d, ws0[u][1], ws0[u][2]) = n
    <3>1. PICK wire : wire = ws0[u]
      OBVIOUS
    <3>2. wire = <<wire[1], wire[2]>>
      BY <1>5, <3>1
    <3>3. wire \in ToSet(ws0)
      BY <3>1 DEF ToSet
    <3>4. <<wire[1], wire[2]>> \in ToSet(Wires(d, n))
      BY <1>2, <3>2, <3>3
    <3>5. tile_wire_to_node(d, wire[1], wire[2]) = n
      BY <1>4, <3>4, NodeOfWire
    <3>6. QED  BY <3>1, <3>5
  <2>2. QED  BY <2>1
<1>9. \A u \in DOMAIN ws1 : tile_wire_to_node(d, ws1[u][1], ws1[u][2]) = m
  <2>1. ASSUME NEW u \in DOMAIN ws1 PROVE tile_wire_to_node(d, ws1[u][1], ws1[u][2]) = m
    <3>1. PICK wire : wire = ws1[u]
      OBVIOUS
    <3>2. wire = <<wire[1], wire[2]>>
      BY <1>5, <3>1
    <3>3. wire \in ToSet(ws1)
      BY <3>1 DEF ToSet
    <3>4. <<wire[1], wire[2]>> \in ToSet(Wires(d, m))
      BY <1>3, <3>2, <3>3
    <3>5. tile_wire_to_node(d, wire[1], wire[2]) = m
      BY <1>4, <3>4, NodeOfWire
    <3>6. QED  BY <3>1, <3>5
  <2>2. QED  BY <2>1
<1> DEFINE hits == Joined(d, ws0, ws1)
<1>10. hits \subseteq (1..p) \X (1..q)
  BY <1>6, <1>7 DEF Joined
<1>11. hits # {}
  <2>1. PICK v \in ToSet(tile_type_outgoing_wires(PIPs(d, ws0[i0]), ws0[i0][2])) :
          m = tile_wire_to_node(d, ws0[i0][1], v)
    BY <1>1, <1>2
  <2>2. i0 \in DOMAIN ws0 /\ PIPs(d, ws0[i0]) \in Seq(ToSet(PIPs(d, ws0[i0])))
    BY <1>1, <1>2, <1>5
  <2>3. <<ws0[i0][1], v>> \in ToSet(ws1)
    <3>1. m # 0
      BY <1>4
    <3>2. QED  BY <1>3, <2>1, <3>1, NodeOfWire
  <2>4. PICK k \in DOMAIN ws1 : ws1[k] = <<ws0[i0][1], v>>
    BY <2>3 DEF ToSet
  <2>5. ws1[k][1] = ws0[i0][1] /\ ws1[k][2] = v
    BY <2>4
  <2>6. PIPs(d, ws1[k]) = PIPs(d, ws0[i0])
    BY <2>5 DEF PIPs, TileType
  <2>7. PICK x \in ToSet(PIPs(d, ws1[k])) :
          \/ x.w0 = ws0[i0][2] /\ x.w1 = v
          \/ ~x.directional /\ x.w1 = ws0[i0][2] /\ x.w0 = v
    BY <2>1, <2>2, <2>6, WiresOfPIPs
  <2>8. PIPsOf(PIPs(d, ws1[k]), ws0[i0][2], ws1[k][2]) # {}
    BY <2>5, <2>7 DEF PIPsOf
  <2>9. <<k, i0>> \in hits
    BY <2>2, <2>4, <2>5, <2>8 DEF Joined
  <2>10. QED  BY <2>9
<1> HIDE DEF hits
<1>12. PICK hit \in hits : hit = CHOOSE h \in hits : \A g \in hits : g[1] < h[1] \/ (g[1] = h[1] /\ h[2] <= g[2])
  <2>1. \E h \in hits : \A g \in hits : g[1] < h[1] \/ (g[1] = h[1] /\ h[2] <= g[2])
    BY <1>10, <1>11, LastOfParent
  <2>2. QED  BY <2>1
<1>13. PICK a \in DOMAIN ws1 : a = hit[1]
  BY <1>7, <1>10
<1>14. PICK b \in DOMAIN ws0 : b = hit[2]
  BY <1>6, <1>10
<1>15. ws0[b][1] = ws1[a][1] /\ PIPsOf(PIPs(d, ws1[a]), ws0[b][2], ws1[a][2]) # {}
  BY <1>12, <1>13, <1>14 DEF hits, Joined
<1>16. PICK pip : pip = getTileTypePIP(d, ws0, ws1)
  OBVIOUS
<1>17. pip \in PIPsOf(PIPs(d, ws1[a]), ws0[b][2], ws1[a][2])
  <2>1. pip = CHOOSE r \in PIPsOf(PIPs(d, ws1[a]), ws0[b][2], ws1[a][2]) : TRUE
    BY <1>12, <1>13, <1>14, <1>16 DEF getTileTypePIP, hits
  <2>2. QED  BY <1>15, <2>1
<1>18. PICK r \in ToSet(PIPs(d, ws1[a])) :
         /\ pip.w0 = r.w0 /\ pip.w1 = r.w1
         /\ \/ pip.forward /\ r.w0 = ws0[b][2] /\ r.w1 = ws1[a][2]
            \/ ~pip.forward /\ ~r.directional /\ r.w1 = ws0[b][2] /\ r.w0 = ws1[a][2]
  BY <1>17 DEF PIPsOf
<1>19. ws1[a][1] = ws1[1][1]
  <2>1. SUFFICES ASSUME ws1[a][1] # ws1[1][1] PROVE FALSE
    OBVIOUS
  <2>2. \A w \in ToSet(tile_type_incoming_wires(PIPs(d, ws1[a]), ws1[a][2])) :
          tile_wire_to_node(d, ws1[a][1], w) = 0
    BY <1>3, <1>4, <2>1 DEF DrivenWhereItBegins, invalid_obj_idx
  <2>3. ws0[b][2] \in ToSet(tile_type_incoming_wires(PIPs(d, ws1[a]), ws1[a][2]))
    BY <1>5, <1>18, WiresOfPIPs
  <2>4. tile_wire_to_node(d, ws1[a][1], ws0[b][2]) = n
    BY <1>8, <1>15
  <2>5. tile_wire_to_node(d, ws1[a][1], ws0[b][2]) = 0
    BY <2>2, <2>3
  <2>6. n # 0
    BY <1>4
  <2>7. QED  BY <2>4, <2>5, <2>6
<1>20. WrittenTile(ws0, ws1) = ws1[a][1]
  BY <1>19 DEF WrittenTile
<1>21. PIPs(d, ws1[a]) = Files[d].pips[Files[d].tileType[WrittenTile(ws0, ws1)]]
  BY <1>20 DEF PIPs, TileType
<1>22. /\ (IF pip.forward THEN pip.w0 ELSE pip.w1) = ws0[b][2]
       /\ (IF pip.forward THEN pip.w1 ELSE pip.w0) = ws1[a][2]
       /\ pip.forward \/ ~r.directional
  BY <1>18
<1>23. tile_wire_to_node(d, WrittenTile(ws0, ws1), ws0[b][2]) = n
  BY <1>8, <1>15, <1>20
<1>24. tile_wire_to_node(d, WrittenTile(ws0, ws1), ws1[a][2]) = m
  BY <1>9, <1>20
<1>25. PipConnects(d, ws0, ws1, n, m)
  BY <1>16, <1>18, <1>21, <1>22, <1>23, <1>24 DEF PipConnects
<1>26. QED  BY <1>2, <1>3, <1>25

-----------------------------------------------------------------------------
\* What a sequence lists

\* The sequence s lists the elements of D, each at one place, with values v.
Listing(f, s, D, v) ==
  /\ f \in [DOMAIN s -> D]
  /\ \A k \in DOMAIN s : s[k] = v[f[k]]
  /\ \A j, k \in DOMAIN s : f[j] = f[k] => j = k
  /\ \A d \in D : \E k \in DOMAIN s : f[k] = d
Lists(s, D, v) == \E f : Listing(f, s, D, v)

\* The second components of the pairs that begin with i, and their values.
At(D, i) == {d[2] : d \in {x \in D : x[1] = i}}
ValuesAt(D, v, i) == [t \in At(D, i) |-> v[<<i, t>>]]

\* One more sequence lists the pairs that begin with its index.
LEMMA ListsNext ==
  ASSUME NEW S, NEW s \in Seq(S), NEW u \in Seq(S), NEW U, NEW n \in Nat \ {0}, NEW D, D \subseteq Nat \X U, NEW v,
         Lists(s, {d \in D : d[1] < n}, v), Lists(u, At(D, n), ValuesAt(D, v, n))
  PROVE  Lists(s \o u, {d \in D : d[1] < n + 1}, v)
<1> DEFINE A == {d \in D : d[1] < n}
           B == {d \in D : d[1] < n + 1}
<1>1. PICK f :
        /\ f \in [DOMAIN s -> A]
        /\ \A k \in DOMAIN s : s[k] = v[f[k]]
        /\ \A j, k \in DOMAIN s : f[j] = f[k] => j = k
        /\ \A d \in A : \E k \in DOMAIN s : f[k] = d
  BY DEF Lists, Listing
<1>2. PICK g :
        /\ g \in [DOMAIN u -> At(D, n)]
        /\ \A k \in DOMAIN u : u[k] = ValuesAt(D, v, n)[g[k]]
        /\ \A j, k \in DOMAIN u : g[j] = g[k] => j = k
        /\ \A d \in At(D, n) : \E k \in DOMAIN u : g[k] = d
  BY DEF Lists, Listing
<1>3. \A t \in At(D, n) : <<n, t>> \in D /\ <<n, t>>[1] = n /\ <<n, t>>[2] = t /\ ValuesAt(D, v, n)[t] = v[<<n, t>>]
  <2>1. \A d \in D : d = <<d[1], d[2]>>
    OBVIOUS
  <2>2. ASSUME NEW t \in At(D, n) PROVE <<n, t>> \in D /\ ValuesAt(D, v, n)[t] = v[<<n, t>>]
    <3>1. PICK d \in D : d[1] = n /\ t = d[2]
      BY DEF At
    <3>2. ValuesAt(D, v, n)[t] = v[<<n, t>>]
      BY DEF ValuesAt
    <3>3. QED  BY <2>1, <3>1, <3>2
  <2>3. QED  BY <2>2
<1>4. /\ Len(s) \in Nat /\ Len(u) \in Nat /\ DOMAIN s = 1..Len(s) /\ DOMAIN u = 1..Len(u)
      /\ DOMAIN (s \o u) = 1..(Len(s) + Len(u))
      /\ \A i \in 1..(Len(s) + Len(u)) : (s \o u)[i] = IF i <= Len(s) THEN s[i] ELSE u[i - Len(s)]
  BY ConcatProperties, LenProperties
<1>5. PICK w, a, b : w = s \o u /\ a = Len(s) /\ b = Len(u)
  OBVIOUS
<1> DEFINE h == [k \in 1..(a + b) |-> IF k <= a THEN f[k] ELSE <<n, g[k - a]>>]
<1>6. \A k \in 1..(a + b) : IF k <= a THEN k \in 1..a ELSE k - a \in 1..b
  BY <1>4, <1>5
<1>7. /\ \A k \in 1..a : k \in 1..(a + b) /\ k <= a
      /\ \A k \in 1..b : k + a \in 1..(a + b) /\ ~(k + a <= a) /\ (k + a) - a = k
  BY <1>4, <1>5
<1>8. \A d \in D : d = <<d[1], d[2]>> /\ d[1] \in Nat
  OBVIOUS
<1>9. A \subseteq B /\ (\A d \in B : d \in A \/ (d[1] = n /\ d[2] \in At(D, n))) /\ \A d \in A : d[1] # n
  BY <1>8 DEF At
<1>10. \A t \in At(D, n) : <<n, t>> \in B
  BY <1>3
<1>11. h \in [1..(a + b) -> B]
  <2> HIDE DEF A, B
  <2>1. \A k \in 1..(a + b) : (IF k <= a THEN f[k] ELSE <<n, g[k - a]>>) \in B
    BY <1>1, <1>2, <1>4, <1>5, <1>6, <1>9, <1>10
  <2>2. QED  BY <2>1
<1>12. \A k \in 1..(a + b) : h[k] = IF k <= a THEN f[k] ELSE <<n, g[k - a]>>
  OBVIOUS
<1> HIDE DEF A, B, h
<1>13. \A k \in 1..(a + b) : w[k] = v[h[k]]
  <2>1. ASSUME NEW k \in 1..(a + b), k <= a PROVE w[k] = v[h[k]]
    BY <1>1, <1>4, <1>5, <1>6, <1>12, <2>1
  <2>2. ASSUME NEW k \in 1..(a + b), ~(k <= a) PROVE w[k] = v[h[k]]
    <3>1. k - a \in DOMAIN u /\ w[k] = u[k - a] /\ h[k] = <<n, g[k - a]>>
      BY <1>4, <1>5, <1>6, <1>12, <2>2
    <3>2. g[k - a] \in At(D, n) /\ u[k - a] = ValuesAt(D, v, n)[g[k - a]]
      BY <1>2, <3>1
    <3>3. QED  BY <1>3, <3>1, <3>2
  <2>3. QED  BY <2>1, <2>2
<1>14. \A j, k \in 1..(a + b) : h[j] = h[k] => j = k
  <2>1. \A k \in 1..(a + b) : IF k <= a THEN k \in DOMAIN s /\ h[k] = f[k] /\ h[k] \in A
                                        ELSE k - a \in DOMAIN u /\ h[k] = <<n, g[k - a]>>
    BY <1>1, <1>4, <1>5, <1>6, <1>12
  <2> SUFFICES ASSUME NEW j \in 1..(a + b), NEW k \in 1..(a + b), h[j] = h[k] PROVE j = k
    OBVIOUS
  <2>2. CASE j <= a /\ k <= a
    BY <1>1, <2>1, <2>2
  <2>3. CASE ~(j <= a) /\ ~(k <= a)
    <3>1. g[j - a] = g[k - a] /\ j - a \in DOMAIN u /\ k - a \in DOMAIN u
      BY <2>1, <2>3
    <3>2. j - a = k - a
      BY <1>2, <3>1
    <3>3. QED  BY <1>4, <1>5, <3>2
  <2>4. CASE j <= a /\ ~(k <= a)
    BY <1>9, <2>1, <2>4
  <2>5. CASE ~(j <= a) /\ k <= a
    BY <1>9, <2>1, <2>5
  <2>6. QED  BY <2>2, <2>3, <2>4, <2>5
<1>15. \A d \in B : \E k \in 1..(a + b) : h[k] = d
  <2> SUFFICES ASSUME NEW d \in B PROVE \E k \in 1..(a + b) : h[k] = d
    OBVIOUS
  <2>1. CASE d \in A
    <3>1. PICK k \in 1..a : f[k] = d
      BY <1>1, <1>4, <1>5, <2>1
    <3>2. QED  BY <1>7, <1>12, <3>1
  <2>2. CASE d[1] = n /\ d[2] \in At(D, n)
    <3>1. PICK k \in 1..b : g[k] = d[2]
      BY <1>2, <1>4, <1>5, <2>2
    <3>2. h[k + a] = <<n, d[2]>> /\ k + a \in 1..(a + b)
      BY <1>7, <1>12, <3>1
    <3>3. d = <<n, d[2]>>
      BY <1>8, <2>2 DEF B
    <3>4. QED  BY <3>2, <3>3
  <2>3. QED  BY <1>9, <2>1, <2>2
<1>16. DOMAIN w = 1..(a + b)
  BY <1>4, <1>5
<1>17. Lists(w, B, v)
  <2>1. /\ h \in [DOMAIN w -> B]
        /\ \A k \in DOMAIN w : w[k] = v[h[k]]
        /\ \A j, k \in DOMAIN w : h[j] = h[k] => j = k
        /\ \A d \in B : \E k \in DOMAIN w : h[k] = d
    BY <1>11, <1>13, <1>14, <1>15, <1>16
  <2>2. Listing(h, w, B, v)
    BY <2>1 DEF Listing
  <2>3. QED  BY <2>2 DEF Lists
<1>18. QED  BY <1>5, <1>17 DEF B

\* If each sequence lists the pairs that begin with its index, they all do.
LEMMA FlattenLists ==
  ASSUME NEW S, NEW ss \in Seq(Seq(S)), NEW U, NEW D, D \subseteq (1..Len(ss)) \X U, NEW v,
         \A i \in 1..Len(ss) : Lists(ss[i], At(D, i), ValuesAt(D, v, i))
  PROVE  Lists(FlattenSeq(ss), D, v)
<1>1. Len(ss) \in Nat /\ (\A i \in 1..Len(ss) : ss[i] \in Seq(S)) /\ D \subseteq Nat \X U
  OBVIOUS
<1>2. \A d \in D : d[1] \in 1..Len(ss)
  OBVIOUS
<1>3. \A s : DOMAIN s = {} => Lists(s, {}, v)
  <2>1. ASSUME NEW s, DOMAIN s = {} PROVE Lists(s, {}, v)
    <3>1. PICK f : f = [x \in {} |-> x]
      OBVIOUS
    <3>2. Listing(f, s, {}, v)
      BY <2>1, <3>1 DEF Listing
    <3>3. QED  BY <3>2 DEF Lists
  <2>2. QED  BY <2>1
<1>4. CASE Len(ss) = 0
  <2>1. FlattenSeq(ss) = ss
    BY <1>4 DEF FlattenSeq
  <2>2. D = {} /\ DOMAIN ss = {}
    BY <1>2, <1>4
  <2>3. QED  BY <1>3, <2>1, <2>2
<1>5. CASE Len(ss) # 0
  <2>1. PICK f : Flattens(f, ss, Len(ss)) /\ FlattenSeq(ss) = f[Len(ss)]
    BY <1>1, <1>5, FlattenSeqIs
  <2> DEFINE Up(n) == {d \in D : d[1] < n + 1}
             Good(n) == f[n] \in Seq(S) /\ Lists(f[n], Up(n), v)
             T == {n \in 1..Len(ss) : ~Good(n)}
  <2>2. CASE T = {}
    <3>1. Len(ss) \in 1..Len(ss)
      BY <1>1, <1>5
    <3>2. Good(Len(ss))
      BY <2>2, <3>1
    <3>3. Up(Len(ss)) = D
      BY <1>1, <1>2
    <3>4. QED  BY <2>1, <3>2, <3>3
  <2>3. CASE T # {}
    <3>1. PICK m \in T : \A l \in T : m <= l
      <4>1. T \subseteq Nat
        BY <1>1
      <4> HIDE DEF T
      <4>2. QED  BY <2>3, <4>1, LeastNat
    <3>2. m \in 1..Len(ss) /\ ~Good(m) /\ ss[m] \in Seq(S) /\ m \in Nat \ {0}
      BY <1>1, <3>1
    <3>3. Lists(ss[m], At(D, m), ValuesAt(D, v, m))
      BY <3>2
    <3>4. CASE m = 1
      <4>1. f[1] = ss[1]
        BY <2>1, <3>2, <3>4 DEF Flattens
      <4>2. {d \in D : d[1] < 1} = {}
        BY <1>2
      <4>3. Lists(<<>>, {d \in D : d[1] < m}, v)
        <5> HIDE DEF Good
        <5>1. DOMAIN <<>> = {} /\ {d \in D : d[1] < m} = {}
          BY <3>4, <4>2
        <5>2. QED  BY <1>3, <5>1
      <4>4. Lists(<<>> \o ss[m], Up(m), v)
        <5> HIDE DEF Good
        <5>1. <<>> \in Seq(S)
          OBVIOUS
        <5>2. QED  BY <1>1, <3>2, <3>3, <4>3, <5>1, ListsNext
      <4>5. <<>> \o ss[m] = ss[m]
        BY <3>2, ConcatEmptySeq
      <4>6. QED  BY <3>2, <3>4, <4>1, <4>4, <4>5
    <3>5. CASE m # 1
      <4>1. m - 1 \in 1..Len(ss) /\ m - 1 < m
        <5> HIDE DEF Good
        <5>1. QED  BY <1>1, <3>2, <3>5
      <4>2. f[m] = f[m - 1] \o ss[m]
        <5> HIDE DEF Good
        <5>1. m \in 1..Len(ss) /\ m # 1
          BY <3>2, <3>5
        <5>2. QED  BY <2>1, <5>1 DEF Flattens
      <4>3. Good(m - 1)
        <5> HIDE DEF Good
        <5>1. m - 1 \notin T
          <6>1. SUFFICES ASSUME m - 1 \in T PROVE FALSE
            OBVIOUS
          <6>2. m <= m - 1
            <7> HIDE DEF T
            <7>1. QED  BY <3>1, <6>1
          <6>3. QED  BY <3>2, <4>1, <6>2
        <5>2. QED  BY <4>1, <5>1
      <4>4. Up(m - 1) = {d \in D : d[1] < m}
        BY <1>1, <1>2, <3>2
      <4>5. PICK s \in Seq(S) : s = f[m - 1]
        BY <4>3
      <4>6. Lists(s \o ss[m], Up(m), v)
        <5>1. Lists(s, {d \in D : d[1] < m}, v)
          BY <4>3, <4>4, <4>5
        <5> HIDE DEF Good
        <5>2. QED  BY <1>1, <3>2, <3>3, <5>1, ListsNext
      <4>7. f[m] \in Seq(S)
        BY <3>2, <4>2, <4>5, ConcatProperties
      <4>8. Good(m)
        BY <4>2, <4>5, <4>6, <4>7
      <4>9. QED  BY <3>2, <4>8
    <3>6. QED  BY <3>4, <3>5
  <2>4. QED  BY <2>2, <2>3
<1>6. QED  BY <1>4, <1>5

\* The elements of D with the value x.
HasValue(E, D, v, x) == E = {d \in D : v[d] = x}

\* A sequence has a value as often as there are elements with it.
LEMMA ListsCount ==
  ASSUME NEW s, NEW D, NEW v, Lists(s, D, v), NEW x,
         NEW K, NEW E, HasValue(K, DOMAIN s, s, x), HasValue(E, D, v, x)
  PROVE  ExistsBijection(K, E)
<1>1. PICK f :
        /\ f \in [DOMAIN s -> D]
        /\ \A k \in DOMAIN s : s[k] = v[f[k]]
        /\ \A j, k \in DOMAIN s : f[j] = f[k] => j = k
        /\ \A d \in D : \E k \in DOMAIN s : f[k] = d
  BY DEF Lists, Listing
<1>2. K = {k \in DOMAIN s : s[k] = x} /\ E = {d \in D : v[d] = x}
  BY DEF HasValue
<1>3. PICK g : g = [k \in K |-> f[k]]
  OBVIOUS
<1>4. g \in [K -> E] /\ \A k \in K : g[k] = f[k]
  <2>1. \A k \in K : f[k] \in E
    BY <1>1, <1>2
  <2>2. QED  BY <1>3, <2>1
<1>5. \A j, k \in K : g[j] = g[k] => j = k
  BY <1>1, <1>2, <1>4
<1>6. \A e \in E : \E k \in K : g[k] = e
  <2>1. ASSUME NEW e \in E PROVE \E k \in K : g[k] = e
    <3>1. PICK k \in DOMAIN s : f[k] = e
      BY <1>1, <1>2
    <3>2. k \in K
      BY <1>1, <1>2, <3>1
    <3>3. QED  BY <1>4, <3>1, <3>2
  <2>2. QED  BY <2>1
<1>7. g \in Bijection(K, E)
  BY <1>4, <1>5, <1>6, Fun_IsBij
<1>8. QED  BY <1>7 DEF ExistsBijection

\* Only the values of the elements matter.
LEMMA ListsSame ==
  ASSUME NEW s, NEW D, NEW v, Lists(s, D, v), NEW u, \A d \in D : u[d] = v[d]
  PROVE  Lists(s, D, u)
<1>1. PICK f : Listing(f, s, D, v)
  BY DEF Lists
<1>2. Listing(f, s, D, u)
  BY <1>1 DEF Listing
<1>3. QED  BY <1>2 DEF Lists

\* Without the places at which there is no node, the others remain.
LEMMA ListsNodes ==
  ASSUME NEW M \in Nat, NEW ks \in Seq(0..M), NEW D, NEW v, Lists(ks, D, v)
  PROVE  /\ FlattenSeq([j \in DOMAIN ks |-> NodeIfAny(ks[j])]) \in Seq(1..M)
         /\ Lists(FlattenSeq([j \in DOMAIN ks |-> NodeIfAny(ks[j])]), {t \in D : v[t] # 0}, v)
<1>1. PICK ss : ss = [j \in DOMAIN ks |-> NodeIfAny(ks[j])]
  OBVIOUS
<1>2. PICK l \in Nat : l = Len(ks) /\ DOMAIN ks = 1..l /\ \A j \in 1..l : ks[j] \in 0..M
  OBVIOUS
<1>3. PICK N : N = 1..M
  OBVIOUS
<1>4. \A k \in 0..M : IF k = 0 THEN NodeIfAny(k) = <<>> ELSE NodeIfAny(k) = <<k>> /\ k \in N
  BY <1>3 DEF NodeIfAny, invalid_obj_idx
<1>5. \A k \in 0..M : NodeIfAny(k) \in Seq(N)
  <2>1. ASSUME NEW k \in 0..M PROVE NodeIfAny(k) \in Seq(N)
    <3>1. CASE k = 0
      <4>1. NodeIfAny(k) = <<>>
        BY <1>4, <3>1
      <4>2. QED  BY <4>1
    <3>2. CASE k # 0
      <4>1. NodeIfAny(k) = <<k>> /\ k \in N
        BY <1>4, <3>2
      <4>2. QED  BY <4>1
    <3>3. QED  BY <3>1, <3>2
  <2>2. QED  BY <2>1
<1>6. ss \in Seq(Seq(N)) /\ Len(ss) = l /\ \A j \in 1..l : ss[j] = NodeIfAny(ks[j])
  BY <1>1, <1>2, <1>5
<1>7. PICK E : E = {e \in (1..l) \X {1} : ks[e[1]] # 0}
  OBVIOUS
<1>8. PICK u : u = [e \in E |-> ks[e[1]]]
  OBVIOUS
<1>9. ASSUME NEW i \in 1..l PROVE Lists(ss[i], At(E, i), ValuesAt(E, u, i))
  <2>1. CASE ks[i] = 0
    <3>1. At(E, i) = {}
      BY <1>7, <2>1 DEF At
    <3>2. ss[i] = <<>>
      BY <1>2, <1>4, <1>6, <2>1
    <3>3. PICK f : f = [x \in {} |-> x]
      OBVIOUS
    <3>4. Listing(f, ss[i], At(E, i), ValuesAt(E, u, i))
      BY <3>1, <3>2, <3>3 DEF Listing
    <3>5. QED  BY <3>4 DEF Lists
  <2>2. CASE ks[i] # 0
    <3>1. <<i, 1>> \in E
      BY <1>7, <2>2
    <3>2. At(E, i) = {1}
      <4>1. 1 \in At(E, i)
        BY <3>1 DEF At
      <4>2. \A e \in E : e[2] = 1
        BY <1>7
      <4>3. \A b \in At(E, i) : b = 1
        BY <4>2 DEF At
      <4>4. QED  BY <4>1, <4>3
    <3>3. ValuesAt(E, u, i)[1] = ks[i]
      BY <1>8, <3>1, <3>2 DEF ValuesAt
    <3>4. ss[i] = <<ks[i]>>
      BY <1>2, <1>4, <1>6, <2>2
    <3>5. PICK f : f = [x \in {1} |-> 1]
      OBVIOUS
    <3>6. PICK s : s = ss[i]
      OBVIOUS
    <3>7. DOMAIN s = {1} /\ s[1] = ks[i]
      BY <3>4, <3>6
    <3>8. Listing(f, s, At(E, i), ValuesAt(E, u, i))
      BY <3>2, <3>3, <3>5, <3>7 DEF Listing
    <3>9. QED  BY <3>6, <3>8 DEF Lists
  <2>3. QED  BY <2>1, <2>2
<1>10. Lists(FlattenSeq(ss), E, u)
  <2>1. E \subseteq (1..Len(ss)) \X {1}
    BY <1>6, <1>7
  <2>2. QED  BY <1>6, <1>9, <2>1, FlattenLists
<1>11. PICK fl : fl = FlattenSeq(ss)
  OBVIOUS
<1>12. PICK g :
        /\ g \in [DOMAIN fl -> E]
        /\ \A k \in DOMAIN fl : fl[k] = u[g[k]]
        /\ \A j, k \in DOMAIN fl : g[j] = g[k] => j = k
        /\ \A e \in E : \E k \in DOMAIN fl : g[k] = e
  BY <1>10, <1>11 DEF Lists, Listing
<1>13. PICK f :
        /\ f \in [1..l -> D]
        /\ \A k \in 1..l : ks[k] = v[f[k]]
        /\ \A j, k \in 1..l : f[j] = f[k] => j = k
        /\ \A d \in D : \E k \in 1..l : f[k] = d
  <2>1. PICK f : Listing(f, ks, D, v)
    BY DEF Lists
  <2>2. PICK K : K = DOMAIN ks
    OBVIOUS
  <2>3. /\ f \in [K -> D]
        /\ \A k \in K : ks[k] = v[f[k]]
        /\ \A j, k \in K : f[j] = f[k] => j = k
        /\ \A d \in D : \E k \in K : f[k] = d
    BY <2>1, <2>2 DEF Listing
  <2>4. K = 1..l
    BY <1>2, <2>2
  <2>5. QED  BY <2>3, <2>4
<1>14. PICK R : R = {t \in D : v[t] # 0}
  OBVIOUS
<1>15. \A e \in E : e[1] \in 1..l /\ ks[e[1]] # 0 /\ e = <<e[1], 1>> /\ u[e] = ks[e[1]]
  BY <1>7, <1>8
<1>16. PICK h : h = [k \in DOMAIN fl |-> f[g[k][1]]]
  OBVIOUS
<1>17. \A k \in DOMAIN fl : g[k] \in E /\ g[k][1] \in 1..l /\ h[k] = f[g[k][1]] /\ h[k] \in R /\ fl[k] = v[h[k]]
  BY <1>12, <1>13, <1>14, <1>15, <1>16
<1>18. \A j, k \in DOMAIN fl : h[j] = h[k] => j = k
  <2>1. ASSUME NEW j \in DOMAIN fl, NEW k \in DOMAIN fl, h[j] = h[k] PROVE j = k
    <3>1. g[j][1] = g[k][1]
      BY <1>13, <1>17, <2>1
    <3>2. g[j] = <<g[j][1], 1>> /\ g[k] = <<g[k][1], 1>>
      BY <1>15, <1>17
    <3>3. g[j] = g[k]
      BY <3>1, <3>2
    <3>4. QED  BY <1>12, <3>3
  <2>2. QED  BY <2>1
<1>19. ASSUME NEW t \in R PROVE \E k \in DOMAIN fl : h[k] = t
  <2>1. PICK i \in 1..l : f[i] = t
    BY <1>13, <1>14
  <2>2. ks[i] # 0
    BY <1>13, <1>14, <2>1
  <2>3. <<i, 1>> \in E /\ <<i, 1>>[1] = i
    BY <1>7, <2>2
  <2>4. PICK k \in DOMAIN fl : g[k] = <<i, 1>>
    BY <1>12, <2>3
  <2>5. QED  BY <1>17, <2>1, <2>3, <2>4
<1>20. Listing(h, fl, R, v)
  <2>1. h \in [DOMAIN fl -> R]
    BY <1>16, <1>17
  <2>2. QED  BY <1>17, <1>18, <1>19, <2>1 DEF Listing
<1>21. fl \in Seq(N)
  BY <1>6, <1>11, FlattenSeqOf
<1>22. QED  BY <1>1, <1>3, <1>11, <1>14, <1>20, <1>21 DEF Lists

-----------------------------------------------------------------------------
\* The edges of the device, each with the PIP and the direction that makes it

\* The wires at the ends of a PIP that is taken forward (1) or backward (2).
Near(p, b) == IF b = 1 THEN p.w0 ELSE p.w1
Far(p, b) == IF b = 1 THEN p.w1 ELSE p.w0
Usable(p, b) == b = 1 \/ ~p.directional

Turns(ps) == (1..Len(ps)) \X {1, 2}
TurnsFrom(ps, w) == {t \in Turns(ps) : Usable(ps[t[1]], t[2]) /\ Near(ps[t[1]], t[2]) = w}
TurnsTo(ps, w) == {t \in Turns(ps) : Usable(ps[t[1]], t[2]) /\ Far(ps[t[1]], t[2]) = w}
FarWires(ps) == [t \in Turns(ps) |-> Far(ps[t[1]], t[2])]
NearWires(ps) == [t \in Turns(ps) |-> Near(ps[t[1]], t[2])]

\* At most one value for each direction.
LEMMA ListsTwo ==
  ASSUME NEW D, D \subseteq {1, 2}, NEW x, NEW y, NEW v,
         1 \in D => v[1] = x, 2 \in D => v[2] = y
  PROVE  Lists((IF 1 \in D THEN <<x>> ELSE <<>>) \o (IF 2 \in D THEN <<y>> ELSE <<>>), D, v)
<1>1. PICK s : s = (IF 1 \in D THEN <<x>> ELSE <<>>) \o (IF 2 \in D THEN <<y>> ELSE <<>>)
  OBVIOUS
<1>2. CASE D = {}
  <2>1. s = <<>>
    BY <1>1, <1>2
  <2>2. PICK f : f = [k \in {} |-> k]
    OBVIOUS
  <2>3. Listing(f, s, D, v)
    BY <1>2, <2>1, <2>2 DEF Listing
  <2>4. QED  BY <1>1, <2>3 DEF Lists
<1>3. CASE D = {1}
  <2>1. s = <<x>>
    BY <1>1, <1>3
  <2>2. PICK f : f = [k \in {1} |-> 1]
    OBVIOUS
  <2>3. Listing(f, s, D, v)
    BY <1>3, <2>1, <2>2 DEF Listing
  <2>4. QED  BY <1>1, <2>3 DEF Lists
<1>4. CASE D = {2}
  <2>1. s = <<y>>
    BY <1>1, <1>4
  <2>2. PICK f : f = [k \in {1} |-> 2]
    OBVIOUS
  <2>3. Listing(f, s, D, v)
    BY <1>4, <2>1, <2>2 DEF Listing
  <2>4. QED  BY <1>1, <2>3 DEF Lists
<1>5. CASE D = {1, 2}
  <2>1. s = <<x, y>>
    <3>1. s = <<x>> \o <<y>>
      BY <1>1, <1>5
    <3>2. <<x>> \in Seq({x, y}) /\ <<y>> \in Seq({x, y}) /\ Len(<<x>>) = 1 /\ Len(<<y>>) = 1
      OBVIOUS
    <3>3. PICK a, b : a = <<x>> /\ b = <<y>>
      OBVIOUS
    <3>4. s \in Seq({x, y}) /\ Len(s) = 2 /\ s[1] = a[1] /\ s[2] = b[1]
      BY <3>1, <3>2, <3>3
    <3>5. QED  BY <3>3, <3>4
  <2>2. PICK f : f = [k \in {1, 2} |-> k]
    OBVIOUS
  <2>3. Listing(f, s, D, v)
    <3>1. DOMAIN s = {1, 2} /\ s[1] = x /\ s[2] = y
      BY <2>1
    <3>2. QED  BY <1>5, <2>2, <3>1 DEF Listing
  <2>4. QED  BY <1>1, <2>3 DEF Lists
<1>6. D = {} \/ D = {1} \/ D = {2} \/ D = {1, 2}
  OBVIOUS
<1>7. QED  BY <1>2, <1>3, <1>4, <1>5, <1>6

\* The two tables of a tile type list the same PIPs, from their two ends.
LEMMA TablesList ==
  ASSUME NEW ps, ps \in Seq(ToSet(ps)), NEW w
  PROVE  /\ Lists(tile_type_outgoing_wires(ps, w), TurnsFrom(ps, w), FarWires(ps))
         /\ Lists(tile_type_incoming_wires(ps, w), TurnsTo(ps, w), NearWires(ps))
<1> DEFINE S == UNION {{p.w0, p.w1} : p \in ToSet(ps)}
<1>1. Len(ps) \in Nat /\ DOMAIN ps = 1..Len(ps)
  OBVIOUS
<1>2. \A i \in 1..Len(ps) : ps[i].w0 \in S /\ ps[i].w1 \in S
  BY DEF ToSet
<1> HIDE DEF S
<1>3. PICK os : os = [i \in DOMAIN ps |-> Leads(ps[i], w)]
  OBVIOUS
<1>4. PICK is : is = [i \in DOMAIN ps |-> Comes(ps[i], w)]
  OBVIOUS
<1>5. \A i \in 1..Len(ps) : Leads(ps[i], w) \in Seq(S) /\ Comes(ps[i], w) \in Seq(S)
  BY <1>2 DEF Leads, Comes
<1>6. os \in Seq(Seq(S)) /\ Len(os) = Len(ps) /\ is \in Seq(Seq(S)) /\ Len(is) = Len(ps)
  BY <1>1, <1>3, <1>4, <1>5
<1>7. TurnsFrom(ps, w) \subseteq (1..Len(ps)) \X {1, 2} /\ TurnsTo(ps, w) \subseteq (1..Len(ps)) \X {1, 2}
  BY DEF TurnsFrom, TurnsTo, Turns
<1>8. ASSUME NEW i \in 1..Len(ps)
      PROVE  /\ Lists(os[i], At(TurnsFrom(ps, w), i), ValuesAt(TurnsFrom(ps, w), FarWires(ps), i))
             /\ Lists(is[i], At(TurnsTo(ps, w), i), ValuesAt(TurnsTo(ps, w), NearWires(ps), i))
  <2>1. PICK p : p = ps[i]
    OBVIOUS
  <2>2. PICK D, E : D = At(TurnsFrom(ps, w), i) /\ E = At(TurnsTo(ps, w), i)
    OBVIOUS
  <2>3. D = {b \in {1, 2} : Usable(p, b) /\ Near(p, b) = w} /\ E = {b \in {1, 2} : Usable(p, b) /\ Far(p, b) = w}
    <3>1. \A b \in {1, 2} : <<i, b>> \in Turns(ps) /\ <<i, b>>[1] = i /\ <<i, b>>[2] = b
      BY DEF Turns
    <3>2. \A t \in Turns(ps) : t[1] \in 1..Len(ps) /\ t[2] \in {1, 2} /\ t = <<t[1], t[2]>>
      BY DEF Turns
    <3>3. ASSUME NEW b \in D PROVE b \in {1, 2} /\ Usable(p, b) /\ Near(p, b) = w
      BY <2>1, <2>2, <3>2, <3>3 DEF At, TurnsFrom
    <3>4. ASSUME NEW b \in {1, 2}, Usable(p, b), Near(p, b) = w PROVE b \in D
      BY <2>1, <2>2, <3>1, <3>4 DEF At, TurnsFrom
    <3>5. ASSUME NEW b \in E PROVE b \in {1, 2} /\ Usable(p, b) /\ Far(p, b) = w
      BY <2>1, <2>2, <3>2, <3>5 DEF At, TurnsTo
    <3>6. ASSUME NEW b \in {1, 2}, Usable(p, b), Far(p, b) = w PROVE b \in E
      BY <2>1, <2>2, <3>1, <3>6 DEF At, TurnsTo
    <3>7. QED  BY <3>3, <3>4, <3>5, <3>6
  <2>4. PICK x, y : x = ValuesAt(TurnsFrom(ps, w), FarWires(ps), i) /\ y = ValuesAt(TurnsTo(ps, w), NearWires(ps), i)
    OBVIOUS
  <2>5. (\A b \in D : x[b] = Far(p, b)) /\ (\A b \in E : y[b] = Near(p, b))
    <3>1. \A b \in {1, 2} : FarWires(ps)[<<i, b>>] = Far(p, b) /\ NearWires(ps)[<<i, b>>] = Near(p, b)
      BY <2>1 DEF FarWires, NearWires, Turns
    <3>2. (\A b \in D : x[b] = FarWires(ps)[<<i, b>>]) /\ (\A b \in E : y[b] = NearWires(ps)[<<i, b>>])
      BY <2>2, <2>4 DEF ValuesAt
    <3>3. QED  BY <2>3, <3>1, <3>2
  <2>6. /\ 1 \in D <=> p.w0 = w
        /\ 2 \in D <=> ~p.directional /\ p.w1 = w
        /\ 1 \in E <=> p.w1 = w
        /\ 2 \in E <=> ~p.directional /\ p.w0 = w
    BY <2>3 DEF Usable, Near, Far
  <2>7. /\ Leads(p, w) = (IF 1 \in D THEN <<p.w1>> ELSE <<>>) \o (IF 2 \in D THEN <<p.w0>> ELSE <<>>)
        /\ Comes(p, w) = (IF 1 \in E THEN <<p.w0>> ELSE <<>>) \o (IF 2 \in E THEN <<p.w1>> ELSE <<>>)
    BY <2>6 DEF Leads, Comes
  <2>8. D \subseteq {1, 2} /\ E \subseteq {1, 2}
    BY <2>3
  <2>9. (1 \in D => x[1] = p.w1) /\ (2 \in D => x[2] = p.w0) /\ (1 \in E => y[1] = p.w0) /\ (2 \in E => y[2] = p.w1)
    BY <2>5 DEF Near, Far
  <2>10. Lists(Leads(p, w), D, x) /\ Lists(Comes(p, w), E, y)
    <3>1. Lists((IF 1 \in D THEN <<p.w1>> ELSE <<>>) \o (IF 2 \in D THEN <<p.w0>> ELSE <<>>), D, x)
      BY <2>8, <2>9, ListsTwo
    <3>2. Lists((IF 1 \in E THEN <<p.w0>> ELSE <<>>) \o (IF 2 \in E THEN <<p.w1>> ELSE <<>>), E, y)
      BY <2>8, <2>9, ListsTwo
    <3>3. QED  BY <2>7, <3>1, <3>2
  <2>11. os[i] = Leads(p, w) /\ is[i] = Comes(p, w)
    BY <1>1, <1>3, <1>4, <2>1
  <2>12. QED  BY <2>2, <2>4, <2>10, <2>11
<1>9. Lists(FlattenSeq(os), TurnsFrom(ps, w), FarWires(ps))
  BY <1>6, <1>7, <1>8, FlattenLists
<1>10. Lists(FlattenSeq(is), TurnsTo(ps, w), NearWires(ps))
  BY <1>6, <1>7, <1>8, FlattenLists
<1>11. QED  BY <1>3, <1>4, <1>9, <1>10 DEF tile_type_outgoing_wires, tile_type_incoming_wires

\* The node of the wire v[t] in the tile of the wire ws[t[1]].
FarNode(d, ws, v, t) == tile_wire_to_node(d, ws[t[1]][1], v[t])

\* The nodes of the wires are listed if the wires are.
LEMMA FarNodesList ==
  ASSUME NEW d \in Devices, NEW ws, NEW l \in Nat, DOMAIN ws = 1..l, NEW far, DOMAIN far = 1..l,
         \A i \in 1..l : far[i] \in Seq(ToSet(far[i])),
         NEW U, NEW D, D \subseteq (1..l) \X U, NEW v,
         \A i \in 1..l : Lists(far[i], At(D, i), ValuesAt(D, v, i))
  PROVE  /\ FarNodes(d, ws, far) \in Seq(1..NodeNum(d))
         /\ Lists(FarNodes(d, ws, far), {t \in D : FarNode(d, ws, v, t) # 0}, [t \in D |-> FarNode(d, ws, v, t)])
<1>1. PICK M \in Nat : M = NodeNum(d)
  BY NodeOfDevice
<1>2. PICK ks : ks = [i \in 1..l |-> [j \in DOMAIN far[i] |-> tile_wire_to_node(d, ws[i][1], far[i][j])]]
  OBVIOUS
<1>3. PICK fs : fs = [i \in 1..l |-> FlattenSeq([j \in DOMAIN ks[i] |-> NodeIfAny(ks[i][j])])]
  OBVIOUS
<1>4. FarNodes(d, ws, far) = FlattenSeq(fs)
  <2>1. \A i \in 1..l : /\ DOMAIN ks[i] = DOMAIN far[i]
                        /\ \A j \in DOMAIN far[i] : ks[i][j] = tile_wire_to_node(d, ws[i][1], far[i][j])
    BY <1>2
  <2>2. \A i \in 1..l : [j \in DOMAIN ks[i] |-> NodeIfAny(ks[i][j])]
                        = [j \in DOMAIN far[i] |-> NodeIfAny(tile_wire_to_node(d, ws[i][1], far[i][j]))]
    BY <2>1
  <2>3. fs = [i \in DOMAIN ws |->
                FlattenSeq([j \in DOMAIN far[i] |-> NodeIfAny(tile_wire_to_node(d, ws[i][1], far[i][j]))])]
    BY <1>3, <2>2
  <2>4. QED  BY <2>3 DEF FarNodes
<1>5. PICK x : x = [t \in D |-> FarNode(d, ws, v, t)]
  OBVIOUS
<1>6. PICK R : R = {t \in D : FarNode(d, ws, v, t) # 0}
  OBVIOUS
<1>7. \A t \in D : t = <<t[1], t[2]>> /\ t[1] \in 1..l /\ t[2] \in U
  OBVIOUS
<1>8. ASSUME NEW i \in 1..l
      PROVE  fs[i] \in Seq(1..M) /\ Lists(fs[i], At(R, i), ValuesAt(R, x, i))
  <2>1. PICK A, y : A = At(D, i) /\ y = [s \in At(D, i) |-> tile_wire_to_node(d, ws[i][1], ValuesAt(D, v, i)[s])]
    OBVIOUS
  <2>2. PICK k : k = ks[i]
    OBVIOUS
  <2>3. DOMAIN k = DOMAIN far[i] /\ \A j \in DOMAIN far[i] : k[j] = tile_wire_to_node(d, ws[i][1], far[i][j])
    BY <1>2, <2>2
  <2>4. \A j \in DOMAIN far[i] : k[j] \in 0..M
    <3>1. \A w : tile_wire_to_node(d, ws[i][1], w) \in 0..NodeNum(d)
      BY NodeOfWire
    <3>2. QED  BY <1>1, <2>3, <3>1
  <2>5. k \in Seq(0..M)
    <3>1. DOMAIN far[i] = 1..Len(far[i]) /\ Len(far[i]) \in Nat
      OBVIOUS
    <3>2. k = [j \in 1..Len(far[i]) |-> k[j]]
      BY <1>2, <2>2, <3>1
    <3>3. QED  BY <2>4, <3>1, <3>2
  <2>6. Lists(k, A, y)
    <3>1. PICK f : Listing(f, far[i], At(D, i), ValuesAt(D, v, i))
      BY DEF Lists
    <3>2. PICK z : z = ValuesAt(D, v, i)
      OBVIOUS
    <3>3. /\ f \in [DOMAIN k -> A]
          /\ \A j \in DOMAIN k : far[i][j] = z[f[j]]
          /\ \A j, q \in DOMAIN k : f[j] = f[q] => j = q
          /\ \A e \in A : \E j \in DOMAIN k : f[j] = e
      BY <2>1, <2>3, <3>1, <3>2 DEF Listing
    <3>4. \A e \in A : y[e] = tile_wire_to_node(d, ws[i][1], z[e])
      BY <2>1, <3>2
    <3>5. \A j \in DOMAIN k : k[j] = y[f[j]]
      BY <2>3, <3>3, <3>4
    <3>6. Listing(f, k, A, y)
      BY <3>3, <3>5 DEF Listing
    <3>7. QED  BY <3>6 DEF Lists
  <2>7. fs[i] = FlattenSeq([j \in DOMAIN k |-> NodeIfAny(k[j])])
    BY <1>3, <2>2
  <2>8. fs[i] \in Seq(1..M) /\ Lists(fs[i], {s \in A : y[s] # 0}, y)
    BY <2>5, <2>6, <2>7, ListsNodes
  <2>9. \A s \in A : <<i, s>> \in D /\ y[s] = FarNode(d, ws, v, <<i, s>>)
    <3>1. ASSUME NEW s \in A PROVE <<i, s>> \in D /\ y[s] = FarNode(d, ws, v, <<i, s>>)
      <4>1. PICK t \in D : t[1] = i /\ t[2] = s
        BY <2>1 DEF At
      <4>2. t = <<i, s>>
        BY <1>7, <4>1
      <4>3. ValuesAt(D, v, i)[s] = v[<<i, s>>]
        BY <2>1 DEF ValuesAt
      <4>4. y[s] = tile_wire_to_node(d, ws[i][1], v[<<i, s>>])
        BY <2>1, <4>3
      <4>5. <<i, s>>[1] = i
        OBVIOUS
      <4>6. QED  BY <4>1, <4>2, <4>4, <4>5 DEF FarNode
    <3>2. QED  BY <3>1
  <2>10. At(R, i) = {s \in A : y[s] # 0}
    <3>1. ASSUME NEW s \in At(R, i) PROVE s \in A /\ y[s] # 0
      <4>1. PICK t \in R : t[1] = i /\ t[2] = s
        BY DEF At
      <4>2. t \in D /\ t = <<i, s>> /\ FarNode(d, ws, v, t) # 0
        BY <1>6, <1>7, <4>1
      <4>3. s \in A
        BY <2>1, <4>1, <4>2 DEF At
      <4>4. QED  BY <2>9, <4>2, <4>3
    <3>2. ASSUME NEW s \in A, y[s] # 0 PROVE s \in At(R, i)
      <4>1. <<i, s>> \in R
        BY <1>6, <2>9, <3>2
      <4>2. <<i, s>>[1] = i /\ <<i, s>>[2] = s
        OBVIOUS
      <4>3. QED  BY <4>1, <4>2 DEF At
    <3>3. QED  BY <3>1, <3>2
  <2>11. \A s \in At(R, i) : ValuesAt(R, x, i)[s] = y[s]
    <3>1. ASSUME NEW s \in At(R, i) PROVE ValuesAt(R, x, i)[s] = y[s]
      <4>1. ValuesAt(R, x, i)[s] = x[<<i, s>>]
        BY DEF ValuesAt
      <4>2. QED  BY <1>5, <2>9, <2>10, <4>1
    <3>2. QED  BY <3>1
  <2>12. Lists(fs[i], At(R, i), ValuesAt(R, x, i))
    BY <2>8, <2>10, <2>11, ListsSame
  <2>13. QED  BY <2>8, <2>12
<1>9. FlattenSeq(fs) \in Seq(1..M) /\ Lists(FlattenSeq(fs), R, x)
  <2>1. PICK N : N = 1..M
    OBVIOUS
  <2>2. fs \in Seq(Seq(N)) /\ Len(fs) = l
    BY <1>3, <1>8, <2>1
  <2>3. R \subseteq (1..Len(fs)) \X U
    BY <1>6, <2>2
  <2>4. FlattenSeq(fs) \in Seq(N)
    BY <2>2, FlattenSeqOf
  <2>5. Lists(FlattenSeq(fs), R, x)
    BY <1>8, <2>2, <2>3, FlattenLists
  <2>6. QED  BY <2>1, <2>4, <2>5
<1>10. QED  BY <1>1, <1>4, <1>5, <1>6, <1>9

\* The PIPs of the wires of a node with the direction in which they leave it or
\* come to it, the wires at their other ends, and the nodes of these.
PIPsAt(d, n, i) == PIPs(d, Wires(d, n)[i])
Exits(d, n) ==
  {x \in (1..Len(Wires(d, n))) \X (Nat \X {1, 2}) : x[2] \in TurnsFrom(PIPsAt(d, n, x[1]), Wires(d, n)[x[1]][2])}
Entries(d, n) ==
  {x \in (1..Len(Wires(d, n))) \X (Nat \X {1, 2}) : x[2] \in TurnsTo(PIPsAt(d, n, x[1]), Wires(d, n)[x[1]][2])}
NodeLedTo(d, n, x) == tile_wire_to_node(d, Wires(d, n)[x[1]][1], FarWires(PIPsAt(d, n, x[1]))[x[2]])
NodeComeFrom(d, n, x) == tile_wire_to_node(d, Wires(d, n)[x[1]][1], NearWires(PIPsAt(d, n, x[1]))[x[2]])

\* The walks find the node at the other end of every PIP, PIP by PIP.
LEMMA WalksList ==
  ASSUME NEW d \in Devices, NEW n \in 1..NodeNum(d)
  PROVE  /\ get_outgoing_nodes(d, Wires(d, n)) \in Seq(1..NodeNum(d))
         /\ Lists(get_outgoing_nodes(d, Wires(d, n)),
                  {x \in Exits(d, n) : NodeLedTo(d, n, x) # 0}, [x \in Exits(d, n) |-> NodeLedTo(d, n, x)])
         /\ Lists(get_incoming_nodes(d, Wires(d, n)),
                  {x \in Entries(d, n) : NodeComeFrom(d, n, x) # 0}, [x \in Entries(d, n) |-> NodeComeFrom(d, n, x)])
<1>1. PICK ws : ws = Wires(d, n)
  OBVIOUS
<1>2. PICK l \in Nat : l = Len(ws) /\ DOMAIN ws = 1..l
  <2>1. ws \in Seq(ToSet(ws))
    BY <1>1, NodeOfDevice
  <2>2. QED  BY <2>1
<1>3. \A i \in 1..l : PIPs(d, ws[i]) \in Seq(ToSet(PIPs(d, ws[i])))
  BY <1>1, <1>2, NodeOfDevice
<1>4. PICK out : out = [i \in 1..l |-> tile_type_outgoing_wires(PIPs(d, ws[i]), ws[i][2])]
  OBVIOUS
<1>5. PICK inc : inc = [i \in 1..l |-> tile_type_incoming_wires(PIPs(d, ws[i]), ws[i][2])]
  OBVIOUS
<1>6. get_outgoing_nodes(d, ws) = FarNodes(d, ws, out) /\ get_incoming_nodes(d, ws) = FarNodes(d, ws, inc)
  BY <1>2, <1>4, <1>5 DEF get_outgoing_nodes, get_incoming_nodes
<1>7. PICK X, Y, U : X = Exits(d, n) /\ Y = Entries(d, n) /\ U = Nat \X {1, 2}
  OBVIOUS
<1>8. PICK v : v = [x \in X |-> FarWires(PIPsAt(d, n, x[1]))[x[2]]]
  OBVIOUS
<1>9. PICK u : u = [x \in Y |-> NearWires(PIPsAt(d, n, x[1]))[x[2]]]
  OBVIOUS
<1>10. /\ X = {x \in (1..l) \X U : x[2] \in TurnsFrom(PIPs(d, ws[x[1]]), ws[x[1]][2])}
       /\ Y = {x \in (1..l) \X U : x[2] \in TurnsTo(PIPs(d, ws[x[1]]), ws[x[1]][2])}
  BY <1>1, <1>2, <1>7 DEF Exits, Entries, PIPsAt
<1>11. ASSUME NEW i \in 1..l
       PROVE  /\ out[i] \in Seq(ToSet(out[i])) /\ Lists(out[i], At(X, i), ValuesAt(X, v, i))
              /\ inc[i] \in Seq(ToSet(inc[i])) /\ Lists(inc[i], At(Y, i), ValuesAt(Y, u, i))
  <2>1. PICK ps : ps = PIPs(d, ws[i])
    OBVIOUS
  <2>2. PICK w : w = ws[i][2]
    OBVIOUS
  <2>3. ps \in Seq(ToSet(ps))
    BY <1>3, <2>1
  <2>4. out[i] = tile_type_outgoing_wires(ps, w) /\ inc[i] = tile_type_incoming_wires(ps, w)
    BY <1>4, <1>5, <2>1, <2>2
  <2>5. TurnsFrom(ps, w) \subseteq U /\ TurnsTo(ps, w) \subseteq U
    <3>1. 1..Len(ps) \subseteq Nat
      BY <2>3
    <3>2. QED  BY <1>7, <3>1 DEF TurnsFrom, TurnsTo, Turns
  <2>6. At(X, i) = TurnsFrom(ps, w) /\ At(Y, i) = TurnsTo(ps, w)
    <3>1. \A t \in U : /\ <<i, t>> \in X <=> t \in TurnsFrom(ps, w)
                       /\ <<i, t>> \in Y <=> t \in TurnsTo(ps, w)
      <4>1. \A t \in U : <<i, t>> \in (1..l) \X U /\ <<i, t>>[1] = i /\ <<i, t>>[2] = t
        OBVIOUS
      <4>2. QED  BY <1>10, <2>1, <2>2, <4>1
    <3>2. \A x \in X \cup Y : x = <<x[1], x[2]>> /\ x[2] \in U
      BY <1>10
    <3>3. \A t : /\ t \in At(X, i) <=> t \in U /\ <<i, t>> \in X
                 /\ t \in At(Y, i) <=> t \in U /\ <<i, t>> \in Y
      <4>1. ASSUME NEW t, t \in At(X, i) PROVE t \in U /\ <<i, t>> \in X
        <5>1. PICK x \in X : x[1] = i /\ x[2] = t
          BY <4>1 DEF At
        <5>2. x = <<i, t>> /\ t \in U
          BY <3>2, <5>1
        <5>3. QED  BY <5>1, <5>2
      <4>2. ASSUME NEW t, t \in At(Y, i) PROVE t \in U /\ <<i, t>> \in Y
        <5>1. PICK x \in Y : x[1] = i /\ x[2] = t
          BY <4>2 DEF At
        <5>2. x = <<i, t>> /\ t \in U
          BY <3>2, <5>1
        <5>3. QED  BY <5>1, <5>2
      <4>3. \A t : <<i, t>>[1] = i /\ <<i, t>>[2] = t
        OBVIOUS
      <4>4. ASSUME NEW t, <<i, t>> \in X PROVE t \in At(X, i)
        BY <4>3, <4>4 DEF At
      <4>5. ASSUME NEW t, <<i, t>> \in Y PROVE t \in At(Y, i)
        BY <4>3, <4>5 DEF At
      <4>6. QED  BY <4>1, <4>2, <4>4, <4>5
    <3>4. \A t : /\ t \in At(X, i) <=> t \in TurnsFrom(ps, w)
                 /\ t \in At(Y, i) <=> t \in TurnsTo(ps, w)
      BY <2>5, <3>1, <3>3
    <3>5. QED  BY <3>4
  <2>7. Lists(out[i], TurnsFrom(ps, w), FarWires(ps)) /\ Lists(inc[i], TurnsTo(ps, w), NearWires(ps))
    BY <2>3, <2>4, TablesList
  <2>8. PIPsAt(d, n, i) = ps
    BY <1>1, <2>1 DEF PIPsAt
  <2>9. \A t \in At(X, i) : ValuesAt(X, v, i)[t] = FarWires(ps)[t]
    <3>1. ASSUME NEW t \in At(X, i) PROVE ValuesAt(X, v, i)[t] = FarWires(ps)[t]
      <4>1. ValuesAt(X, v, i)[t] = v[<<i, t>>]
        BY DEF ValuesAt
      <4>2. <<i, t>> \in X
        <5>1. PICK x \in X : x[1] = i /\ x[2] = t
          BY DEF At
        <5>2. x = <<x[1], x[2]>>
          BY <1>10
        <5>3. QED  BY <5>1, <5>2
      <4>3. v[<<i, t>>] = FarWires(PIPsAt(d, n, i))[t]
        BY <1>8, <4>2
      <4>4. QED  BY <2>8, <4>1, <4>3
    <3>2. QED  BY <3>1
  <2>10. \A t \in At(Y, i) : ValuesAt(Y, u, i)[t] = NearWires(ps)[t]
    <3>1. ASSUME NEW t \in At(Y, i) PROVE ValuesAt(Y, u, i)[t] = NearWires(ps)[t]
      <4>1. ValuesAt(Y, u, i)[t] = u[<<i, t>>]
        BY DEF ValuesAt
      <4>2. <<i, t>> \in Y
        <5>1. PICK x \in Y : x[1] = i /\ x[2] = t
          BY DEF At
        <5>2. x = <<x[1], x[2]>>
          BY <1>10
        <5>3. QED  BY <5>1, <5>2
      <4>3. u[<<i, t>>] = NearWires(PIPsAt(d, n, i))[t]
        BY <1>9, <4>2
      <4>4. QED  BY <2>8, <4>1, <4>3
    <3>2. QED  BY <3>1
  <2>11. Lists(out[i], At(X, i), ValuesAt(X, v, i)) /\ Lists(inc[i], At(Y, i), ValuesAt(Y, u, i))
    BY <2>6, <2>7, <2>9, <2>10, ListsSame
  <2>12. out[i] \in Seq(ToSet(out[i]))
    BY <2>3, <2>4, WiresOfPIPs
  <2>13. inc[i] \in Seq(ToSet(inc[i]))
    BY <2>3, <2>4, WiresOfPIPs
  <2>14. QED  BY <2>11, <2>12, <2>13
<1>12. X \subseteq (1..l) \X U /\ Y \subseteq (1..l) \X U
  BY <1>10
<1>13. DOMAIN out = 1..l /\ DOMAIN inc = 1..l
  BY <1>4, <1>5
<1>14. /\ FarNodes(d, ws, out) \in Seq(1..NodeNum(d))
       /\ Lists(FarNodes(d, ws, out), {t \in X : FarNode(d, ws, v, t) # 0}, [t \in X |-> FarNode(d, ws, v, t)])
  BY <1>2, <1>11, <1>12, <1>13, FarNodesList
<1>15. Lists(FarNodes(d, ws, inc), {t \in Y : FarNode(d, ws, u, t) # 0}, [t \in Y |-> FarNode(d, ws, u, t)])
  BY <1>2, <1>11, <1>12, <1>13, FarNodesList
<1>16. /\ \A x \in X : FarNode(d, ws, v, x) = NodeLedTo(d, n, x)
       /\ \A x \in Y : FarNode(d, ws, u, x) = NodeComeFrom(d, n, x)
  BY <1>1, <1>8, <1>9 DEF FarNode, NodeLedTo, NodeComeFrom
<1>17. /\ {t \in X : FarNode(d, ws, v, t) # 0} = {t \in X : NodeLedTo(d, n, t) # 0}
       /\ [t \in X |-> FarNode(d, ws, v, t)] = [t \in X |-> NodeLedTo(d, n, t)]
       /\ {t \in Y : FarNode(d, ws, u, t) # 0} = {t \in Y : NodeComeFrom(d, n, t) # 0}
       /\ [t \in Y |-> FarNode(d, ws, u, t)] = [t \in Y |-> NodeComeFrom(d, n, t)]
  BY <1>16
<1>18. QED  BY <1>1, <1>6, <1>7, <1>14, <1>15, <1>17

\* A PIP of a tile that leads from the one node to the other, told by the tile,
\* its place in the list of the tile's type and the direction.
Token(d, n, x) == <<Wires(d, n)[x[1]][1], x[2]>>

\* No two exits and no two entries of a node are the same PIP, as the wires of a
\* node differ.
LEMMA TokensDiffer ==
  ASSUME NEW d \in Devices, NEW n \in 1..NodeNum(d)
  PROVE  /\ \A x, y \in Exits(d, n) : Token(d, n, x) = Token(d, n, y) => x = y
         /\ \A x, y \in Entries(d, n) : Token(d, n, x) = Token(d, n, y) => x = y
<1>1. PICK ws : ws = Wires(d, n)
  OBVIOUS
<1>2. PICK l \in Nat : l = Len(ws) /\ DOMAIN ws = 1..l /\ \A i \in 1..l : ws[i] = <<ws[i][1], ws[i][2]>>
  <2>1. ws \in Seq(ToSet(ws)) /\ \A i \in DOMAIN ws : ws[i] = <<ws[i][1], ws[i][2]>>
    BY <1>1, NodeOfDevice
  <2>2. QED  BY <2>1
<1>3. \A i, j \in 1..l : ws[i] = ws[j] => i = j
  <2>1. IsInjective(Wires(d, n))
    BY FilesAssumption
  <2>2. QED  BY <1>1, <1>2, <2>1 DEF IsInjective
<1>4. \A i, j \in 1..l : ws[i][1] = ws[j][1] => PIPs(d, ws[i]) = PIPs(d, ws[j])
  BY DEF PIPs, TileType
<1>5. PICK U : U = Nat \X {1, 2}
  OBVIOUS
<1>6. ASSUME NEW x \in (1..l) \X U, NEW y \in (1..l) \X U, Token(d, n, x) = Token(d, n, y), NEW a,
             a = ws[x[1]][2], a = ws[y[1]][2]
      PROVE  x = y
  <2>1. x[1] \in 1..l /\ y[1] \in 1..l /\ x = <<x[1], x[2]>> /\ y = <<y[1], y[2]>>
    OBVIOUS
  <2>2. ws[x[1]][1] = ws[y[1]][1] /\ x[2] = y[2]
    BY <1>1, <1>6 DEF Token
  <2>3. ws[x[1]] = ws[y[1]]
    BY <1>2, <1>6, <2>1, <2>2
  <2>4. x[1] = y[1]
    BY <1>3, <2>1, <2>3
  <2>5. QED  BY <2>1, <2>2, <2>4
<1>7. ASSUME NEW x \in Exits(d, n), NEW y \in Exits(d, n), Token(d, n, x) = Token(d, n, y) PROVE x = y
  <2>1. /\ x \in (1..l) \X U /\ x[2] \in TurnsFrom(PIPs(d, ws[x[1]]), ws[x[1]][2])
        /\ y \in (1..l) \X U /\ y[2] \in TurnsFrom(PIPs(d, ws[y[1]]), ws[y[1]][2])
    BY <1>1, <1>2, <1>5 DEF Exits, PIPsAt
  <2>2. ws[x[1]][1] = ws[y[1]][1] /\ x[2] = y[2]
    BY <1>1, <1>7 DEF Token
  <2>3. x[1] \in 1..l /\ y[1] \in 1..l
    BY <2>1
  <2>4. PICK ps : ps = PIPs(d, ws[x[1]]) /\ ps = PIPs(d, ws[y[1]])
    BY <1>4, <2>2, <2>3
  <2>5. ws[x[1]][2] = Near(ps[x[2][1]], x[2][2]) /\ ws[y[1]][2] = Near(ps[x[2][1]], x[2][2])
    BY <2>1, <2>2, <2>4 DEF TurnsFrom
  <2>6. QED  BY <1>6, <1>7, <2>1, <2>5
<1>8. ASSUME NEW x \in Entries(d, n), NEW y \in Entries(d, n), Token(d, n, x) = Token(d, n, y) PROVE x = y
  <2>1. /\ x \in (1..l) \X U /\ x[2] \in TurnsTo(PIPs(d, ws[x[1]]), ws[x[1]][2])
        /\ y \in (1..l) \X U /\ y[2] \in TurnsTo(PIPs(d, ws[y[1]]), ws[y[1]][2])
    BY <1>1, <1>2, <1>5 DEF Entries, PIPsAt
  <2>2. ws[x[1]][1] = ws[y[1]][1] /\ x[2] = y[2]
    BY <1>1, <1>8 DEF Token
  <2>3. x[1] \in 1..l /\ y[1] \in 1..l
    BY <2>1
  <2>4. PICK ps : ps = PIPs(d, ws[x[1]]) /\ ps = PIPs(d, ws[y[1]])
    BY <1>4, <2>2, <2>3
  <2>5. ws[x[1]][2] = Far(ps[x[2][1]], x[2][2]) /\ ws[y[1]][2] = Far(ps[x[2][1]], x[2][2])
    BY <2>1, <2>2, <2>4 DEF TurnsTo
  <2>6. QED  BY <1>6, <1>8, <2>1, <2>5
<1>9. QED  BY <1>7, <1>8

\* A PIP by which the walk from m comes to n is one by which the walk back from n
\* comes to m, and the other way round.
LEMMA TokensAgree ==
  ASSUME NEW d \in Devices, NEW m \in 1..NodeNum(d), NEW n \in 1..NodeNum(d)
  PROVE  /\ \A x \in Exits(d, m) : NodeLedTo(d, m, x) = n =>
              \E y \in Entries(d, n) : NodeComeFrom(d, n, y) = m /\ Token(d, n, y) = Token(d, m, x)
         /\ \A y \in Entries(d, n) : NodeComeFrom(d, n, y) = m =>
              \E x \in Exits(d, m) : NodeLedTo(d, m, x) = n /\ Token(d, n, y) = Token(d, m, x)
<1>1. PICK ws0 : ws0 = Wires(d, m)
  OBVIOUS
<1>2. PICK ws1 : ws1 = Wires(d, n)
  OBVIOUS
<1>3. PICK U : U = Nat \X {1, 2}
  OBVIOUS
<1>4. PICK p \in Nat : p = Len(ws0) /\ DOMAIN ws0 = 1..p /\ \A i \in 1..p : ws0[i] = <<ws0[i][1], ws0[i][2]>>
  <2>1. ws0 \in Seq(ToSet(ws0)) /\ \A i \in DOMAIN ws0 : ws0[i] = <<ws0[i][1], ws0[i][2]>>
    BY <1>1, NodeOfDevice
  <2>2. QED  BY <2>1
<1>5. PICK q \in Nat : q = Len(ws1) /\ DOMAIN ws1 = 1..q /\ \A i \in 1..q : ws1[i] = <<ws1[i][1], ws1[i][2]>>
  <2>1. ws1 \in Seq(ToSet(ws1)) /\ \A i \in DOMAIN ws1 : ws1[i] = <<ws1[i][1], ws1[i][2]>>
    BY <1>2, NodeOfDevice
  <2>2. QED  BY <2>1
<1>6. /\ \A x : x \in Exits(d, m) <=> x \in (1..p) \X U /\ x[2] \in TurnsFrom(PIPs(d, ws0[x[1]]), ws0[x[1]][2])
      /\ \A x : x \in Entries(d, n) <=> x \in (1..q) \X U /\ x[2] \in TurnsTo(PIPs(d, ws1[x[1]]), ws1[x[1]][2])
  BY <1>1, <1>2, <1>3, <1>4, <1>5 DEF Exits, Entries, PIPsAt
<1>7. \A w0, w1 : w0[1] = w1[1] => PIPs(d, w0) = PIPs(d, w1)
  BY DEF PIPs, TileType
<1>8. \A tile, w : /\ tile_wire_to_node(d, tile, w) = m <=> \E i \in 1..p : ws0[i] = <<tile, w>>
                   /\ tile_wire_to_node(d, tile, w) = n <=> \E i \in 1..q : ws1[i] = <<tile, w>>
  <2>1. m # 0 /\ n # 0
    <3>1. NodeNum(d) \in Nat
      BY NodeOfDevice
    <3>2. QED  BY <3>1
  <2>2. \A tile, w : /\ <<tile, w>> \in ToSet(ws0) <=> \E i \in 1..p : ws0[i] = <<tile, w>>
                     /\ <<tile, w>> \in ToSet(ws1) <=> \E i \in 1..q : ws1[i] = <<tile, w>>
    BY <1>4, <1>5 DEF ToSet
  <2>3. ASSUME NEW tile, NEW w
        PROVE  /\ tile_wire_to_node(d, tile, w) = m <=> <<tile, w>> \in ToSet(ws0)
               /\ tile_wire_to_node(d, tile, w) = n <=> <<tile, w>> \in ToSet(ws1)
    BY <1>1, <1>2, <2>1, NodeOfWire
  <2>4. QED  BY <2>2, <2>3
<1>9. ASSUME NEW x \in Exits(d, m), NodeLedTo(d, m, x) = n
      PROVE  \E y \in Entries(d, n) : NodeComeFrom(d, n, y) = m /\ Token(d, n, y) = Token(d, m, x)
  <2>1. PICK i \in 1..p, t \in U : x = <<i, t>> /\ t \in TurnsFrom(PIPs(d, ws0[i]), ws0[i][2])
    BY <1>6
  <2>2. PICK ps : ps = PIPs(d, ws0[i])
    OBVIOUS
  <2>3. PICK tile : tile = ws0[i][1]
    OBVIOUS
  <2>4. t \in Turns(ps) /\ Usable(ps[t[1]], t[2]) /\ ws0[i] = <<tile, Near(ps[t[1]], t[2])>>
    BY <1>4, <2>1, <2>2, <2>3 DEF TurnsFrom
  <2>5. tile_wire_to_node(d, tile, Far(ps[t[1]], t[2])) = n
    <3>1. NodeLedTo(d, m, x) = tile_wire_to_node(d, tile, FarWires(ps)[t])
      BY <1>1, <2>1, <2>2, <2>3 DEF NodeLedTo, PIPsAt
    <3>2. FarWires(ps)[t] = Far(ps[t[1]], t[2])
      BY <2>4 DEF FarWires
    <3>3. QED  BY <1>9, <3>1, <3>2
  <2>6. PICK j \in 1..q : ws1[j] = <<tile, Far(ps[t[1]], t[2])>>
    BY <1>8, <2>5
  <2>7. ws1[j][1] = tile /\ ws1[j][2] = Far(ps[t[1]], t[2])
    BY <2>6
  <2>8. PIPs(d, ws1[j]) = ps
    BY <1>7, <2>2, <2>3, <2>7
  <2>9. PICK y : y = <<j, t>>
    OBVIOUS
  <2>10. y[1] = j /\ y[2] = t /\ y \in (1..q) \X U
    BY <2>9
  <2>11. y \in Entries(d, n)
    <3>1. t \in TurnsTo(ps, ws1[j][2])
      BY <2>4, <2>7 DEF TurnsTo
    <3>2. QED  BY <1>6, <2>8, <2>10, <3>1
  <2>12. NodeComeFrom(d, n, y) = m
    <3>1. NodeComeFrom(d, n, y) = tile_wire_to_node(d, tile, NearWires(ps)[t])
      BY <1>2, <2>7, <2>8, <2>10 DEF NodeComeFrom, PIPsAt
    <3>2. NearWires(ps)[t] = Near(ps[t[1]], t[2])
      BY <2>4 DEF NearWires
    <3>3. tile_wire_to_node(d, tile, Near(ps[t[1]], t[2])) = m
      BY <1>8, <2>4
    <3>4. QED  BY <3>1, <3>2, <3>3
  <2>13. Token(d, n, y) = Token(d, m, x)
    BY <1>1, <1>2, <2>1, <2>3, <2>7, <2>10 DEF Token
  <2>14. QED  BY <2>11, <2>12, <2>13
<1>10. ASSUME NEW y \in Entries(d, n), NodeComeFrom(d, n, y) = m
       PROVE  \E x \in Exits(d, m) : NodeLedTo(d, m, x) = n /\ Token(d, n, y) = Token(d, m, x)
  <2>1. PICK j \in 1..q, t \in U : y = <<j, t>> /\ t \in TurnsTo(PIPs(d, ws1[j]), ws1[j][2])
    BY <1>6
  <2>2. PICK ps : ps = PIPs(d, ws1[j])
    OBVIOUS
  <2>3. PICK tile : tile = ws1[j][1]
    OBVIOUS
  <2>4. t \in Turns(ps) /\ Usable(ps[t[1]], t[2]) /\ ws1[j] = <<tile, Far(ps[t[1]], t[2])>>
    BY <1>5, <2>1, <2>2, <2>3 DEF TurnsTo
  <2>5. tile_wire_to_node(d, tile, Near(ps[t[1]], t[2])) = m
    <3>1. NodeComeFrom(d, n, y) = tile_wire_to_node(d, tile, NearWires(ps)[t])
      BY <1>2, <2>1, <2>2, <2>3 DEF NodeComeFrom, PIPsAt
    <3>2. NearWires(ps)[t] = Near(ps[t[1]], t[2])
      BY <2>4 DEF NearWires
    <3>3. QED  BY <1>10, <3>1, <3>2
  <2>6. PICK i \in 1..p : ws0[i] = <<tile, Near(ps[t[1]], t[2])>>
    BY <1>8, <2>5
  <2>7. ws0[i][1] = tile /\ ws0[i][2] = Near(ps[t[1]], t[2])
    BY <2>6
  <2>8. PIPs(d, ws0[i]) = ps
    BY <1>7, <2>2, <2>3, <2>7
  <2>9. PICK x : x = <<i, t>>
    OBVIOUS
  <2>10. x[1] = i /\ x[2] = t /\ x \in (1..p) \X U
    BY <2>9
  <2>11. x \in Exits(d, m)
    <3>1. t \in TurnsFrom(ps, ws0[i][2])
      BY <2>4, <2>7 DEF TurnsFrom
    <3>2. QED  BY <1>6, <2>8, <2>10, <3>1
  <2>12. NodeLedTo(d, m, x) = n
    <3>1. NodeLedTo(d, m, x) = tile_wire_to_node(d, tile, FarWires(ps)[t])
      BY <1>1, <2>7, <2>8, <2>10 DEF NodeLedTo, PIPsAt
    <3>2. FarWires(ps)[t] = Far(ps[t[1]], t[2])
      BY <2>4 DEF FarWires
    <3>3. tile_wire_to_node(d, tile, Far(ps[t[1]], t[2])) = n
      BY <1>8, <2>4
    <3>4. QED  BY <3>1, <3>2, <3>3
  <2>13. Token(d, n, y) = Token(d, m, x)
    BY <1>1, <1>2, <2>1, <2>3, <2>7, <2>10 DEF Token
  <2>14. QED  BY <2>11, <2>12, <2>13
<1>11. QED  BY <1>9, <1>10

\* An image is as large if no two elements have the same.
LEMMA ImageBijection ==
  ASSUME NEW X, NEW f, f = [x \in X |-> f[x]], \A x, y \in X : f[x] = f[y] => x = y
  PROVE  ExistsBijection(X, {f[x] : x \in X})
<1>1. PICK Z : Z = {f[x] : x \in X}
  OBVIOUS
<1>2. f \in [X -> Z] /\ \A z \in Z : \E x \in X : f[x] = z
  BY <1>1
<1>3. f \in Bijection(X, Z)
  BY <1>2, Fun_IsBij
<1>4. QED  BY <1>1, <1>3 DEF ExistsBijection

\* As many PIPs lead from m to n as come to n from m.
LEMMA PIPsBothWays ==
  ASSUME NEW d \in Devices, NEW m \in 1..NodeNum(d), NEW n \in 1..NodeNum(d)
  PROVE  ExistsBijection({x \in Exits(d, m) : NodeLedTo(d, m, x) = n},
                         {y \in Entries(d, n) : NodeComeFrom(d, n, y) = m})
<1>1. PICK X, Y : /\ X = {x \in Exits(d, m) : NodeLedTo(d, m, x) = n}
                  /\ Y = {y \in Entries(d, n) : NodeComeFrom(d, n, y) = m}
  OBVIOUS
<1>2. PICK f : f = [x \in X |-> Token(d, m, x)]
  OBVIOUS
<1>3. PICK g : g = [y \in Y |-> Token(d, n, y)]
  OBVIOUS
<1>4. \A x, y \in X : f[x] = f[y] => x = y
  <2>1. \A x, y \in X : Token(d, m, x) = Token(d, m, y) => x = y
    BY <1>1, TokensDiffer
  <2>2. QED  BY <1>2, <2>1
<1>5. \A x, y \in Y : g[x] = g[y] => x = y
  <2>1. \A x, y \in Y : Token(d, n, x) = Token(d, n, y) => x = y
    BY <1>1, TokensDiffer
  <2>2. QED  BY <1>3, <2>1
<1>6. {f[x] : x \in X} = {g[y] : y \in Y}
  <2>1. \A x \in X : \E y \in Y : g[y] = f[x]
    BY <1>1, <1>2, <1>3, TokensAgree
  <2>2. \A y \in Y : \E x \in X : g[y] = f[x]
    BY <1>1, <1>2, <1>3, TokensAgree
  <2>3. QED  BY <2>1, <2>2
<1>7. ExistsBijection(X, {f[x] : x \in X})
  <2>1. f = [x \in X |-> f[x]]
    BY <1>2
  <2>2. QED  BY <1>4, <2>1, ImageBijection
<1>8. ExistsBijection(Y, {g[y] : y \in Y})
  <2>1. g = [y \in Y |-> g[y]]
    BY <1>3
  <2>2. QED  BY <1>5, <2>1, ImageBijection
<1>9. ExistsBijection({g[y] : y \in Y}, Y)
  BY <1>8, Fun_ExistsBijSymmetric
<1>10. PICK Z : Z = {f[x] : x \in X} /\ Z = {g[y] : y \in Y}
  BY <1>6
<1>11. ExistsBijection(X, Z) /\ ExistsBijection(Z, Y)
  BY <1>7, <1>9, <1>10
<1>12. ExistsBijection(X, Y)
  BY <1>11, Fun_ExistsBijTransitive
<1>13. QED  BY <1>1, <1>12

\* The two walks find each edge equally often.
LEMMA EdgesOfDevice ==
  ASSUME NEW d \in Devices, NEW m \in 1..NodeNum(d), NEW n \in 1..NodeNum(d)
  PROVE  Occurrences(n, get_outgoing_nodes(d, Wires(d, m))) = Occurrences(m, get_incoming_nodes(d, Wires(d, n)))
<1>1. PICK s, u : s = get_outgoing_nodes(d, Wires(d, m)) /\ u = get_incoming_nodes(d, Wires(d, n))
  OBVIOUS
<1>2. PICK X, Y : X = Exits(d, m) /\ Y = Entries(d, n)
  OBVIOUS
<1>3. PICK v : v = [x \in X |-> NodeLedTo(d, m, x)]
  OBVIOUS
<1>4. PICK w : w = [y \in Y |-> NodeComeFrom(d, n, y)]
  OBVIOUS
<1>5. PICK V : V = {x \in X : NodeLedTo(d, m, x) # 0}
  OBVIOUS
<1>6. PICK W : W = {y \in Y : NodeComeFrom(d, n, y) # 0}
  OBVIOUS
<1>7. Lists(s, V, v) /\ Lists(u, W, w)
  BY <1>1, <1>2, <1>3, <1>4, <1>5, <1>6, WalksList
<1>8. m # 0 /\ n # 0
  <2>1. NodeNum(d) \in Nat
    BY NodeOfDevice
  <2>2. QED  BY <2>1
<1>9. /\ {x \in V : v[x] = n} = {x \in X : NodeLedTo(d, m, x) = n}
      /\ {y \in W : w[y] = m} = {y \in Y : NodeComeFrom(d, n, y) = m}
  BY <1>3, <1>4, <1>5, <1>6, <1>8
<1>10. PICK A, B : A = {x \in X : NodeLedTo(d, m, x) = n} /\ B = {y \in Y : NodeComeFrom(d, n, y) = m}
  OBVIOUS
<1>11. PICK K, L : K = {k \in DOMAIN s : s[k] = n} /\ L = {k \in DOMAIN u : u[k] = m}
  OBVIOUS
<1>12. ExistsBijection(K, A)
  <2>1. HasValue(K, DOMAIN s, s, n) /\ HasValue(A, V, v, n)
    BY <1>9, <1>10, <1>11 DEF HasValue
  <2>2. QED  BY <1>7, <2>1, ListsCount
<1>13. ExistsBijection(L, B)
  <2>1. HasValue(L, DOMAIN u, u, m) /\ HasValue(B, W, w, m)
    BY <1>9, <1>10, <1>11 DEF HasValue
  <2>2. QED  BY <1>7, <2>1, ListsCount
<1>14. ExistsBijection(A, B)
  BY <1>2, <1>10, PIPsBothWays
<1>15. ExistsBijection(B, L)
  BY <1>13, Fun_ExistsBijSymmetric
<1>16. ExistsBijection(K, B)
  BY <1>12, <1>14, Fun_ExistsBijTransitive
<1>17. ExistsBijection(K, L)
  BY <1>15, <1>16, Fun_ExistsBijTransitive
<1>18. IsFiniteSet(K)
  <2>1. s \in Seq(1..NodeNum(d))
    BY <1>1, WalksList
  <2>2. Len(s) \in Nat /\ DOMAIN s = 1..Len(s)
    BY <2>1
  <2>3. IsFiniteSet(1..Len(s))
    BY <2>2, FS_Interval
  <2>4. QED  BY <1>11, <2>2, <2>3, FS_Subset
<1>19. Cardinality(K) = Cardinality(L)
  BY <1>17, <1>18, FS_Bijection
<1>20. QED  BY <1>1, <1>11, <1>19 DEF Occurrences

-----------------------------------------------------------------------------
\* The dump

\* The files of a dump were written by runs for the devices that were asked
\* for, a run that dumps has read the device it is asked for, and what is in
\* memory of a run that is ready is a device of the directory.
CacheInv ==
  /\ plan \in Seq(DOMAIN DeviceNodes)
  /\ asked \subseteq DOMAIN DeviceNodes
  /\ DumpsOf(disk, asked)
  /\ phase \in {"load", "read", "dump", "ready"} => deviceName \in asked
  /\ phase = "dump" => memory = ReadMemory(deviceName) /\ toOpen \cup toClose \subseteq Dump
  /\ phase = "ready" => memory.device \in asked
  /\ ReadyIsOneDevice

\* The four parts of the nodes are all of them, one after the other.
LEMMA PartsConcatenate ==
  ASSUME NEW S, NEW s \in Seq(S)
  PROVE  Part(1, s) \o Part(2, s) \o Part(3, s) \o Part(4, s) = s
<1>1. PICK n \in Nat : n = Len(s)
  OBVIOUS
<1>2. PICK a \in Nat : a = (1 * n) \div 4
  OBVIOUS
<1>3. PICK b \in Nat : b = (2 * n) \div 4
  OBVIOUS
<1>4. PICK c \in Nat : c = (3 * n) \div 4
  OBVIOUS
<1>5. a <= b /\ b <= c /\ c <= n
  BY <1>2, <1>3, <1>4
<1>6. (0 * n) \div 4 = 0 /\ (4 * n) \div 4 = n /\ 1 - 1 = 0 /\ 2 - 1 = 1 /\ 3 - 1 = 2 /\ 4 - 1 = 3
  OBVIOUS
<1>7. /\ Part(1, s) = SubSeq(s, 1, a) /\ Part(2, s) = SubSeq(s, a + 1, b)
      /\ Part(3, s) = SubSeq(s, b + 1, c) /\ Part(4, s) = SubSeq(s, c + 1, n)
  <2>1. Part(1, s) = SubSeq(s, 0 + 1, a) /\ 0 + 1 = 1
    BY <1>1, <1>2, <1>6 DEF Part
  <2>2. Part(2, s) = SubSeq(s, a + 1, b)
    BY <1>1, <1>2, <1>3, <1>6 DEF Part
  <2>3. Part(3, s) = SubSeq(s, b + 1, c)
    BY <1>1, <1>3, <1>4, <1>6 DEF Part
  <2>4. Part(4, s) = SubSeq(s, c + 1, n)
    BY <1>1, <1>4, <1>6 DEF Part
  <2>5. QED  BY <2>1, <2>2, <2>3, <2>4
<1>8. SubSeq(s, 1, a) \o SubSeq(s, a + 1, b) = SubSeq(s, 1, b)
  <2>1. 1 \in 1..(Len(s) + 1) /\ a \in (1 - 1)..Len(s) /\ b \in a..Len(s)
    BY <1>1, <1>5
  <2>2. QED  BY <2>1, ConcatAdjacentSubSeq
<1>9. SubSeq(s, 1, b) \o SubSeq(s, b + 1, c) = SubSeq(s, 1, c)
  <2>1. 1 \in 1..(Len(s) + 1) /\ b \in (1 - 1)..Len(s) /\ c \in b..Len(s)
    BY <1>1, <1>5
  <2>2. QED  BY <2>1, ConcatAdjacentSubSeq
<1>10. SubSeq(s, 1, c) \o SubSeq(s, c + 1, n) = SubSeq(s, 1, n)
  <2>1. 1 \in 1..(Len(s) + 1) /\ c \in (1 - 1)..Len(s) /\ n \in c..Len(s)
    BY <1>1, <1>5
  <2>2. QED  BY <2>1, ConcatAdjacentSubSeq
<1>11. SubSeq(s, 1, n) = s
  BY <1>1, SubSeqFull
<1>12. QED  BY <1>7, <1>8, <1>9, <1>10, <1>11

\* What is written to each file.
LEMMA WrittenIs ==
  ASSUME NEW m
  PROVE  /\ Dump = {"device", "routeNodes", "node_to_wires0", "node_to_wires1", "node_to_wires2", "node_to_wires3"}
         /\ Written("device", m) = Whole(<<m.device>>)
         /\ Written("routeNodes", m) = Whole(m.routeNodes)
         /\ \A i \in 1..4 : NodeParts[i] \in Dump /\ Written(NodeParts[i], m) = Whole(Part(i, m.node_to_wires))
<1>1. /\ NodeParts[1] = "node_to_wires0" /\ NodeParts[2] = "node_to_wires1"
      /\ NodeParts[3] = "node_to_wires2" /\ NodeParts[4] = "node_to_wires3"
  BY DEF NodeParts
<1>2. 1..4 = {1, 2, 3, 4}
  OBVIOUS
<1>3. Dump = {"device", "routeNodes", "node_to_wires0", "node_to_wires1", "node_to_wires2", "node_to_wires3"}
  BY <1>1, <1>2 DEF Dump
<1>4. Written("device", m) = Whole(<<m.device>>) /\ Written("routeNodes", m) = Whole(m.routeNodes)
  BY DEF Written
<1>5. ASSUME NEW i \in 1..4
      PROVE  NodeParts[i] \in Dump /\ Written(NodeParts[i], m) = Whole(Part(i, m.node_to_wires))
  <2>1. NodeParts[i] \in Dump /\ NodeParts[i] # "device" /\ NodeParts[i] # "routeNodes"
    BY <1>1, <1>2, <1>3
  <2>2. \A j \in 1..4 : NodeParts[j] = NodeParts[i] => j = i
    BY <1>1, <1>2
  <2>3. (CHOOSE j \in 1..4 : NodeParts[j] = NodeParts[i]) = i
    BY <2>2
  <2>4. QED  BY <2>1, <2>3 DEF Written
<1>6. QED  BY <1>3, <1>4, <1>5

\* A whole file of a directory is one of a device that was asked for.
LEMMA WholeFile ==
  ASSUME NEW ds, DumpsOf(disk, ds), NEW f \in Dump, disk[f].state = "whole"
  PROVE  \E d \in ds : disk[f] = Written(f, ReadMemory(d))
<1>1. disk[f] # Absent /\ disk[f] # Partial
  BY DEF Absent, Partial
<1>2. QED  BY <1>1 DEF DumpsOf

\* The memory of a device that is read.
LEMMA MemoryOfDevice ==
  ASSUME NEW d \in DOMAIN DeviceNodes
  PROVE  /\ NodesOfDevice(d) \in Seq({<<d, n>> : n \in 1..DeviceNodes[d]})
         /\ Len(NodesOfDevice(d)) = DeviceNodes[d]
         /\ ReadMemory(d).device = d
         /\ ReadMemory(d).node_to_wires = NodesOfDevice(d)
         /\ ReadMemory(d).routeNodes = NodesOfDevice(d)
<1>1. DeviceNodes[d] \in Nat
  BY SetupsAssumption
<1>2. QED  BY <1>1 DEF NodesOfDevice, ReadMemory

LEMMA CacheInitInv == CacheInit => CacheInv
BY SetupsAssumption DEF CacheInit, CacheInv, ReadyIsOneDevice

LEMMA DumpsOfMore ==
  ASSUME NEW ds, NEW es, ds \subseteq es, NEW disks, DumpsOf(disks, ds)
  PROVE  DumpsOf(disks, es)
BY DEF DumpsOf

LEMMA StartInv == CacheInv /\ Start => CacheInv'
<1> SUFFICES ASSUME CacheInv, Start PROVE CacheInv'
  OBVIOUS
<1>1. /\ plan # <<>> /\ deviceName' = Head(plan) /\ plan' = Tail(plan)
      /\ asked' = asked \cup {Head(plan)} /\ phase' \in {"load", "read"} /\ disk' = disk
  BY DEF Start
<1>2. Head(plan) \in DOMAIN DeviceNodes /\ Tail(plan) \in Seq(DOMAIN DeviceNodes)
  BY <1>1 DEF CacheInv
<1>3. DumpsOf(disk', asked')
  BY <1>1, DumpsOfMore DEF CacheInv
<1>4. QED  BY <1>1, <1>2, <1>3 DEF CacheInv, ReadyIsOneDevice

\* A dump of one device loads as that device.
LEMMA LoadInv == CacheInv /\ Load => CacheInv'
<1> SUFFICES ASSUME CacheInv, Load PROVE CacheInv'
  OBVIOUS
<1>1. UNCHANGED <<disk, plan, asked, deviceName>> /\ phase = "load"
  BY DEF Load
<1>2. CASE phase' # "ready"
  <2>1. phase' = "terminated"
    BY <1>2 DEF Load
  <2>2. QED  BY <1>1, <2>1 DEF CacheInv, ReadyIsOneDevice
<1>3. CASE phase' = "ready"
  <2>1. /\ \A f \in Dump : disk[f].state = "whole"
        /\ memory' = [device |-> disk["device"].content[1], node_to_wires |-> Concatenated(disk),
                      routeNodes |-> disk["routeNodes"].content]
    BY <1>3 DEF Load
  <2>2. ASSUME NEW f \in Dump PROVE \E d \in asked : disk[f] = Written(f, ReadMemory(d))
    BY <2>1, WholeFile DEF CacheInv
  <2>3. \A d \in asked : Written("device", ReadMemory(d)) = Whole(<<d>>)
    <3>1. \A d \in asked : ReadMemory(d).device = d
      BY MemoryOfDevice DEF CacheInv
    <3>2. QED  BY <3>1, WrittenIs
  <2>4. "device" \in Dump /\ "routeNodes" \in Dump
    BY WrittenIs
  <2>5. memory'.device \in asked'
    <3>1. PICK d \in asked : disk["device"] = Whole(<<d>>)
      BY <2>2, <2>3, <2>4
    <3>2. disk["device"].content[1] = d
      BY <3>1 DEF Whole
    <3>3. QED  BY <1>1, <2>1, <3>2
  <2>6. asked = {deviceName} => memory' = ReadMemory(deviceName)
    <3>1. SUFFICES ASSUME asked = {deviceName} PROVE memory' = ReadMemory(deviceName)
      OBVIOUS
    <3>2. PICK s : s = NodesOfDevice(deviceName)
      OBVIOUS
    <3>3. deviceName \in DOMAIN DeviceNodes
      BY <3>1 DEF CacheInv
    <3>4. s \in Seq({<<deviceName, n>> : n \in 1..DeviceNodes[deviceName]})
      BY <3>2, <3>3, MemoryOfDevice
    <3>5. \A f \in Dump : disk[f] = Written(f, ReadMemory(deviceName))
      BY <2>2, <3>1
    <3>6. disk["device"].content[1] = deviceName
      BY <2>3, <2>4, <3>1, <3>5 DEF Whole
    <3>7. PICK m : m = ReadMemory(deviceName) /\ m.node_to_wires = s /\ m.routeNodes = s
      BY <3>2, <3>3, MemoryOfDevice
    <3>8. /\ disk["routeNodes"].content = s
          /\ \A i \in 1..4 : disk[NodeParts[i]].content = Part(i, s)
      <4>1. disk["routeNodes"] = Whole(m.routeNodes)
        BY <2>4, <3>5, <3>7, WrittenIs
      <4>2. \A i \in 1..4 : NodeParts[i] \in Dump /\ Written(NodeParts[i], m) = Whole(Part(i, s))
        BY <3>7, WrittenIs
      <4>3. \A i \in 1..4 : disk[NodeParts[i]] = Whole(Part(i, s))
        BY <3>5, <3>7, <4>2
      <4>4. \A x : Whole(x).content = x
        BY DEF Whole
      <4>5. QED  BY <3>7, <4>1, <4>3, <4>4
    <3>9. Concatenated(disk) = s
      <4>1. Concatenated(disk) = Part(1, s) \o Part(2, s) \o Part(3, s) \o Part(4, s)
        <5>1. 1 \in 1..4 /\ 2 \in 1..4 /\ 3 \in 1..4 /\ 4 \in 1..4
          OBVIOUS
        <5>2. /\ disk[NodeParts[1]].content = Part(1, s) /\ disk[NodeParts[2]].content = Part(2, s)
              /\ disk[NodeParts[3]].content = Part(3, s) /\ disk[NodeParts[4]].content = Part(4, s)
          BY <3>8, <5>1
        <5>3. QED  BY <5>2 DEF Concatenated
      <4>2. QED  BY <3>4, <4>1, PartsConcatenate
    <3>10. QED  BY <2>1, <3>2, <3>6, <3>8, <3>9 DEF ReadMemory
  <2>7. QED  BY <1>1, <1>3, <2>5, <2>6 DEF CacheInv, ReadyIsOneDevice
<1>4. QED  BY <1>2, <1>3

LEMMA DumpStepsInv == CacheInv /\ (ReadDevice \/ Open \/ Close \/ JoinDump) => CacheInv'
<1> SUFFICES ASSUME CacheInv, ReadDevice \/ Open \/ Close \/ JoinDump PROVE CacheInv'
  OBVIOUS
<1>1. CASE ReadDevice
  BY <1>1 DEF ReadDevice, CacheInv, ReadyIsOneDevice
<1>2. CASE Open
  <2>1. PICK f \in toOpen : /\ disk' = [disk EXCEPT ![f] = Partial]
                            /\ toOpen' = toOpen \ {f} /\ toClose' = toClose \cup {f}
    BY <1>2 DEF Open
  <2>2. phase = "dump" /\ UNCHANGED <<plan, asked, phase, deviceName, memory>>
    BY <1>2 DEF Open, memoryVars
  <2>3. DumpsOf(disk', asked')
    BY <2>1, <2>2 DEF CacheInv, DumpsOf
  <2>4. QED  BY <2>1, <2>2, <2>3 DEF CacheInv, ReadyIsOneDevice
<1>3. CASE Close
  <2>1. PICK f \in toClose : disk' = [disk EXCEPT ![f] = Written(f, memory)] /\ toClose' = toClose \ {f}
    BY <1>3 DEF Close
  <2>2. phase = "dump" /\ UNCHANGED <<plan, asked, phase, deviceName, memory, toOpen>>
    BY <1>3 DEF Close, memoryVars
  <2>3. DumpsOf(disk', asked')
    BY <2>1, <2>2 DEF CacheInv, DumpsOf
  <2>4. QED  BY <2>1, <2>2, <2>3 DEF CacheInv, ReadyIsOneDevice
<1>4. CASE JoinDump
  <2>1. phase = "dump" /\ phase' = "ready" /\ UNCHANGED <<disk, plan, asked, deviceName, memory>>
    BY <1>4 DEF JoinDump, memoryVars
  <2>2. memory'.device \in asked'
    BY <2>1, MemoryOfDevice DEF CacheInv
  <2>3. QED  BY <2>1, <2>2 DEF CacheInv, ReadyIsOneDevice
<1>5. QED  BY <1>1, <1>2, <1>3, <1>4

LEMMA EndInv == CacheInv /\ End => CacheInv'
BY DEF End, CacheInv, ReadyIsOneDevice

LEMMA CacheSame == CacheInv /\ UNCHANGED cacheVars => CacheInv'
BY DEF CacheInv, cacheVars, memoryVars, ReadyIsOneDevice, DumpsOf

-----------------------------------------------------------------------------
\* The graph of the loaded device

\* The walks over a whole memory find the edges of the device, so what they
\* make is a graph over the nodes of RouteGraph.
LEMMA GraphOfMemory ==
  ASSUME memory.device \in Devices, memory = ReadMemory(memory.device), NEW nl \in Netlists[memory.device]
  PROVE  /\ IsGraph(GraphOf(nl))
         /\ \A n \in 1..NodeNum(memory.device) : NodeWires(n) = Wires(memory.device, n)
         /\ \A e \in GraphOf(nl).outgoing :
              \E n \in 1..NodeNum(memory.device) :
                \E m \in ToSet(get_outgoing_nodes(memory.device, Wires(memory.device, n))) :
                  e = <<n, m>> /\ m \in 1..NodeNum(memory.device)
<1>1. PICK d \in Devices : d = memory.device
  OBVIOUS
<1>2. PICK N : N = 1..NodeNum(d) /\ N \subseteq Nodes /\ nl.sources \subseteq N /\ nl.sinks \subseteq N
  BY <1>1, FrontEndAssumption
<1>3. /\ d \in DOMAIN DeviceNodes /\ DeviceNodes[d] = NodeNum(d)
      /\ memory.node_to_wires = NodesOfDevice(d) /\ Len(NodesOfDevice(d)) = NodeNum(d)
  BY <1>1, MemoryOfDevice, FrontEndAssumption
<1>4. MemoryNodes = N
  BY <1>2, <1>3 DEF MemoryNodes
<1>5. \A n \in N : NodeWires(n) = Wires(d, n)
  BY <1>2, <1>3 DEF NodeWires, NodesOfDevice
<1>6. ASSUME NEW e \in GraphOf(nl).outgoing
      PROVE  \E n \in N : \E m \in ToSet(get_outgoing_nodes(d, Wires(d, n))) : e = <<n, m>> /\ m \in N
  <2>1. GraphOf(nl).outgoing = UNION {{<<n, m>> : m \in ToSet(Outgoing(n))} : n \in MemoryNodes}
    BY DEF GraphOf
  <2>2. PICK n \in N : \E m \in ToSet(Outgoing(n)) : e = <<n, m>>
    BY <1>4, <2>1
  <2>3. PICK m \in ToSet(get_outgoing_nodes(d, Wires(d, n))) : e = <<n, m>>
    BY <1>1, <1>5, <2>2 DEF Outgoing
  <2>4. m \in N
    BY <1>2, OutgoingNodes
  <2>5. QED  BY <2>3, <2>4
<1>7. GraphOf(nl).allowed \subseteq N
  BY <1>1, <1>2 DEF GraphOf, node_in_allowed_tile
<1>8. GraphOf(nl).sources = nl.sources /\ GraphOf(nl).sinks = nl.sinks
  BY DEF GraphOf
<1>9. IsGraph(GraphOf(nl))
  <2>1. GraphOf(nl).outgoing \subseteq Nodes \X Nodes
    BY <1>2, <1>6
  <2>2. QED  BY <1>2, <1>7, <1>8, <2>1 DEF IsGraph
<1>10. QED  BY <1>1, <1>2, <1>5, <1>6, <1>9

\* The graph that is reduced is one of the loaded device, which is whole.
GraphRead ==
  /\ phase = "ready" /\ memory = ReadMemory(memory.device)
  /\ \E nl \in Netlists[memory.device] : graph = GraphOf(nl)

\* Before the netlist is read there is nothing; from then on the invariant of
\* the reduction holds of the graph that was read.
FrontInv ==
  /\ CacheInv
  /\ pc = "idle" => Unread
  /\ pc # "idle" => IInv /\ GraphRead

LEMMA FrontInitInv == FrontInit => FrontInv
BY CacheInitInv DEF FrontInit, FrontInv, Unread

LEMMA ReadyDevice == CacheInv /\ phase = "ready" => memory.device \in Devices
BY FrontEndAssumption DEF CacheInv

LEMMA UnreadSame == Unread /\ UNCHANGED vars => Unread'
BY DEF Unread, vars

LEMMA IInvSame == IInv /\ UNCHANGED vars => IInv'
BY NextIInv

LEMMA GraphReadSame == GraphRead /\ UNCHANGED <<graph, phase, memory>> => GraphRead'
<1> SUFFICES ASSUME GraphRead, UNCHANGED <<graph, phase, memory>> PROVE GraphRead'
  OBVIOUS
<1>1. PICK nl \in Netlists[memory.device] : graph = GraphOf(nl)
  BY DEF GraphRead
<1>2. GraphOf(nl)' = GraphOf(nl)
  BY DEF GraphOf, preservedNodes, MemoryNodes, Outgoing, NodeWires, FixedNodes
<1>3. QED  BY <1>1, <1>2 DEF GraphRead

LEMMA ReadingDeviceInv == FrontInv /\ ReadingDevice => FrontInv'
<1> SUFFICES ASSUME FrontInv, ReadingDevice PROVE FrontInv'
  OBVIOUS
<1>1. UNCHANGED vars /\ (Start \/ CacheStep)
  BY DEF ReadingDevice
<1>2. CacheInv'
  BY <1>1, StartInv, LoadInv, DumpStepsInv DEF FrontInv, CacheStep
<1>3. phase # "ready"
  BY <1>1 DEF Start, CacheStep, Load, ReadDevice, Open, Close, JoinDump
<1>4. pc = "idle" /\ Unread
  BY <1>3 DEF FrontInv, GraphRead
<1>5. Unread'
  BY <1>1, <1>4, UnreadSame
<1>6. pc' = "idle"
  BY <1>5 DEF Unread
<1>7. QED  BY <1>2, <1>5, <1>6 DEF FrontInv

LEMMA EndRunInv == FrontInv /\ EndRun => FrontInv'
<1> SUFFICES ASSUME FrontInv, EndRun PROVE FrontInv'
  OBVIOUS
<1>1. CacheInv'
  BY EndInv DEF FrontInv, EndRun
<1>2. Unread' /\ pc' = "idle"
  BY DEF EndRun, Unread
<1>3. QED  BY <1>1, <1>2 DEF FrontInv

LEMMA ReadNetlistInv == FrontInv /\ ReadNetlist => FrontInv'
<1> SUFFICES ASSUME FrontInv, ReadNetlist PROVE FrontInv'
  OBVIOUS
<1>1. /\ phase = "ready" /\ memory = ReadMemory(memory.device) /\ UNCHANGED cacheVars
      /\ pc' = "reduce" /\ newDeadEndNodeIds' = {} /\ children' = {}
      /\ inGraph' = NodesInGraph'
      /\ outDegrees' = [n \in Nodes |-> Cardinality(OutEdges(n, NodesInGraph)')]
      /\ deadEndNodeIds' = {n \in (NodesInGraph \ Pins)' : outDegrees'[n] = 0}
  BY DEF ReadNetlist
<1>2. PICK nl \in Netlists[memory.device] : graph' = GraphOf(nl)
  BY DEF ReadNetlist
<1>3. CacheInv'
  BY <1>1, CacheSame DEF FrontInv
<1>4. memory.device \in Devices
  BY <1>1, ReadyDevice DEF FrontInv
<1>5. IsGraph(graph')
  BY <1>1, <1>2, <1>4, GraphOfMemory
<1>6. Unreduced'
  BY <1>1, <1>5 DEF Unreduced
<1>7. IInv'
  <2>1. Unreduced' => IInv'
    BY UnreducedIInv, PTL
  <2>2. QED  BY <1>6, <2>1
<1>8. GraphRead'
  <2>1. UNCHANGED <<phase, memory>>
    BY <1>1 DEF cacheVars, memoryVars
  <2>2. GraphOf(nl)' = GraphOf(nl)
    BY <2>1 DEF GraphOf, preservedNodes, MemoryNodes, Outgoing, NodeWires, FixedNodes
  <2>3. QED  BY <1>1, <1>2, <2>1, <2>2 DEF GraphRead
<1>9. QED  BY <1>1, <1>3, <1>7, <1>8 DEF FrontInv

LEMMA ReducingInv == FrontInv /\ Reducing => FrontInv'
<1> SUFFICES ASSUME FrontInv, Reducing PROVE FrontInv'
  OBVIOUS
<1>1. Next /\ UNCHANGED cacheVars
  BY DEF Reducing
<1>2. pc # "idle" /\ graph' = graph /\ pc' # "idle"
  BY <1>1 DEF Next, RemoveDeadEnd, NextLevel, AddPins, SetChildren
<1>3. CacheInv'
  BY <1>1, CacheSame DEF FrontInv
<1>4. IInv'
  BY <1>1, <1>2, NextIInv DEF FrontInv
<1>5. GraphRead'
  BY <1>1, <1>2, GraphReadSame DEF FrontInv, cacheVars, memoryVars
<1>6. QED  BY <1>2, <1>3, <1>4, <1>5 DEF FrontInv

LEMMA FrontNextInv == FrontInv /\ [FrontNext]_frontVars => FrontInv'
<1> SUFFICES ASSUME FrontInv, [FrontNext]_frontVars PROVE FrontInv'
  OBVIOUS
<1>1. CASE FrontNext
  BY <1>1, ReadingDeviceInv, EndRunInv, ReadNetlistInv, ReducingInv DEF FrontNext
<1>2. CASE UNCHANGED frontVars
  <2>1. UNCHANGED vars /\ UNCHANGED cacheVars
    BY <1>2 DEF frontVars
  <2>2. UNCHANGED <<pc, graph, phase, memory>>
    BY <2>1 DEF vars, cacheVars, memoryVars
  <2>3. CacheInv'
    BY <2>1, CacheSame DEF FrontInv
  <2>4. pc' = "idle" => Unread'
    BY <2>1, <2>2, UnreadSame DEF FrontInv
  <2>5. pc' # "idle" => IInv' /\ GraphRead'
    BY <2>1, <2>2, IInvSame, GraphReadSame DEF FrontInv
  <2>6. QED  BY <2>3, <2>4, <2>5 DEF FrontInv
<1>3. QED  BY <1>1, <1>2

-----------------------------------------------------------------------------

\* For all device files, dumps, netlists and ends of runs: the invariant of
\* the reading and of the reduction holds throughout (main.cpp:62-64).
THEOREM FrontEndInvariant == FrontSpec => []FrontInv
<1>1. FrontInit => FrontInv
  BY FrontInitInv
<1>2. FrontInv /\ [FrontNext]_frontVars => FrontInv'
  BY FrontNextInv
<1>3. QED  BY <1>1, <1>2, PTL DEF FrontSpec

\* A directory in which one device was asked for serves that device, whole and
\* in order, whatever runs were ended at whatever step of a dump, for devices
\* of every size (database.cpp:21-113).
THEOREM CacheServesItsDevice == FrontSpec => []ReadyIsOneDevice
<1>1. FrontInv => ReadyIsOneDevice
  BY DEF FrontInv, CacheInv
<1>2. QED  BY <1>1, FrontEndInvariant, PTL

\* The reduction of the graph that the walks find in the loaded device counts
\* exactly, loses no route and leaves no dead end (database.cpp:247-329).
THEOREM LoadedGraphIsReduced == FrontSpec => [](DegreesExact /\ NoPathLost /\ NoDeadEndLeft)
<1>1. FrontInv => DegreesExact /\ NoPathLost /\ NoDeadEndLeft
  <2>1. CASE pc = "idle"
    BY <2>1 DEF DegreesExact, NoPathLost, NoDeadEndLeft
  <2>2. CASE pc # "idle"
    BY <2>2, IInvNoPathLost, IInvNoDeadEndLeft DEF FrontInv, IInv
  <2>3. QED  BY <2>1, <2>2
<1>2. QED  BY <1>1, FrontEndInvariant, PTL

\* On every device of which the PIPs that drive a node are in the tile where it
\* begins, the PIP that is written for an edge is one of the tile it names, and
\* leads from the one node to the other (device.cpp:856-908, netlist.cpp:599-606).
THEOREM WrittenPipsConnect == FrontSpec => []WrittenPipConnects
<1>1. FrontInv => WrittenPipConnects
  <2>1. SUFFICES ASSUME FrontInv, pc = "done", DrivenWhereItBegins(memory.device), NEW e \in children
                 PROVE  PipConnects(memory.device, NodeWires(e[1]), NodeWires(e[2]), e[1], e[2])
    BY DEF WrittenPipConnects, PipConnects
  <2>2. IInv /\ GraphRead /\ memory.device \in Devices
    BY <2>1, ReadyDevice DEF FrontInv, GraphRead
  <2>3. PICK nl \in Netlists[memory.device] : graph = GraphOf(nl)
    BY <2>2 DEF GraphRead
  <2>4. e \in GraphOf(nl).outgoing
    BY <2>1, <2>2, <2>3 DEF IInv, ChildrenStored, Edges
  <2>5. PICK d \in Devices : d = memory.device /\ memory = ReadMemory(d)
    BY <2>2 DEF GraphRead
  <2>6. PICK n \in 1..NodeNum(d) : \E m \in ToSet(get_outgoing_nodes(d, Wires(d, n))) :
          e = <<n, m>> /\ m \in 1..NodeNum(d)
    BY <2>4, <2>5, GraphOfMemory
  <2>7. PICK m \in ToSet(get_outgoing_nodes(d, Wires(d, n))) : e = <<n, m>> /\ m \in 1..NodeNum(d)
    BY <2>6
  <2>8. NodeWires(n) = Wires(d, n) /\ NodeWires(m) = Wires(d, m)
    BY <2>3, <2>5, <2>7, GraphOfMemory
  <2>9. PipConnects(d, Wires(d, n), Wires(d, m), n, m)
    BY <2>1, <2>5, EdgePipConnects
  <2>10. e[1] = n /\ e[2] = m
    BY <2>7
  <2>11. QED  BY <2>5, <2>8, <2>9, <2>10
<1>2. QED  BY <1>1, FrontEndInvariant, PTL

\* At every moment at which the graph of a device can be read, the edges that are
\* found from the one end and from the other are the same, PIP by PIP
\* (device.cpp:9-61, database.cpp:229, 246): a node is as often among the
\* parents of another as that one is among its children.
THEOREM EdgesAgreeBothWays == FrontSpec => []EdgesBothWays
<1>1. CacheInv => EdgesBothWays
  <2>1. SUFFICES ASSUME CacheInv, phase = "ready", memory = ReadMemory(memory.device),
                        NEW m \in MemoryNodes, NEW n \in MemoryNodes
                 PROVE  Occurrences(n, Outgoing(m)) = Occurrences(m, Incoming(n))
    BY DEF EdgesBothWays
  <2>2. PICK d \in Devices : d = memory.device
    BY <2>1, ReadyDevice
  <2>3. /\ d \in DOMAIN DeviceNodes /\ DeviceNodes[d] = NodeNum(d)
        /\ memory.node_to_wires = NodesOfDevice(d) /\ Len(NodesOfDevice(d)) = NodeNum(d)
    BY <2>1, <2>2, MemoryOfDevice, FrontEndAssumption
  <2>4. m \in 1..NodeNum(d) /\ n \in 1..NodeNum(d)
    BY <2>3 DEF MemoryNodes
  <2>5. NodeWires(m) = Wires(d, m) /\ NodeWires(n) = Wires(d, n)
    BY <2>3, <2>4 DEF NodeWires, NodesOfDevice
  <2>6. Outgoing(m) = get_outgoing_nodes(d, Wires(d, m)) /\ Incoming(n) = get_incoming_nodes(d, Wires(d, n))
    BY <2>2, <2>5 DEF Outgoing, Incoming
  <2>7. QED  BY <2>4, <2>6, EdgesOfDevice
<1>2. FrontInv => CacheInv
  BY DEF FrontInv
<1>3. QED  BY <1>1, <1>2, FrontEndInvariant, PTL

=============================================================================
