-------------------------- MODULE AStarRouterProofs -------------------------
(***************************************************************************)
(* Whatever the graph, the connections and the first value of the          *)
(* counters, a stored route is a simple path of existing edges from the    *)
(* source to the sink, the watchdog of the backtrace meets no loop, a      *)
(* search that gives up has nowhere left to go, and the loop ends early    *)
(* only over a complete and legal routing.                                 *)
(*                                                                         *)
(* The prev pointers of old searches stay in the array.  The invariant     *)
(* says why they do no harm: the nodes of the present search form a tree   *)
(* of prev pointers that is rooted at the source and closed under prev     *)
(* (SearchTree), without a loop (NoLoop), and the backtrace never leaves   *)
(* it (Backtracing).                                                       *)
(***************************************************************************)
EXTENDS AStarRouter, TLAPS, FiniteSetTheorems, NaturalsInduction, WellFoundedInduction,
        SequenceTheorems

\* The phases of an iteration, and those with a connection at hand.
Iterating == {"next", "search", "save"}
InSearch == {"search", "save", "asserted", "aborted"}

\* Each connection is routed, and fails, once in an iteration.
CountersBounded ==
  /\ pc \in InSearch => c \in Conns
  /\ pc # "iterate" =>
       /\ routedConnectionNum \in Nat /\ failRouteNum \in Nat /\ failRouteNum <= c
       /\ routedConnectionNum <= IF pc \in InSearch THEN c + 1 ELSE c
  /\ pc \in Iterating \cup {"iterate"} => iter < MaxIter

\* The tree of the present search.
SearchTree ==
  /\ queue \subseteq opened /\ Source[c] \in opened /\ Sink[c] \notin opened
  /\ prev[Source[c]] = NoNode
  /\ \A n \in opened : isVisited[n] = connectionUniqueId
  /\ \A n \in opened \ {Source[c]} :
       prev[n] \in opened /\ n \in NodesOf(Children[prev[n]]) /\ n \in enterable[c]

NoLoop == \A S \in SUBSET opened : S # {} => \E n \in S : prev[n] \notin S

\* What has been popped has passed its mark on to all it could.
Expanded ==
  \A n \in opened \ queue : \A m \in NodesOf(Children[n]) :
    m \in Wires(c) \cup {Sink[c]} => isVisited[m] = connectionUniqueId

\* The stored part of a route, and the node that comes next.
Backtracing ==
  LET p == rnodes[c] IN
  /\ prev[Sink[c]] \in opened /\ Sink[c] \in NodesOf(Children[prev[Sink[c]]])
  /\ p = <<>> => rnode = Sink[c]
  /\ p # <<>> => p[1] = Sink[c] /\ rnode = prev[p[Len(p)]] /\ rnode \in opened
  /\ \A i \in 1..Len(p) : i # 1 => p[i] \in opened \ {Source[c]}
  /\ \A i \in 1..(Len(p) - 1) : p[i + 1] = prev[p[i]]
  /\ \A i, j \in 1..Len(p) : p[i] = p[j] => i = j

Searching ==
  /\ pc \in {"search", "save"} => SearchTree /\ NoLoop
  /\ pc \in {"search", "asserted"} => rnodes[c] = <<>>
  /\ pc = "search" => Expanded
  /\ pc = "save" => Backtracing
  /\ pc = "aborted" => Cardinality(NodesOf(rnodes[c])) = WatchDog

\* An iteration over the tree that counts no failure has left none behind.
FailuresCounted ==
  /\ pc \in Iterating \cup {"end"} /\ mode = "tree" /\ failRouteNum = 0 =>
       \A d \in Conns : d < c => rnodes[d] # <<>>
  /\ pc = "end" => c = NumConns /\ (iter < MaxIter => Converged)
  /\ pc = "saved" => Complete

\* The iterations up to this one had a reason to stay overlapped.
Improved(i) == 5 * congestion[i].over < 4 * congestion[i - 1].over
ModeJustified ==
  /\ useOverlapRouting <=> mode = "overlap"
  /\ pc \in Iterating \cup {"iterate"} => Len(congestion) = iter - 1
  /\ pc \in Iterating /\ mode = "overlap" => \A i \in 3..(iter - 1) : Improved(i)
  /\ pc = "iterate" /\ mode = "overlap" => \A i \in 3..(iter - 2) : Improved(i)

IInv ==
  /\ TypeOK /\ CountersBounded /\ Searching /\ RouteWellFormed
  /\ FailuresCounted /\ ModeJustified

\* What RouteWellFormed says of one route.
WellFormed(d, p) ==
  /\ Len(p) > 1 /\ p[1] = Sink[d] /\ p[Len(p)] = Source[d]
  /\ \A i \in 1..(Len(p) - 1) : p[i] \in NodesOf(Children[p[i + 1]])
  /\ \A i \in 2..(Len(p) - 1) : p[i] \in enterable[d]
  /\ Cardinality(NodesOf(p)) = Len(p)

-----------------------------------------------------------------------------

LEMMA ChildrenAreNodes == \A n \in Nodes : NodesOf(Children[n]) \subseteq Nodes
<1> SUFFICES ASSUME NEW n \in Nodes, NEW i \in 1..Len(Children[n]) PROVE Children[n][i] \in Nodes
  BY DEF NodesOf
<1>1. Children[n] \in Seq(Nodes)
  BY GraphAssumption
<1>2. QED  BY <1>1, ElementOfSeq

LEMMA RoutesAreNodes ==
  ASSUME TypeOK, NEW d \in Conns PROVE NodesOf(rnodes[d]) \subseteq Nodes
<1> SUFFICES ASSUME NEW i \in 1..Len(rnodes[d]) PROVE rnodes[d][i] \in Nodes
  BY DEF NodesOf
<1>1. rnodes[d] \in Seq(Nodes)
  BY DEF TypeOK
<1>2. QED  BY <1>1, ElementOfSeq

\* A sequence without repetition has as many elements as places.
LEMMA DistinctCounted ==
  ASSUME NEW p \in Seq(Nodes), \A i, j \in 1..Len(p) : p[i] = p[j] => i = j
  PROVE  Cardinality(NodesOf(p)) = Len(p) /\ Len(p) <= Cardinality(Nodes)
<1>1. Len(p) \in Nat /\ p \in [1..Len(p) -> Nodes]
  BY LenProperties
<1>2. p \in [1..Len(p) -> NodesOf(p)]
  BY <1>1 DEF NodesOf
<1>3. p \in Bijection(1..Len(p), NodesOf(p))
  BY <1>2 DEF NodesOf, Bijection, Injection, Surjection, IsInjective
<1>4. ExistsBijection(1..Len(p), NodesOf(p))
  BY <1>3 DEF ExistsBijection
<1>5. Cardinality(NodesOf(p)) = Len(p)
  BY <1>1, <1>4, FS_CountingElements
<1>6. NodesOf(p) \in SUBSET Nodes
  BY <1>1 DEF NodesOf
<1>7. QED  BY <1>5, <1>6, FS_Subset, GraphAssumption

LEMMA InitIInv == Init => IInv
<1> SUFFICES ASSUME Init PROVE IInv
  OBVIOUS
<1> USE DEF Init
<1>1. TypeOK
  <2>1. NumConns \in Nat /\ MaxIter \in Nat /\ 1 \in 1..MaxIter /\ 0 \in 0..NumConns
    BY GraphAssumption
  <2>2. <<>> \in Seq(Nodes) /\ <<>> \in Seq([over : Nat, routed : Nat])
    BY EmptySeq
  <2>3. QED  BY <2>1, <2>2 DEF TypeOK
<1>2. CountersBounded /\ Searching /\ FailuresCounted
  BY GraphAssumption DEF CountersBounded, Searching, FailuresCounted, InSearch, Iterating
<1>3. RouteWellFormed
  BY DEF RouteWellFormed
<1>4. ModeJustified
  BY EmptySeq DEF ModeJustified, Iterating
<1>5. QED  BY <1>1, <1>2, <1>3, <1>4 DEF IInv

\* What a step that leaves the routes alone keeps.
LEMMA RoutesKept ==
  ASSUME RouteWellFormed, enterable' = enterable, rnodes' = rnodes, pc \notin {"save", "aborted"}
  PROVE  RouteWellFormed'
<1> SUFFICES ASSUME NEW d \in Conns, rnodes[d] # <<>> PROVE WellFormed(d, rnodes[d])'
  BY DEF RouteWellFormed, WellFormed
<1>1. WellFormed(d, rnodes[d])
  BY DEF RouteWellFormed, WellFormed
<1>2. QED  BY <1>1 DEF WellFormed, NodesOf

LEMMA StartIterationIInv == IInv /\ StartIteration => IInv'
<1> SUFFICES ASSUME IInv, StartIteration PROVE IInv'
  OBVIOUS
<1> USE DEF IInv
<1>1. /\ pc = "iterate" /\ pc' = "next" /\ c' = 0
      /\ routedConnectionNum' = 0 /\ failRouteNum' = 0
      /\ connectionIdBase' = connectionIdBase + routedConnectionNum + 1
      /\ mode' = (IF StaysOverlapped THEN "overlap" ELSE "tree")
      /\ useOverlapRouting' = (mode' = "overlap")
      /\ UNCHANGED <<enterable, iter, congestion, isVisited, isTarget, prev, queue, rnode,
                     rnodes, opened>>
  BY DEF StartIteration, searchVars, nodeInfos
<1>2. TypeOK'
  <2>1. connectionIdBase' \in Int /\ 0 \in 0..NumConns
    BY <1>1, GraphAssumption DEF TypeOK
  <2>2. QED  BY <1>1, <2>1 DEF TypeOK
<1>3. CountersBounded' /\ Searching' /\ FailuresCounted'
  BY <1>1, GraphAssumption
     DEF CountersBounded, Searching, FailuresCounted, InSearch, Iterating, Conns
<1>4. RouteWellFormed'
  BY <1>1, RoutesKept
<1>5. ModeJustified'
  <2>1. Len(congestion') = iter' - 1 /\ (useOverlapRouting' <=> mode' = "overlap")
    BY <1>1 DEF ModeJustified
  <2>2. ASSUME mode' = "overlap", NEW i \in 3..(iter - 1) PROVE Improved(i)
    <3>1. StaysOverlapped /\ iter \in Nat
      BY <1>1, <2>2 DEF TypeOK
    <3>2. mode = "overlap"
      BY <3>1 DEF StaysOverlapped, ModeJustified
    <3>3. CASE i \in 3..(iter - 2)
      BY <1>1, <3>2, <3>3 DEF ModeJustified
    <3>4. CASE i = iter - 1
      <4>1. Decreased(i)
        BY <3>1, <3>4 DEF StaysOverlapped
      <4>2. i \in 1..Len(congestion) /\ i - 1 \in 1..Len(congestion)
        BY <1>1, <3>1, <3>4 DEF ModeJustified
      <4>3. congestion \in Seq([over : Nat, routed : Nat])
        BY DEF TypeOK
      <4>4. /\ congestion[i] \in [over : Nat, routed : Nat]
            /\ congestion[i - 1] \in [over : Nat, routed : Nat]
        BY <4>2, <4>3, ElementOfSeq
      <4>5. QED  BY <4>1, <4>4 DEF Decreased, Improved
    <3>5. QED  BY <3>1, <3>3, <3>4
  <2>3. QED  BY <1>1, <2>1, <2>2 DEF ModeJustified, Iterating, Improved
<1>6. QED  BY <1>2, <1>3, <1>4, <1>5

LEMMA KeepIInv == IInv /\ Keep => IInv'
<1> SUFFICES ASSUME IInv, Keep PROVE IInv'
  OBVIOUS
<1> USE DEF IInv
<1>1. /\ pc = "next" /\ pc' = "next" /\ c' = c + 1 /\ c \in Conns /\ ~ShouldRoute(c)
      /\ UNCHANGED <<enterable, iter, connectionIdBase, routedConnectionNum, failRouteNum,
                     useOverlapRouting, mode, congestion, isVisited, isTarget, prev, queue,
                     rnode, rnodes, opened>>
  BY DEF Keep, counters, modes, searchVars, nodeInfos
<1>2. c \in Nat /\ c < NumConns /\ c + 1 \in 0..NumConns /\ NumConns \in Nat
  BY <1>1, GraphAssumption DEF Conns
<1>3. TypeOK'
  BY <1>1, <1>2 DEF TypeOK
<1>4. CountersBounded'
  BY <1>1, <1>2 DEF CountersBounded, InSearch, Iterating
<1>5. Searching' /\ ModeJustified'
  BY <1>1 DEF Searching, ModeJustified, Iterating, Improved
<1>6. FailuresCounted'
  <2>1. rnodes[c] # <<>>
    BY <1>1 DEF ShouldRoute
  <2>2. \A d \in Conns : d < c + 1 => d < c \/ d = c
    BY <1>2 DEF Conns
  <2>3. QED  BY <1>1, <2>1, <2>2 DEF FailuresCounted, Iterating
<1>7. RouteWellFormed'
  BY <1>1, RoutesKept
<1>8. QED  BY <1>3, <1>4, <1>5, <1>6, <1>7

\* The search begins with the tree that is the source alone, whatever the
\* array holds.
LEMMA StartSearchIInv == IInv /\ StartSearch => IInv'
<1> SUFFICES ASSUME IInv, StartSearch PROVE IInv'
  OBVIOUS
<1> USE DEF IInv
<1>1. /\ pc = "next" /\ pc' = "search" /\ c \in Conns
      /\ rnodes' = [rnodes EXCEPT ![c] = <<>>]
      /\ routedConnectionNum' = routedConnectionNum + 1
      /\ isVisited' = [isVisited EXCEPT ![Source[c]] = connectionUniqueId, ![Sink[c]] = -1]
      /\ isTarget' = [isTarget EXCEPT ![Source[c]] = -1, ![Sink[c]] = connectionUniqueId]
      /\ prev' = [prev EXCEPT ![Source[c]] = NoNode, ![Sink[c]] = NoNode]
      /\ queue' = {Source[c]} /\ opened' = {Source[c]}
      /\ UNCHANGED <<enterable, iter, connectionIdBase, failRouteNum,
                     useOverlapRouting, mode, congestion, c, rnode>>
  BY DEF StartSearch, modes
<1>2. /\ c \in Nat /\ c < NumConns /\ NumConns \in Nat
      /\ Source[c] \in Nodes /\ Sink[c] \in Nodes /\ Source[c] # Sink[c]
  BY <1>1, GraphAssumption DEF Conns
<1>3. routedConnectionNum \in Nat /\ routedConnectionNum <= c
  BY <1>1 DEF CountersBounded, InSearch
<1>4. connectionUniqueId \in Int /\ connectionUniqueId' = connectionUniqueId
  BY <1>1, <1>2 DEF connectionUniqueId, TypeOK
<1>5. TypeOK'
  <2>1. rnodes' \in [Conns -> Seq(Nodes)]
    BY <1>1, EmptySeq DEF TypeOK
  <2>2. routedConnectionNum' \in 0..NumConns
    BY <1>1, <1>2, <1>3
  <2>3. isVisited' \in [Nodes -> Int] /\ isTarget' \in [Nodes -> Int]
    BY <1>1, <1>2, <1>4 DEF TypeOK
  <2>4. prev' \in [Nodes -> Nodes \cup {NoNode}]
    BY <1>1 DEF TypeOK
  <2>5. QED  BY <1>1, <1>2, <2>1, <2>2, <2>3, <2>4 DEF TypeOK
<1>6. CountersBounded'
  BY <1>1, <1>2, <1>3 DEF CountersBounded, InSearch, Iterating
<1>7. Searching'
  <2>1. SearchTree'
    <3>1. isVisited'[Source[c]] = connectionUniqueId /\ prev'[Source[c]] = NoNode
      BY <1>1, <1>2 DEF TypeOK
    <3>2. QED  BY <1>1, <1>2, <1>4, <3>1 DEF SearchTree
  <2>2. NoLoop'
    <3>1. prev'[Source[c]] = NoNode /\ Source[c] # NoNode
      BY <1>1, <1>2, GraphAssumption DEF TypeOK
    <3>2. QED  BY <1>1, <3>1 DEF NoLoop
  <2>3. rnodes'[c] = <<>>
    BY <1>1 DEF TypeOK
  <2>4. Expanded'
    BY <1>1 DEF Expanded
  <2>5. QED  BY <1>1, <2>1, <2>2, <2>3, <2>4 DEF Searching
<1>8. RouteWellFormed'
  <2> SUFFICES ASSUME NEW d \in Conns, rnodes'[d] # <<>> PROVE WellFormed(d, rnodes[d])'
    BY DEF RouteWellFormed, WellFormed
  <2>1. rnodes'[d] = rnodes[d]
    BY <1>1 DEF TypeOK
  <2>2. enterable' = enterable /\ pc = "next"
    BY <1>1
  <2>3. WellFormed(d, rnodes[d])
    BY <2>1, <2>2 DEF RouteWellFormed, WellFormed
  <2> HIDE DEF IInv
  <2>4. WellFormed(d, rnodes'[d])
    BY <2>1, <2>3
  <2>5. WellFormed(d, rnodes[d])' = WellFormed(d, rnodes'[d])
    BY <2>2 DEF WellFormed, NodesOf
  <2>6. QED  BY <2>4, <2>5
<1>9. FailuresCounted'
  <2>1. \A d \in Conns : d < c => rnodes'[d] = rnodes[d]
    BY <1>1, <1>2 DEF TypeOK
  <2>2. QED  BY <1>1, <2>1 DEF FailuresCounted, Iterating
<1>10. ModeJustified'
  BY <1>1 DEF ModeJustified, Iterating, Improved
<1>11. QED  BY <1>5, <1>6, <1>7, <1>8, <1>9, <1>10

LEMMA FailIInv == IInv /\ Fail => IInv'
<1> SUFFICES ASSUME IInv, Fail PROVE IInv'
  OBVIOUS
<1> USE DEF IInv
<1>1. /\ pc = "search" /\ pc' = "next" /\ c' = c + 1 /\ c \in Conns
      /\ failRouteNum' = (IF FailureCounts THEN failRouteNum + 1 ELSE failRouteNum)
      /\ UNCHANGED <<enterable, iter, connectionIdBase, routedConnectionNum,
                     useOverlapRouting, mode, congestion, isVisited, isTarget, prev, queue,
                     rnode, rnodes, opened>>
  BY DEF Fail, modes, searchVars, nodeInfos, CountersBounded, InSearch
<1>2. /\ c \in Nat /\ c < NumConns /\ c + 1 \in 0..NumConns /\ NumConns \in Nat
      /\ failRouteNum \in Nat /\ failRouteNum <= c
  BY <1>1, GraphAssumption DEF Conns, CountersBounded
<1>3. TypeOK'
  <2>1. failRouteNum' \in 0..NumConns
    BY <1>1, <1>2
  <2>2. QED  BY <1>1, <1>2, <2>1 DEF TypeOK
<1>4. CountersBounded'
  BY <1>1, <1>2 DEF CountersBounded, InSearch, Iterating
<1>5. Searching' /\ ModeJustified'
  BY <1>1 DEF Searching, ModeJustified, Iterating, Improved
<1>6. FailuresCounted'
  <2>1. mode = "tree" => failRouteNum' # 0
    BY <1>1, <1>2 DEF FailureCounts
  <2>2. QED  BY <1>1, <2>1 DEF FailuresCounted, Iterating
<1>7. RouteWellFormed'
  BY <1>1, RoutesKept
<1>8. QED  BY <1>3, <1>4, <1>5, <1>6, <1>7

\* The exit test, and the last iteration.
LEMMA EndIterationIInv == IInv /\ EndIteration => IInv'
<1> SUFFICES ASSUME IInv, EndIteration PROVE IInv'
  OBVIOUS
<1> USE DEF IInv
<1> DEFINE record == [over |-> Cardinality(OverUsed), routed |-> routedConnectionNum]
<1>1. /\ pc = "next" /\ c = NumConns
      /\ congestion' = Append(congestion, record)
      /\ \/ Converged /\ pc' = "end" /\ iter' = iter
         \/ /\ ~Converged /\ iter' = iter + 1
            /\ pc' = IF iter + 1 < MaxIter THEN "iterate" ELSE "end"
      /\ UNCHANGED <<enterable, connectionIdBase, routedConnectionNum, failRouteNum,
                     useOverlapRouting, mode, c, isVisited, isTarget, prev, queue,
                     rnode, rnodes, opened>>
  BY DEF EndIteration, searchVars, nodeInfos
<1>2. /\ iter \in 1..MaxIter /\ iter < MaxIter /\ MaxIter \in Nat /\ NumConns \in Nat
      /\ routedConnectionNum \in Nat /\ routedConnectionNum <= NumConns /\ failRouteNum \in Nat
      /\ failRouteNum <= NumConns
  BY <1>1, GraphAssumption DEF TypeOK, CountersBounded, InSearch, Iterating
<1>3. record \in [over : Nat, routed : Nat]
  <2>1. IsFiniteSet(OverUsed)
    <3>1. OverUsed \in SUBSET Nodes
      BY DEF OverUsed
    <3>2. QED  BY <3>1, FS_Subset, GraphAssumption
  <2>2. QED  BY <1>2, <2>1, FS_CardinalityType
<1> HIDE DEF record
<1>4. congestion \in Seq([over : Nat, routed : Nat])
  BY DEF TypeOK
<1>5. /\ congestion' \in Seq([over : Nat, routed : Nat])
      /\ Len(congestion') = Len(congestion) + 1 /\ Len(congestion) = iter - 1
      /\ \A i \in 1..Len(congestion) : congestion'[i] = congestion[i]
  <2>1. Len(congestion) = iter - 1
    BY <1>1 DEF ModeJustified, Iterating
  <2>2. QED  BY <1>1, <1>3, <1>4, <2>1, AppendProperties
<1>6. iter' \in 1..MaxIter
  BY <1>1, <1>2
<1>7. TypeOK'
  BY <1>1, <1>2, <1>5, <1>6 DEF TypeOK
<1>8. CountersBounded'
  BY <1>1, <1>2 DEF CountersBounded, InSearch, Iterating
<1>9. Searching'
  BY <1>1 DEF Searching
<1>10. RouteWellFormed'
  BY <1>1, RoutesKept
<1>11. FailuresCounted'
  <2>1. Converged' <=> Converged
    BY <1>1 DEF Converged, OverUsed, NodesOf
  <2>2. pc' = "end" => c' = NumConns /\ (iter' < MaxIter => Converged)
    BY <1>1, <1>2
  <2>3. QED  BY <1>1, <2>1, <2>2 DEF FailuresCounted, Iterating
<1>12. ModeJustified'
  <2>1. CASE pc' = "end"
    BY <1>1, <2>1 DEF ModeJustified, Iterating
  <2>2. CASE pc' = "iterate"
    <3>1. iter' = iter + 1
      BY <1>1, <2>2
    <3>2. ASSUME mode = "overlap", NEW i \in 3..(iter' - 2) PROVE Improved(i)'
      <4>1. i \in 3..(iter - 1) /\ i \in 1..Len(congestion) /\ i - 1 \in 1..Len(congestion)
        BY <1>2, <1>5, <3>1
      <4>2. Improved(i)
        BY <1>1, <3>2, <4>1 DEF ModeJustified, Iterating
      <4>3. QED  BY <1>5, <4>1, <4>2 DEF Improved
    <3>3. Len(congestion') = iter' - 1
      BY <1>2, <1>5, <3>1
    <3>4. QED  BY <1>1, <2>2, <3>2, <3>3 DEF ModeJustified, Iterating
  <2>3. QED  BY <1>1, <2>1, <2>2
<1>13. QED  BY <1>7, <1>8, <1>9, <1>10, <1>11, <1>12

\* What is saved has passed the assertions of saveAllRoutingSolutions.
LEMMA SaveIInv == IInv /\ Save => IInv'
<1> SUFFICES ASSUME IInv, Save PROVE IInv'
  OBVIOUS
<1> USE DEF IInv
<1>1. /\ pc = "end"
      /\ pc' = (IF \E d \in Conns : Len(rnodes[d]) < 2 \/ Congested(d) THEN "unsaved" ELSE "saved")
      /\ UNCHANGED <<enterable, iter, connectionIdBase, routedConnectionNum, failRouteNum,
                     useOverlapRouting, mode, congestion, c, isVisited, isTarget, prev, queue,
                     rnode, rnodes, opened>>
  BY DEF Save, counters, modes, searchVars, nodeInfos
<1>2. TypeOK' /\ CountersBounded' /\ Searching' /\ ModeJustified'
  BY <1>1 DEF TypeOK, CountersBounded, Searching, ModeJustified, InSearch, Iterating
<1>3. RouteWellFormed'
  BY <1>1, RoutesKept
<1>4. FailuresCounted'
  <2>1. ASSUME pc' = "saved" PROVE Complete'
    <3>1. \A d \in Conns : ~(Len(rnodes[d]) < 2) /\ ~Congested(d)
      BY <1>1, <2>1
    <3>2. \A d \in Conns : rnodes[d] # <<>>
      BY <3>1, EmptySeq
    <3>3. rnodes' = rnodes
      BY <1>1
    <3> HIDE DEF IInv
    <3>4. Complete
      BY <3>1, <3>2 DEF Complete
    <3>5. Complete' = Complete
      BY <3>3 DEF Complete, Congested, NodesOf
    <3>6. QED  BY <3>4, <3>5
  <2>2. QED  BY <1>1, <2>1 DEF FailuresCounted, Iterating
<1>5. QED  BY <1>2, <1>3, <1>4

\* The nodes that Expand pushes are new to the search and may be entered.
LEMMA PushedAreNew ==
  ASSUME IInv, pc = "search", NEW n \in opened, NEW m \in PushedChildren(n)
  PROVE  /\ m \in NodesOf(Children[n]) /\ m \in Nodes /\ m \in enterable[c]
         /\ isVisited[m] # connectionUniqueId /\ m \notin opened /\ m # Sink[c]
<1>1. n \in Nodes
  BY DEF IInv, TypeOK
<1>2. PICK i \in Unmarked(n) :
        m = Children[n][i] /\ \A h \in Unmarked(n) \cap (1..i) : Children[n][h] # Sink[c]
  BY DEF PushedChildren, SeenChildren
<1>3. Children[n] \in Seq(Nodes) /\ i \in 1..Len(Children[n]) /\ i \in 1..i
  <2>1. i \in 1..Len(Children[n]) /\ Children[n] \in Seq(Nodes)
    BY <1>1, <1>2, GraphAssumption DEF Unmarked
  <2>2. QED  BY <2>1
<1>4. m \in NodesOf(Children[n]) /\ m \in Nodes
  BY <1>2, <1>3, ElementOfSeq DEF NodesOf
<1>5. isVisited[m] # connectionUniqueId
  BY <1>2 DEF Unmarked
<1>6. m # Sink[c]
  BY <1>2, <1>3
<1>7. m \notin opened
  BY <1>5 DEF IInv, Searching, SearchTree
<1>8. m \in enterable[c]
  BY DEF PushedChildren, MayEnter
<1>9. QED  BY <1>4, <1>5, <1>6, <1>7, <1>8

\* The tree grows by leaves; the mark of the sink is never written.
LEMMA ExpandIInv == IInv /\ Expand => IInv'
<1> SUFFICES ASSUME IInv, Expand PROVE IInv'
  OBVIOUS
<1> USE DEF IInv
<1>1. PICK n \in queue :
        /\ isVisited' = [m \in Nodes |->
             IF m \in PushedChildren(n) THEN connectionUniqueId ELSE isVisited[m]]
        /\ isTarget' = [m \in Nodes |-> IF m \in PushedChildren(n) THEN -1 ELSE isTarget[m]]
        /\ prev' = [m \in Nodes |->
             IF m \in PushedChildren(n) \/ (m = Sink[c] /\ ReachesSink(n)) THEN n ELSE prev[m]]
        /\ queue' = (queue \ {n}) \cup PushedChildren(n)
        /\ opened' = opened \cup PushedChildren(n)
        /\ \/ pc' = "asserted" /\ rnode' = rnode
           \/ ReachesSink(n) /\ pc' = "save" /\ rnode' = Sink[c]
           \/ ~ReachesSink(n) /\ pc' = "search" /\ rnode' = rnode
  BY DEF Expand
<1>2. /\ pc = "search"
      /\ UNCHANGED <<enterable, iter, connectionIdBase, routedConnectionNum, failRouteNum,
                     useOverlapRouting, mode, congestion, c, rnodes>>
  BY DEF Expand, counters, modes
<1> DEFINE pushed == PushedChildren(n)
<1>3. /\ c \in Conns /\ c \in Nat /\ Source[c] \in Nodes /\ Sink[c] \in Nodes
      /\ connectionUniqueId \in Int /\ connectionUniqueId' = connectionUniqueId
  <2>1. c \in Conns
    BY <1>2 DEF CountersBounded, InSearch
  <2>2. c \in Nat /\ Source[c] \in Nodes /\ Sink[c] \in Nodes /\ NumConns \in Nat /\ Garbage \subseteq Int
    BY <2>1, GraphAssumption DEF Conns
  <2>3. routedConnectionNum \in Int /\ connectionIdBase \in Int
    BY <2>2 DEF TypeOK
  <2>4. QED  BY <1>2, <2>1, <2>2, <2>3 DEF connectionUniqueId
<1>4. SearchTree /\ NoLoop /\ Expanded /\ rnodes[c] = <<>>
  BY <1>2 DEF Searching
<1>5. /\ n \in opened /\ n \in Nodes /\ opened \subseteq Nodes /\ queue \subseteq opened
      /\ Sink[c] \notin opened /\ Source[c] \in opened
  BY <1>4 DEF SearchTree, TypeOK
<1>6. \A m \in pushed : /\ m \in NodesOf(Children[n]) /\ m \in Nodes /\ m \in enterable[c]
                       /\ isVisited[m] # connectionUniqueId /\ m \notin opened /\ m # Sink[c]
  BY <1>2, <1>5, PushedAreNew
<1>7. \A m \in opened : prev'[m] = prev[m] /\ isVisited'[m] = isVisited[m]
  BY <1>1, <1>5, <1>6
<1>8. \A m \in pushed : prev'[m] = n /\ isVisited'[m] = connectionUniqueId
  BY <1>1, <1>6
<1>9. TypeOK'
  <2>1. pushed \subseteq Nodes
    BY <1>6
  <2>2. isVisited' \in [Nodes -> Int] /\ isTarget' \in [Nodes -> Int]
    BY <1>1, <1>3 DEF TypeOK
  <2>3. prev' \in [Nodes -> Nodes \cup {NoNode}]
    BY <1>1, <1>5 DEF TypeOK
  <2>4. queue' \subseteq Nodes /\ opened' \subseteq Nodes /\ rnode' \in Nodes \cup {NoNode}
    BY <1>1, <1>3, <2>1 DEF TypeOK
  <2>5. pc' \in {"search", "save", "asserted"}
    BY <1>1
  <2>6. QED  BY <1>2, <2>2, <2>3, <2>4, <2>5 DEF TypeOK
<1>10. CountersBounded'
  BY <1>1, <1>2, <1>3 DEF CountersBounded, InSearch, Iterating
<1>11. SearchTree'
  <2>1. queue' \subseteq opened' /\ Source[c] \in opened' /\ Sink[c] \notin opened'
    BY <1>1, <1>5, <1>6
  <2>2. prev'[Source[c]] = NoNode
    BY <1>4, <1>5, <1>7 DEF SearchTree
  <2>3. \A m \in opened' : isVisited'[m] = connectionUniqueId
    BY <1>1, <1>4, <1>7, <1>8 DEF SearchTree
  <2>4. ASSUME NEW m \in opened' \ {Source[c]}
        PROVE  prev'[m] \in opened' /\ m \in NodesOf(Children[prev'[m]]) /\ m \in enterable[c]
    <3>1. CASE m \in opened
      BY <1>1, <1>4, <1>7, <2>4, <3>1 DEF SearchTree
    <3>2. CASE m \in pushed
      BY <1>1, <1>5, <1>6, <1>8, <3>2
    <3>3. QED  BY <1>1, <3>1, <3>2
  <2>5. QED  BY <1>2, <1>3, <2>1, <2>2, <2>3, <2>4 DEF SearchTree, NodesOf
<1>12. NoLoop'
  <2> SUFFICES ASSUME NEW S \in SUBSET opened', S # {} PROVE \E m \in S : prev'[m] \notin S
    BY DEF NoLoop
  <2>1. CASE S \cap opened = {}
    <3>1. PICK m \in S : m \in pushed
      BY <1>1, <2>1
    <3>2. prev'[m] = n /\ n \notin S
      BY <1>5, <1>8, <2>1, <3>1
    <3>3. QED  BY <3>1, <3>2
  <2>2. CASE S \cap opened # {}
    <3>1. PICK m \in S \cap opened : prev[m] \notin S \cap opened
      BY <1>4, <2>2 DEF NoLoop
    <3>2. CASE m = Source[c]
      <4>1. prev'[m] = NoNode
        BY <1>4, <1>7, <3>1, <3>2 DEF SearchTree
      <4>2. NoNode \notin S
        BY <1>9, GraphAssumption DEF TypeOK
      <4>3. QED  BY <3>1, <4>1, <4>2
    <3>3. CASE m # Source[c]
      <4>1. prev[m] \in opened
        BY <1>4, <3>1, <3>3 DEF SearchTree
      <4>2. QED  BY <1>7, <3>1, <4>1
    <3>4. QED  BY <3>2, <3>3
  <2>3. QED  BY <2>1, <2>2
<1>13. pc' = "save" => Backtracing'
  <2> SUFFICES ASSUME pc' = "save" PROVE Backtracing'
    OBVIOUS
  <2>1. ReachesSink(n) /\ rnode' = Sink[c] /\ rnodes'[c] = <<>>
    BY <1>1, <1>2, <1>4
  <2>2. prev'[Sink[c]] = n
    BY <1>1, <1>3, <2>1
  <2>3. Sink[c] \in NodesOf(Children[n])
    BY <2>1 DEF ReachesSink, Unmarked, NodesOf
  <2>4. n \in opened'
    BY <1>1, <1>5
  <2>5. Len(rnodes'[c]) = 0
    BY <2>1, EmptySeq
  <2>6. QED  BY <1>2, <2>1, <2>2, <2>3, <2>4, <2>5 DEF Backtracing, NodesOf
<1>14. pc' = "search" => Expanded'
  <2> SUFFICES ASSUME pc' = "search", NEW x \in opened' \ queue', NEW m \in NodesOf(Children[x]),
                      m \in Wires(c) \cup {Sink[c]}
               PROVE  isVisited'[m] = connectionUniqueId
    BY <1>2, <1>3 DEF Expanded, Wires, NodesOf
  <2>1. x \in opened /\ (x = n \/ x \notin queue)
    BY <1>1
  <2>2. m \in Nodes
    BY <1>5, <2>1, ChildrenAreNodes
  <2>3. CASE isVisited[m] = connectionUniqueId
    BY <1>1, <2>2, <2>3
  <2>4. CASE x # n
    BY <1>4, <2>1, <2>3, <2>4 DEF Expanded
  <2>5. CASE x = n /\ isVisited[m] # connectionUniqueId
    <3>1. ~ReachesSink(n)
      BY <1>1
    <3>2. PICK i \in 1..Len(Children[n]) : m = Children[n][i]
      BY <2>5 DEF NodesOf
    <3>3. i \in Unmarked(n) /\ \A h \in Unmarked(n) : Children[n][h] # Sink[c]
      BY <2>5, <3>1, <3>2 DEF Unmarked, ReachesSink
    <3>4. m \in SeenChildren(n) /\ m # Sink[c]
      BY <3>2, <3>3 DEF SeenChildren
    <3>5. MayEnter(m)
      BY <3>4 DEF MayEnter, Wires
    <3>6. m \in pushed
      BY <3>4, <3>5 DEF PushedChildren
    <3>7. QED  BY <1>8, <3>6
  <2>6. QED  BY <2>3, <2>4, <2>5
<1>15. Searching'
  BY <1>1, <1>2, <1>4, <1>11, <1>12, <1>13, <1>14 DEF Searching
<1>16. RouteWellFormed'
  <2> SUFFICES ASSUME NEW d \in Conns, rnodes[d] # <<>> PROVE WellFormed(d, rnodes[d])'
    BY <1>2 DEF RouteWellFormed, WellFormed
  <2>1. WellFormed(d, rnodes[d])
    BY <1>2 DEF RouteWellFormed, WellFormed
  <2>2. enterable' = enterable /\ rnodes' = rnodes
    BY <1>2
  <2> HIDE DEF IInv
  <2>3. QED  BY <2>1, <2>2 DEF WellFormed, NodesOf
<1>17. FailuresCounted' /\ ModeJustified'
  BY <1>1, <1>2 DEF FailuresCounted, ModeJustified, Iterating, Improved
<1>18. QED  BY <1>9, <1>10, <1>15, <1>16, <1>17

\* The backtrace follows the tree: it meets no node twice, so it comes to the
\* source before the watchdog counts as many nodes as there are.
LEMMA BacktraceIInv == IInv /\ Backtrace => IInv'
<1> SUFFICES ASSUME IInv, Backtrace PROVE IInv'
  OBVIOUS
<1> USE DEF IInv
<1> DEFINE p == rnodes[c]
           q == Append(p, rnode)
<1>1. /\ pc = "save" /\ c \in Conns
      /\ rnodes' = [rnodes EXCEPT ![c] = q] /\ rnode' = prev[rnode]
      /\ IF Len(rnodes'[c]) = WatchDog THEN pc' = "aborted" /\ UNCHANGED c
         ELSE IF prev[rnode] = NoNode THEN pc' = "next" /\ c' = c + 1
         ELSE UNCHANGED <<pc, c>>
      /\ UNCHANGED <<enterable, iter, connectionIdBase, routedConnectionNum, failRouteNum,
                     useOverlapRouting, mode, congestion, isVisited, isTarget, prev, queue, opened>>
  BY DEF Backtrace, counters, modes, nodeInfos, CountersBounded, InSearch
<1>2. /\ c \in Nat /\ c < NumConns /\ NumConns \in Nat /\ Source[c] \in Nodes
      /\ Sink[c] \in Nodes /\ Source[c] # Sink[c] /\ NoNode \notin Nodes
  BY <1>1, GraphAssumption DEF Conns
<1>3. SearchTree /\ NoLoop /\ Backtracing /\ opened \subseteq Nodes
  BY <1>1 DEF Searching, TypeOK
<1>4. /\ p \in Seq(Nodes) /\ Len(p) \in Nat
      /\ p = <<>> => Len(p) = 0
      /\ p # <<>> => Len(p) \in Nat \ {0}
  <2>1. p \in Seq(Nodes)
    BY <1>1 DEF TypeOK
  <2>2. QED  BY <2>1, LenProperties, EmptySeq
<1>5. rnode \in opened \cup {Sink[c]} /\ rnode \in Nodes
  BY <1>2, <1>3 DEF Backtracing
<1>6. /\ q \in Seq(Nodes) /\ Len(q) = Len(p) + 1 /\ q[Len(p) + 1] = rnode /\ q # <<>>
      /\ \A i \in 1..Len(p) : q[i] = p[i]
  BY <1>4, <1>5, AppendProperties
<1>7. rnodes'[c] = q /\ rnodes' \in [Conns -> Seq(Nodes)]
      /\ \A d \in Conns \ {c} : rnodes'[d] = rnodes[d]
  BY <1>1, <1>6 DEF TypeOK
<1> HIDE DEF q
<1>8. /\ Len(p) = 0 => rnode = Sink[c]
      /\ Len(p) # 0 => p[1] = Sink[c] /\ rnode = prev[p[Len(p)]] /\ rnode \in opened
      /\ \A i \in 1..Len(p) : i # 1 => p[i] \in opened \ {Source[c]}
      /\ \A i \in 1..(Len(p) - 1) : p[i + 1] = prev[p[i]]
      /\ \A i, j \in 1..Len(p) : p[i] = p[j] => i = j
  BY <1>3, <1>4 DEF Backtracing
<1>9. \A i \in 1..Len(p) : p[i] # rnode
  <2> SUFFICES ASSUME NEW i \in 1..Len(p), p[i] = rnode PROVE FALSE
    OBVIOUS
  <2>1. Len(p) # 0 /\ rnode \in opened /\ p[1] = Sink[c] /\ rnode = prev[p[Len(p)]]
    BY <1>4, <1>8
  <2>2. i # 1
    BY <1>3, <2>1 DEF SearchTree
  <2> DEFINE S == {p[k] : k \in i..Len(p)}
  <2>3. S \in SUBSET opened /\ S # {}
    <3>1. \A k \in i..Len(p) : k \in 1..Len(p) /\ k # 1
      BY <1>4, <2>2
    <3>2. \A k \in i..Len(p) : p[k] \in opened
      BY <1>8, <3>1
    <3>3. i \in i..Len(p)
      BY <1>4
    <3>4. QED  BY <3>2, <3>3
  <2>4. \A k \in i..Len(p) : prev[p[k]] \in S
    <3> SUFFICES ASSUME NEW k \in i..Len(p) PROVE prev[p[k]] \in S
      OBVIOUS
    <3>1. CASE k = Len(p)
      BY <1>4, <2>1, <3>1
    <3>2. CASE k # Len(p)
      <4>1. k \in 1..(Len(p) - 1) /\ k + 1 \in i..Len(p)
        BY <1>4, <3>2
      <4>2. p[k + 1] = prev[p[k]]
        BY <1>8, <4>1
      <4>3. QED  BY <4>1, <4>2
    <3>3. QED  BY <3>1, <3>2
  <2>5. \A x \in S : prev[x] \in S
    BY <2>4
  <2> HIDE DEF S
  <2>6. QED  BY <1>3, <2>3, <2>5 DEF NoLoop
<1>10. \A i, j \in 1..Len(q) : q[i] = q[j] => i = j
  <2>1. \A i \in 1..Len(q) : i \in 1..Len(p) \/ i = Len(p) + 1
    BY <1>4, <1>6
  <2>2. QED  BY <1>6, <1>8, <1>9, <2>1
<1>11. Cardinality(NodesOf(q)) = Len(q)
  BY <1>6, <1>10, DistinctCounted
<1>12. \/ prev[rnode] = NoNode /\ pc' = "next" /\ c' = c + 1
       \/ prev[rnode] # NoNode /\ pc' = "save" /\ c' = c
       \/ Len(q) = WatchDog /\ pc' = "aborted" /\ c' = c
  BY <1>1, <1>7
<1>13. TypeOK'
  <2>1. c' \in 0..NumConns /\ rnode' \in Nodes \cup {NoNode}
    BY <1>1, <1>2, <1>5, <1>12 DEF TypeOK
  <2>2. QED  BY <1>1, <1>7, <1>12, <2>1 DEF TypeOK
<1>14. CountersBounded'
  BY <1>1, <1>2, <1>12 DEF CountersBounded, InSearch, Iterating
<1>15. q[1] = Sink[c] /\ \A i \in 1..Len(q) : i # 1 => q[i] \in opened
  <2>1. CASE Len(p) = 0
    BY <1>6, <1>8, <2>1
  <2>2. CASE Len(p) # 0
    <3>1. q[1] = Sink[c]
      BY <1>4, <1>6, <1>8, <2>2
    <3>2. \A i \in 1..Len(q) : i \in 1..Len(p) \/ i = Len(p) + 1
      BY <1>4, <1>6
    <3>3. QED  BY <1>6, <1>8, <2>2, <3>1, <3>2
  <2>3. QED  BY <2>1, <2>2
<1>16. \A i \in 1..(Len(q) - 1) : q[i + 1] = prev[q[i]]
  <2> SUFFICES ASSUME NEW i \in 1..(Len(q) - 1) PROVE q[i + 1] = prev[q[i]]
    OBVIOUS
  <2>1. CASE i = Len(p)
    BY <1>4, <1>6, <1>8, <2>1
  <2>2. CASE i # Len(p)
    <3>1. i \in 1..(Len(p) - 1) /\ i \in 1..Len(p) /\ i + 1 \in 1..Len(p)
      BY <1>4, <1>6, <2>2
    <3>2. QED  BY <1>6, <1>8, <3>1
  <2>3. QED  BY <2>1, <2>2
<1>17. \A i \in 1..(Len(q) - 1) :
         q[i] \in NodesOf(Children[q[i + 1]]) /\ (i # 1 => q[i] \in enterable[c] /\ q[i] # Source[c])
  <2> SUFFICES ASSUME NEW i \in 1..(Len(q) - 1)
               PROVE  /\ q[i] \in NodesOf(Children[q[i + 1]])
                      /\ i # 1 => q[i] \in enterable[c] /\ q[i] # Source[c]
    OBVIOUS
  <2>1. CASE i = 1
    BY <1>3, <1>15, <1>16, <2>1 DEF Backtracing
  <2>2. CASE i # 1
    <3>1. i \in 1..Len(p) /\ q[i] = p[i]
      BY <1>4, <1>6
    <3>2. q[i] \in opened \ {Source[c]}
      BY <1>8, <2>2, <3>1
    <3>3. QED  BY <1>3, <1>16, <2>2, <3>2 DEF SearchTree
  <2>3. QED  BY <2>1, <2>2
<1>18. CASE prev[rnode] = NoNode /\ pc' = "next" /\ c' = c + 1
  <2>1. rnode = Source[c]
    <3>1. rnode # Sink[c]
      BY <1>2, <1>3, <1>18 DEF Backtracing
    <3>2. QED  BY <1>2, <1>3, <1>5, <1>18, <3>1 DEF SearchTree
  <2>2. Len(q) > 1 /\ q[Len(q)] = Source[c]
    BY <1>2, <1>4, <1>6, <1>8, <2>1
  <2>3. WellFormed(c, q)
    <3>1. \A i \in 2..(Len(q) - 1) : i \in 1..(Len(q) - 1) /\ i # 1
      BY <1>4, <1>6
    <3>2. QED  BY <1>11, <1>15, <1>17, <2>2, <3>1 DEF WellFormed
  <2>4. RouteWellFormed'
    <3> SUFFICES ASSUME NEW d \in Conns, rnodes'[d] # <<>> PROVE WellFormed(d, rnodes[d])'
      BY DEF RouteWellFormed, WellFormed
    <3>1. enterable' = enterable
      BY <1>1
    <3>2. WellFormed(d, rnodes'[d])
      <4>1. CASE d = c
        BY <1>7, <2>3, <4>1
      <4>2. CASE d # c
        <5>1. rnodes'[d] = rnodes[d]
          BY <1>7, <4>2
        <5>2. QED  BY <4>2, <5>1 DEF RouteWellFormed, WellFormed
      <4>3. QED  BY <4>1, <4>2
    <3>3. WellFormed(d, rnodes[d])' = WellFormed(d, rnodes'[d])
      BY <3>1 DEF WellFormed, NodesOf
    <3>4. QED  BY <3>2, <3>3
  <2>5. Searching' /\ ModeJustified'
    BY <1>1, <1>18 DEF Searching, ModeJustified, Iterating, Improved
  <2>6. FailuresCounted'
    <3>1. \A d \in Conns : d < c + 1 => d < c \/ d = c
      BY <1>2 DEF Conns
    <3>2. QED  BY <1>1, <1>6, <1>7, <1>18, <3>1 DEF FailuresCounted, Iterating
  <2>7. QED  BY <1>13, <1>14, <2>4, <2>5, <2>6
<1>19. CASE prev[rnode] # NoNode /\ pc' = "save" /\ c' = c
  <2>1. rnode # Source[c]
    BY <1>3, <1>19 DEF SearchTree
  <2>2. prev[rnode] \in opened
    BY <1>3, <1>5, <2>1 DEF SearchTree, Backtracing
  <2>3. \A i \in 1..Len(q) : i # 1 => q[i] \in opened \ {Source[c]}
    <3>1. \A i \in 1..Len(q) : i \in 1..(Len(q) - 1) \/ q[i] = rnode
      BY <1>4, <1>6
    <3>2. QED  BY <1>15, <1>17, <2>1, <3>1
  <2>4. rnode' = prev[q[Len(q)]] /\ q[Len(q)] = rnode
    BY <1>1, <1>6
  <2>5. Backtracing'
    <3>1. /\ prev' = prev /\ opened' = opened /\ c' = c /\ rnodes'[c] = q /\ rnode' \in opened
      BY <1>1, <1>7, <1>19, <2>2
    <3>2. prev[Sink[c]] \in opened /\ Sink[c] \in NodesOf(Children[prev[Sink[c]]])
      BY <1>3 DEF Backtracing
    <3> HIDE DEF IInv
    <3>3. QED  BY <1>6, <1>10, <1>15, <1>16, <2>3, <2>4, <3>1, <3>2 DEF Backtracing, NodesOf
  <2>6. SearchTree' /\ NoLoop'
    <3>1. UNCHANGED <<queue, opened, prev, isVisited, enterable, c, connectionIdBase>>
      BY <1>1, <1>19
    <3>2. QED  BY <1>3, <3>1 DEF SearchTree, NoLoop, connectionUniqueId, NodesOf
  <2>7. Searching'
    BY <1>19, <2>5, <2>6 DEF Searching
  <2>8. RouteWellFormed'
    <3> SUFFICES ASSUME NEW d \in Conns \ {c}, rnodes'[d] # <<>> PROVE WellFormed(d, rnodes[d])'
      BY <1>19 DEF RouteWellFormed, WellFormed
    <3>1. rnodes'[d] = rnodes[d] /\ enterable' = enterable
      BY <1>1, <1>7
    <3>2. WellFormed(d, rnodes[d])
      BY <3>1 DEF RouteWellFormed, WellFormed
    <3> HIDE DEF IInv
    <3>3. QED  BY <3>1, <3>2 DEF WellFormed, NodesOf
  <2>9. FailuresCounted' /\ ModeJustified'
    <3>1. \A d \in Conns : d < c => rnodes'[d] = rnodes[d]
      BY <1>2, <1>7
    <3>2. QED  BY <1>1, <1>19, <3>1 DEF FailuresCounted, ModeJustified, Iterating, Improved
  <2>10. QED  BY <1>13, <1>14, <2>7, <2>8, <2>9
<1>20. CASE Len(q) = WatchDog /\ pc' = "aborted" /\ c' = c
  <2>1. Searching'
    <3>1. rnodes'[c'] = q
      BY <1>7, <1>20
    <3>2. Cardinality(NodesOf(rnodes[c]))' = Cardinality(NodesOf(q))
      BY <3>1 DEF NodesOf
    <3> HIDE DEF IInv
    <3>3. (pc' = "aborted") /\ Cardinality(NodesOf(rnodes[c]))' = WatchDog
      BY <1>11, <1>20, <3>2
    <3>4. pc' \notin {"search", "save", "asserted"}
      BY <3>3
    <3>5. (pc = "aborted" => Cardinality(NodesOf(rnodes[c])) = WatchDog)'
      BY <3>3
    <3>6. QED  BY <3>4, <3>5, Zenon DEF Searching
  <2>2. RouteWellFormed'
    <3> SUFFICES ASSUME NEW d \in Conns \ {c}, rnodes'[d] # <<>> PROVE WellFormed(d, rnodes[d])'
      BY <1>20 DEF RouteWellFormed, WellFormed
    <3>1. rnodes'[d] = rnodes[d] /\ enterable' = enterable
      BY <1>1, <1>7
    <3>2. WellFormed(d, rnodes[d])
      BY <3>1 DEF RouteWellFormed, WellFormed
    <3> HIDE DEF IInv
    <3>3. QED  BY <3>1, <3>2 DEF WellFormed, NodesOf
  <2>3. FailuresCounted' /\ ModeJustified'
    BY <1>1, <1>20 DEF FailuresCounted, ModeJustified, Iterating, Improved
  <2>4. QED  BY <1>13, <1>14, <2>1, <2>2, <2>3
<1>21. QED  BY <1>12, <1>18, <1>19, <1>20

LEMMA NextIInv == IInv /\ [Next]_vars => IInv'
<1> SUFFICES ASSUME IInv, [Next]_vars PROVE IInv'
  OBVIOUS
<1>1. CASE UNCHANGED vars
  <2>1. UNCHANGED <<enterable, iter, connectionIdBase, routedConnectionNum, failRouteNum,
                    useOverlapRouting, mode, congestion, c, pc, isVisited, isTarget, prev,
                    queue, rnode, rnodes, opened>>
    BY <1>1 DEF vars, counters, modes, searchVars, nodeInfos
  <2>2. TypeOK' /\ CountersBounded' /\ ModeJustified'
    BY <2>1 DEF IInv, TypeOK, CountersBounded, ModeJustified, InSearch, Iterating, Improved
  <2>3. Searching'
    <3>1. SearchTree' = SearchTree /\ NoLoop' = NoLoop /\ Expanded' = Expanded
      BY <2>1 DEF SearchTree, NoLoop, Expanded, Wires, connectionUniqueId, NodesOf
    <3>2. Backtracing' = Backtracing /\ NodesOf(rnodes[c])' = NodesOf(rnodes[c])
      BY <2>1 DEF Backtracing, NodesOf
    <3>3. Searching
      BY DEF IInv
    <3>4. QED  BY <2>1, <3>1, <3>2, <3>3 DEF Searching
  <2>4. RouteWellFormed'
    <3> SUFFICES ASSUME NEW d \in Conns, rnodes[d] # <<>>, ~(pc \in {"save", "aborted"} /\ c = d)
                 PROVE  WellFormed(d, rnodes[d])'
      BY <2>1 DEF RouteWellFormed, WellFormed
    <3>1. WellFormed(d, rnodes[d])
      BY DEF IInv, RouteWellFormed, WellFormed
    <3>2. QED  BY <2>1, <3>1 DEF WellFormed, NodesOf
  <2>5. FailuresCounted'
    <3>1. Complete' = Complete
      BY <2>1 DEF Complete, Congested, NodesOf
    <3>2. Converged' = Converged
      BY <2>1 DEF Converged, OverUsed, NodesOf
    <3>3. QED  BY <2>1, <3>1, <3>2 DEF IInv, FailuresCounted, Iterating
  <2>6. QED  BY <2>2, <2>3, <2>4, <2>5 DEF IInv
<1>2. QED  BY <1>1, StartIterationIInv, KeepIInv, StartSearchIInv, ExpandIInv, FailIInv,
              BacktraceIInv, EndIterationIInv, SaveIInv DEF Next

-----------------------------------------------------------------------------

\* The nodes of a search that has run empty cannot be left.
LEMMA IInvFailsOnlyIfUnreachable == IInv => FailsOnlyIfUnreachable
<1> SUFFICES ASSUME IInv, pc = "search", queue = {}, MarkedOnlyByThisSearch, Reaches(c)
             PROVE  FALSE
  BY DEF FailsOnlyIfUnreachable
<1>1. /\ SearchTree /\ Expanded /\ c \in Conns /\ opened \subseteq Nodes
      /\ Sink[c] \in Nodes /\ Source[c] \in Nodes
  BY GraphAssumption DEF IInv, Searching, CountersBounded, InSearch, TypeOK
<1>2. \A n \in opened : \A m \in NodesOf(Children[n]) :
        /\ m \in Wires(c) => m \in opened
        /\ m # Sink[c]
  <2> SUFFICES ASSUME NEW n \in opened, NEW m \in NodesOf(Children[n]),
                      m \in Wires(c) \cup {Sink[c]}
               PROVE  m \in opened /\ m # Sink[c]
    OBVIOUS
  <2>1. m \in Nodes
    BY <1>1, ChildrenAreNodes
  <2>2. isVisited[m] = connectionUniqueId
    BY <1>1 DEF Expanded
  <2>3. m \in opened
    BY <2>1, <2>2 DEF MarkedOnlyByThisSearch
  <2>4. QED  BY <1>1, <2>3 DEF SearchTree
<1> DEFINE S == opened \cap (Wires(c) \cup {Source[c]})
<1>3. S \in SUBSET (Wires(c) \cup {Source[c]}) /\ Source[c] \in S
  BY <1>1 DEF SearchTree
<1>4. Closed(S, c)
  BY <1>2 DEF Closed
<1>5. PICK n \in S : Sink[c] \in NodesOf(Children[n])
  <2> HIDE DEF S
  <2>1. QED  BY <1>3, <1>4 DEF Reaches
<1>6. QED  BY <1>2, <1>5

\* Reaches is reachability: a path through nodes that may be entered is
\* enough for it.
IsPath(d, k, p) ==
  /\ p[1] = Source[d] /\ Sink[d] \in NodesOf(Children[p[k]])
  /\ \A i \in 2..k : p[i] \in Wires(d) \cap NodesOf(Children[p[i - 1]])

LEMMA PathReaches ==
  ASSUME NEW d \in Conns, NEW k \in Nat \ {0}, NEW p \in [1..k -> Nodes], IsPath(d, k, p)
  PROVE  Reaches(d)
<1> SUFFICES ASSUME NEW S \in SUBSET (Wires(d) \cup {Source[d]}), Source[d] \in S, Closed(S, d)
             PROVE  p[k] \in S
  BY DEF Reaches, IsPath
<1> DEFINE T == {i \in Nat : 1 <= i /\ i <= k /\ p[i] \notin S}
<1>1. SUFFICES ASSUME T # {} PROVE FALSE
  OBVIOUS
<1>2. PICK i \in T : \A h \in T : ~(<<h, i>> \in OpToRel(<, Nat))
  BY <1>1, NatLessThanWellFounded, WFMin, T \subseteq Nat
<1>3. i # 1
  BY <1>2 DEF IsPath
<1>4. i - 1 \in Nat /\ 1 <= i - 1 /\ i - 1 <= k /\ i \in 2..k
  BY <1>3
<1>5. p[i - 1] \in S
  <2>1. <<i - 1, i>> \in OpToRel(<, Nat)
    BY <1>4 DEF OpToRel
  <2>2. i - 1 \notin T
    BY <1>2, <2>1
  <2>3. QED  BY <1>4, <2>2
<1>6. p[i] \in Wires(d) \cap NodesOf(Children[p[i - 1]])
  BY <1>4 DEF IsPath
<1>7. QED  BY <1>5, <1>6 DEF Closed

\* Nothing is over used at a loop that has converged.
LEMMA IInvConvergedMeansRouted == IInv => ConvergedMeansRouted
<1> SUFFICES ASSUME IInv PROVE ConvergedMeansRouted
  OBVIOUS
<1>1. ASSUME pc = "end", iter < MaxIter, mode = "tree" PROVE Complete
  <2>1. c = NumConns /\ Converged
    BY <1>1 DEF IInv, FailuresCounted
  <2>2. \A d \in Conns : d < c => rnodes[d] # <<>>
    BY <1>1, <2>1 DEF IInv, FailuresCounted, Iterating, Converged
  <2>3. \A d \in Conns : d < c
    BY <2>1, GraphAssumption DEF Conns
  <2>4. \A d \in Conns : ~Congested(d)
    <3> SUFFICES ASSUME NEW d \in Conns, NEW e \in Conns, NetOf[e] # NetOf[d],
                        NEW n \in NodesOf(rnodes[e]) \cap NodesOf(rnodes[d])
                 PROVE  FALSE
      BY DEF Congested
    <3>1. n \in Nodes
      BY RoutesAreNodes DEF IInv
    <3>2. n \in OverUsed
      BY <3>1 DEF OverUsed
    <3>3. QED  BY <2>1, <3>2 DEF Converged
  <2>5. QED  BY <2>2, <2>3, <2>4 DEF Complete
<1>2. pc = "saved" => Complete
  BY DEF IInv, FailuresCounted
<1>3. QED  BY <1>1, <1>2 DEF ConvergedMeansRouted

LEMMA IInvOverlapOnlyWhileImproving == IInv => OverlapOnlyWhileImproving
  BY DEF IInv, ModeJustified, OverlapOnlyWhileImproving, Iterating, Improved

-----------------------------------------------------------------------------

\* The inductive invariant holds in every state of the routing loop, and with
\* it every variable has its type.
THEOREM RouterInvariant == Spec => []IInv
<1>1. QED  BY InitIInv, NextIInv, PTL DEF Spec

\* Whatever the graph and whatever old searches have left in the array, a
\* stored route is a simple path from the source to the sink
\* (aStarRoute.cpp:701-733).
THEOREM RoutesAreWellFormed == Spec => []RouteWellFormed
<1>1. IInv => RouteWellFormed
  BY DEF IInv
<1>2. QED  BY <1>1, RouterInvariant, PTL

\* The watchdog of the backtrace ends the program only over as many different
\* nodes as it has turns, never because back pointers lead in circles
\* (aStarRoute.cpp:710-724).
THEOREM WatchdogMeetsNoLoop == Spec => [](pc = "aborted" => Cardinality(NodesOf(rnodes[c])) = WatchDog)
<1>1. IInv => (pc = "aborted" => Cardinality(NodesOf(rnodes[c])) = WatchDog)
  BY DEF IInv, Searching
<1>2. QED  BY <1>1, RouterInvariant, PTL

\* A search that meets no foreign mark gives up only when the sink cannot be
\* reached (aStarRoute.cpp:507-628).
THEOREM GivesUpOnlyIfUnreachable == Spec => []FailsOnlyIfUnreachable
<1>1. QED  BY IInvFailsOnlyIfUnreachable, RouterInvariant, PTL

\* In such a search no path of any length has been overlooked.
NoPathOverlooked ==
  pc = "search" /\ queue = {} /\ MarkedOnlyByThisSearch =>
    \A k \in Nat \ {0} : \A p \in [1..k -> Nodes] : ~IsPath(c, k, p)
THEOREM SearchOverlooksNoPath == Spec => []NoPathOverlooked
<1>1. IInv => NoPathOverlooked
  <2> SUFFICES ASSUME IInv, pc = "search", queue = {}, MarkedOnlyByThisSearch,
                      NEW k \in Nat \ {0}, NEW p \in [1..k -> Nodes], IsPath(c, k, p)
               PROVE  FALSE
    BY DEF NoPathOverlooked
  <2>1. c \in Conns
    BY DEF IInv, CountersBounded, InSearch
  <2>2. Reaches(c)
    BY <2>1, PathReaches
  <2>3. QED  BY <2>2, IInvFailsOnlyIfUnreachable DEF FailsOnlyIfUnreachable
<1>2. QED  BY <1>1, RouterInvariant, PTL

\* A loop that ends early over the tree, and a routing that is saved, are
\* complete and legal (aStarRoute.cpp:130, 232-279).
THEOREM ConvergenceMeansRouted == Spec => []ConvergedMeansRouted
<1>1. QED  BY IInvConvergedMeansRouted, RouterInvariant, PTL

\* After its third iteration the router stays overlapped only while every
\* iteration has taken away a fifth of the congestion (aStarRoute.cpp:75-92).
THEOREM OverlapIsJustified == Spec => []OverlapOnlyWhileImproving
<1>1. QED  BY IInvOverlapOnlyWhileImproving, RouterInvariant, PTL

=============================================================================
