----------------------------- MODULE StableFirst ----------------------------
(***************************************************************************)
(* The stable-first parallel router: stableFirstParallelRouting and its    *)
(* three workers (src/src/route/stableFirstRouting.cpp) with the           *)
(* synchronized rip-up and re-route of one connection                      *)
(* (src/src/route/aStarRoute.cpp, sync = true).  A batch of nets is routed *)
(* in three fork/join rounds: route against the occupancies of the last    *)
(* barrier, apply the deferred changes net by net, re-price the nodes.     *)
(*                                                                         *)
(* Nothing that one thread writes in the first round is read by another,   *)
(* so a connection is one step.  Users, prices and paths are those of      *)
(* RuntimeFirst.                                                           *)
(***************************************************************************)
EXTENDS NetUsers, Sequences, FiniteSets, FiniteSetsExt

CONSTANTS
  Nodes, Nets, Conns, Threads,
  NetOf, Sink, Paths, PinBounce, StaleTargets,  \* as in RuntimeFirst
  ConnSeq,      \* ConnSeq[net]: the connections of net, in their order
  NumBatches,
  BatchNets,    \* BatchNets[b][t]: the nets of batch b that thread t routes
  Labeled,      \* the connections of the labeled nets, routed after the batches
  NodeOwner,  \* NodeOwner[n]: the thread that prices n (rnodeId mod numThread)
  InitiallyRouted, \* the sets of connections that isRouted, which is not
                   \* initialized, may mark at the start
  MaxIter       \* bound on the number of iterations

Sinks == {Sink[c] : c \in Conns}
Batches == 0..(NumBatches - 1)
ConnsOf(net) == {c \in Conns : NetOf[c] = net}
NodesOf(p) == {p[i] : i \in 1..Len(p)}

ASSUME InputAssumption ==
  /\ IsFiniteSet(Nets) /\ IsFiniteSet(Conns) /\ IsFiniteSet(Threads)
  /\ NetOf \in [Conns -> Nets] /\ Sink \in [Conns -> Nodes]
  /\ \A c, d \in Conns : c # d => Sink[c] # Sink[d]
  /\ \A c \in Conns : \A p \in Paths[c] :
       p \in Seq(Nodes) /\ p # <<>> /\ p[1] = Sink[c] /\ Cardinality(NodesOf(p)) = Len(p)
  /\ \A net \in Nets : ConnSeq[net] \in Seq(ConnsOf(net)) /\ NodesOf(ConnSeq[net]) = ConnsOf(net)
  /\ \A net \in Nets : \A i, j \in 1..Len(ConnSeq[net]) : ConnSeq[net][i] = ConnSeq[net][j] => i = j
  /\ NodeOwner \in [Nodes -> Threads] /\ StaleTargets \in [Conns -> SUBSET Sinks]

\* Each net is once in one batch of one thread, or is labeled as a whole.
ASSUME BatchAssumption ==
  /\ NumBatches \in Nat \ {0}
  /\ BatchNets \in [Batches -> [Threads -> Seq(Nets)]]
  /\ Labeled \in Seq(Conns)
  /\ \A c \in NodesOf(Labeled) : ConnsOf(NetOf[c]) \subseteq NodesOf(Labeled)
  /\ \A net \in Nets : ConnsOf(net) \subseteq NodesOf(Labeled) <=>
       \A b \in Batches : \A t \in Threads : net \notin NodesOf(BatchNets[b][t])
  /\ \A b1, b2 \in Batches : \A t1, t2 \in Threads :
       \A i \in 1..Len(BatchNets[b1][t1]) : \A j \in 1..Len(BatchNets[b2][t2]) :
         BatchNets[b1][t1][i] = BatchNets[b2][t2][j] => b1 = b2 /\ t1 = t2 /\ i = j

ASSUME BoundsAssumption == InitiallyRouted \subseteq SUBSET Conns /\ MaxIter \in Nat \ {0}

VARIABLES
  rnodes, isRouted, users, occ, priced,   \* as in RuntimeFirst
  stamp,       \* stamp[n]: needUpdateBatchStamp
  toDec,       \* toDec[net][n]: userConnectionToDecrement, 0 if absent
  toInc,       \* toInc[net][n]: userConnectionToIncrement, 0 if absent
  occChange,   \* occChange[t][n]: a stamped change of occupancy (NodeInfo)
  usedBefore,  \* usedBefore[t]: the nodes its net used before it is re-routed
  phase, batch, iter,
  labeledPos,  \* the next connection of Labeled
  failRouteNum,
  pc, netPos, connPos,   \* each thread, its net in the batch, its connection
  barrier,     \* history: routes and occupancies at the last barrier
  failedSinks  \* history: the sinks for which a search has failed

netVars == <<rnodes, isRouted, users>>
history == <<barrier, failedSinks>>
nodeVars == <<occ, priced, stamp>>
deferred == <<toDec, toInc, occChange, usedBefore>>
loopVars == <<phase, batch, iter, labeledPos, failRouteNum, history>>
threadVars == <<pc, netPos, connPos>>
vars == <<netVars, nodeVars, deferred, loopVars, threadVars>>

None == [n \in Nodes |-> 0]

Init ==
  /\ rnodes = [c \in Conns |-> <<>>]
  /\ isRouted \in {[c \in Conns |-> c \in marked] : marked \in InitiallyRouted}
  /\ users = [net \in Nets |-> [n \in {Sink[c] : c \in ConnsOf(net)} |-> 1]]
  /\ occ = [n \in Nodes |-> IF n \in Sinks THEN 1 ELSE 0]
  /\ priced = occ
  /\ stamp = [n \in Nodes |-> -1]
  /\ toDec = [net \in Nets |-> None]
  /\ toInc = [net \in Nets |-> None]
  /\ occChange = [t \in Threads |-> [n \in Nodes |-> [stamp |-> -1, change |-> 0]]]
  /\ usedBefore = [t \in Threads |-> {}]
  /\ phase = "route" /\ batch = 0 /\ iter = 1 /\ labeledPos = 1 /\ failRouteNum = 0
  /\ pc = [t \in Threads |-> "net"]
  /\ netPos = [t \in Threads |-> 1]
  /\ connPos = [t \in Threads |-> 1]
  /\ failedSinks = {}
  /\ barrier = [routes |-> rnodes, occ |-> occ, exact |-> failedSinks = {}]

\* Stamps grow from batch to batch and are never reused.
currentBatchStamp == iter * NumBatches + batch

Work(t) == BatchNets[batch][t]
Net(t) == Work(t)[netPos[t]]
Conn(t) == ConnSeq[Net(t)][connPos[t]]

\* Slip: a full node counts as a congested one.
ShouldRouteIfFull(c) == ~isRouted[c] \/ \E n \in NodesOf(rnodes[c]) : occ[n] >= 1

ShouldRoute(c) == ~isRouted[c] \/ \E n \in NodesOf(rnodes[c]) : occ[n] > 1
RipNodes(c) == IF rnodes[c] = <<>> THEN <<Sink[c]>> ELSE rnodes[c]

\* isAccessiblePinfeedI, against the users m of the net: a counted pin bounce,
\* or any sink whose target mark is taken for one of this search.
AccessibleFor(c, p, m) ==
  \A n \in NodesOf(p) \ {Sink[c]} : n \in Sinks =>
    n \in StaleTargets[c] \/ (n \in PinBounce /\ Count(m, n) # 0)
Accessible(c, p) == AccessibleFor(c, p, users[NetOf[c]])

\* Slip: a node that two connections share is deferred once.
CountedAtMostOnce(counts, p) == [n \in Nodes |-> IF n \in NodesOf(p) THEN 1 ELSE counts[n]]

\* counts plus one for every node of the sequence p
CountedOnce(counts, p) == [n \in Nodes |-> counts[n] + (IF n \in NodesOf(p) THEN 1 ELSE 0)]

-----------------------------------------------------------------------------
\* Round 1: routeWorker.

\* Slip: the decrements of the last iteration stay.
KeepPreDecrement(net) == toDec

clearPreDecrement(net) == [toDec EXCEPT ![net] = None]

\* Clear the deferred changes of the net and remember the nodes it uses.
BeginNet(t) ==
  /\ phase = "route" /\ pc[t] = "net"
  /\ netPos[t] <= Len(Work(t))
  /\ toDec' = clearPreDecrement(Net(t))
  /\ toInc' = [toInc EXCEPT ![Net(t)] = None]
  /\ usedBefore' = [usedBefore EXCEPT ![t] =
                      UNION {NodesOf(rnodes[c]) : c \in ConnsOf(Net(t))}]
  /\ pc' = [pc EXCEPT ![t] = "conn"]
  /\ connPos' = [connPos EXCEPT ![t] = 1]
  /\ UNCHANGED <<netVars, nodeVars, occChange, loopVars, netPos>>

\* ripup(connection, true): every node is pre-decremented.
PreRipped(c) == CountedOnce(toDec[NetOf[c]], RipNodes(c))

\* preDecrementUser asserts that no more is given back than is counted.
PreDecrementAsserts(c) ==
  \A n \in NodesOf(RipNodes(c)) : PreRipped(c)[n] <= Count(users[NetOf[c]], n)

AdvanceConn(t) ==
  /\ connPos' = [connPos EXCEPT ![t] = @ + 1]
  /\ pc' = [pc EXCEPT ![t] = IF connPos[t] = Len(ConnSeq[Net(t)]) THEN "endNet" ELSE "conn"]
  /\ UNCHANGED netPos

KeepConnection(t) ==
  /\ phase = "route" /\ pc[t] = "conn"
  /\ ~ShouldRoute(Conn(t))
  /\ AdvanceConn(t)
  /\ UNCHANGED <<netVars, nodeVars, deferred, loopVars>>

\* Rip the connection up and search: a path is stored and pre-incremented, a
\* failure leaves the connection without a route and is only logged.
RouteConnection(t) ==
  LET c == Conn(t)
      net == NetOf[c] IN
  /\ phase = "route" /\ pc[t] = "conn"
  /\ ShouldRoute(c) /\ PreDecrementAsserts(c)
  /\ toDec' = [toDec EXCEPT ![net] = PreRipped(c)]
  /\ \/ \E p \in Paths[c] :
          /\ Accessible(c, p)
          /\ rnodes' = [rnodes EXCEPT ![c] = p]
          /\ isRouted' = [isRouted EXCEPT ![c] = TRUE]
          /\ toInc' = [toInc EXCEPT ![net] = CountedOnce(@, p)]
          /\ UNCHANGED failedSinks
     \/ /\ rnodes' = [rnodes EXCEPT ![c] = <<>>]
        /\ isRouted' = [isRouted EXCEPT ![c] = FALSE]
        /\ failedSinks' = failedSinks \cup {Sink[c]}
        /\ UNCHANGED toInc
  /\ AdvanceConn(t)
  /\ UNCHANGED <<users, nodeVars, occChange, usedBefore, phase, batch, iter, labeledPos,
                 failRouteNum, barrier>>

AssertPreDecrement(t) ==
  /\ phase = "route" /\ pc[t] = "conn"
  /\ ShouldRoute(Conn(t)) /\ ~PreDecrementAsserts(Conn(t))
  /\ phase' = "batchAborted"
  /\ UNCHANGED <<netVars, nodeVars, deferred, batch, iter, labeledPos, failRouteNum,
                 history, threadVars>>

\* incOccChange / decOccChange: d added to a record of this batch, or a new one.
Stamped(record, d) ==
  [stamp |-> currentBatchStamp,
   change |-> d + (IF record.stamp = currentBatchStamp THEN record.change ELSE 0)]

\* One increment per connection that has come to a node its net did not use.
Arrivals(t, n) ==
  IF n \in usedBefore[t] THEN 0
  ELSE Cardinality({c \in ConnsOf(Net(t)) : n \in NodesOf(rnodes[c])})

\* Slip: the net counts as gone when one of its connections is.
LeftBySome(t, n) ==
  /\ n \in usedBefore[t]
  /\ \E c \in ConnsOf(Net(t)) : n \notin NodesOf(rnodes[c])

\* No connection of the net has stayed at a node it used.
Left(t, n) ==
  /\ n \in usedBefore[t]
  /\ \A c \in ConnsOf(Net(t)) : n \notin NodesOf(rnodes[c])

EndNet(t) ==
  /\ phase = "route" /\ pc[t] = "endNet"
  /\ occChange' = [occChange EXCEPT ![t] = [n \in Nodes |->
       IF Arrivals(t, n) > 0 THEN Stamped(@[n], Arrivals(t, n))
       ELSE IF Left(t, n) THEN Stamped(@[n], -1)
       ELSE @[n]]]
  /\ netPos' = [netPos EXCEPT ![t] = @ + 1]
  /\ pc' = [pc EXCEPT ![t] = "net"]
  /\ UNCHANGED <<netVars, nodeVars, toDec, toInc, usedBefore, loopVars, connPos>>

\* A round is over when every worker has returned and is joined.
WorkersDone == \A t \in Threads : netPos[t] > Len(Work(t)) /\ pc[t] = "net"

JoinRoute ==
  /\ phase = "route" /\ WorkersDone
  /\ phase' = "updateNets"
  /\ netPos' = [t \in Threads |-> 1]
  /\ UNCHANGED <<netVars, nodeVars, deferred, batch, iter, labeledPos, failRouteNum,
                 history, pc, connPos>>

-----------------------------------------------------------------------------
\* Round 2: updateNetsWorker, the increments of a net before its decrements.

\* Slip: a node that two connections come to is no new node of the net.
ComeToAlone(net, n) == toInc[net][n] = 1 /\ NewlyAdded(users[net], n)

\* updatePreIncrement creates the keys of the nodes the net did not use.
ComeTo(net, n) == toInc[net][n] > 0 /\ NewlyAdded(users[net], n)

ApplyIncrements(t) ==
  LET net == Net(t)
      more == {n \in Nodes : toInc[net][n] > 0}
      new == {n \in Nodes : ComeTo(net, n)} IN
  /\ phase = "updateNets" /\ pc[t] = "net"
  /\ netPos[t] <= Len(Work(t))
  /\ users' = [users EXCEPT ![net] =
       [n \in DOMAIN @ \cup more |-> Count(@, n) + toInc[net][n]]]
  /\ occ' = [n \in Nodes |-> IF n \in new THEN occ[n] + 1 ELSE occ[n]]
  /\ stamp' = [n \in Nodes |-> IF n \in new THEN currentBatchStamp ELSE stamp[n]]
  /\ pc' = [pc EXCEPT ![t] = "decrement"]
  /\ UNCHANGED <<rnodes, isRouted, priced, deferred, loopVars, netPos, connPos>>

\* Slip: the key is erased at a count of 1 only.
GivenUpAtOne(net, n) == toDec[net][n] > 0 /\ Erased(users[net], n)

\* updatePreDecrement asserts again that no more is given back than is counted.
DecrementAsserts(net) == \A n \in Nodes : toDec[net][n] <= Count(users[net], n)

\* It erases the keys whose count it brings to 0.
GivenUp(net, n) == toDec[net][n] > 0 /\ Count(users[net], n) = toDec[net][n]

ApplyDecrements(t) ==
  LET net == Net(t)
      erased == {n \in Nodes : GivenUp(net, n)} IN
  /\ phase = "updateNets" /\ pc[t] = "decrement"
  /\ IF DecrementAsserts(net)
     THEN /\ users' = [users EXCEPT ![net] =
               [n \in DOMAIN @ \ erased |-> @[n] - toDec[net][n]]]
          /\ occ' = [n \in Nodes |-> IF n \in erased THEN occ[n] - 1 ELSE occ[n]]
          /\ stamp' = [n \in Nodes |-> IF n \in erased THEN currentBatchStamp ELSE stamp[n]]
          /\ netPos' = [netPos EXCEPT ![t] = @ + 1]
          /\ pc' = [pc EXCEPT ![t] = "net"]
          /\ UNCHANGED phase
     ELSE /\ phase' = "commitAborted"
          /\ UNCHANGED <<users, occ, stamp, netPos, pc>>
  /\ UNCHANGED <<rnodes, isRouted, priced, deferred, batch, iter, labeledPos, failRouteNum,
                 history, connPos>>

JoinNets ==
  /\ phase = "updateNets" /\ WorkersDone
  /\ phase' = "updatePrices"
  /\ pc' = [t \in Threads |-> "price"]
  /\ UNCHANGED <<netVars, nodeVars, deferred, batch, iter, labeledPos, failRouteNum,
                 history, netPos, connPos>>

-----------------------------------------------------------------------------
\* Round 3: updatePresentCongCostWorker re-prices the nodes the batch stamped.

\* Slip: a node that has become free keeps its price.
StampedAndUsed(n) == stamp[n] = currentBatchStamp /\ occ[n] >= 1

MustReprice(n) == stamp[n] = currentBatchStamp

UpdatePrices(t) ==
  /\ phase = "updatePrices" /\ pc[t] = "price"
  /\ priced' = [n \in Nodes |->
       IF NodeOwner[n] = t /\ MustReprice(n) THEN occ[n] ELSE priced[n]]
  /\ pc' = [pc EXCEPT ![t] = "net"]
  /\ UNCHANGED <<netVars, occ, stamp, deferred, loopVars, netPos, connPos>>

JoinPrices ==
  /\ phase = "updatePrices" /\ \A t \in Threads : pc[t] = "net"
  /\ IF batch + 1 < NumBatches
     THEN phase' = "route" /\ batch' = batch + 1
     ELSE phase' = "labeled" /\ UNCHANGED batch
  /\ netPos' = [t \in Threads |-> 1]
  /\ barrier' = [routes |-> rnodes, occ |-> occ, exact |-> failedSinks = {}]
  /\ UNCHANGED <<netVars, nodeVars, deferred, iter, labeledPos, failRouteNum, failedSinks,
                 pc, connPos>>

-----------------------------------------------------------------------------
\* The labeled nets: routePartitionTree(treeForLabeledNets), sync = false.

LabeledConn == Labeled[labeledPos]

\* The rest of stableFirstParallelRouting does not touch the workers' state.
LabeledUnchanged ==
  UNCHANGED <<stamp, deferred, batch, iter, threadVars>>

KeepLabeled ==
  /\ phase = "labeled" /\ labeledPos <= Len(Labeled)
  /\ ~ShouldRoute(LabeledConn)
  /\ labeledPos' = labeledPos + 1
  /\ UNCHANGED <<netVars, occ, priced, phase, failRouteNum, history>> /\ LabeledUnchanged

\* The users of the net after ripup, and the paths that can then be searched.
RippedUsers(c) == DecrementUsers(users[NetOf[c]], NodesOf(RipNodes(c)))
LabeledPaths(c) == {p \in Paths[c] : AccessibleFor(c, p, RippedUsers(c))}
NegativeCount(c, p) == \E n \in NodesOf(p) \ {Sink[c]} : Count(RippedUsers(c), n) < 0

\* Rip up, search and save one connection; prices follow each change.
RouteLabeled ==
  LET c == LabeledConn
      m == RippedUsers(c)
      gone == {n \in NodesOf(RipNodes(c)) : Erased(users[NetOf[c]], n)}
      Occ(new) == [n \in Nodes |-> occ[n] - (IF n \in gone THEN 1 ELSE 0)
                                          + (IF n \in new THEN 1 ELSE 0)]
      Finish(p, after, new) ==
        /\ rnodes' = [rnodes EXCEPT ![c] = p]
        /\ isRouted' = [isRouted EXCEPT ![c] = p # <<>>]
        /\ users' = [users EXCEPT ![NetOf[c]] = after]
        /\ occ' = Occ(new)
        /\ priced' = [n \in Nodes |-> IF n \in NodesOf(RipNodes(c)) \cup NodesOf(p)
                                      THEN Occ(new)[n] ELSE priced[n]]
        /\ failedSinks' = IF p = <<>> THEN failedSinks \cup {Sink[c]} ELSE failedSinks
        /\ barrier' = [routes |-> rnodes', occ |-> occ', exact |-> failedSinks' = {}]
  IN
  /\ phase = "labeled" /\ labeledPos <= Len(Labeled)
  /\ ShouldRoute(c)
  /\ \/ \E p \in LabeledPaths(c) :
          /\ ~NegativeCount(c, p)
          /\ Finish(p, IncrementUsers(m, NodesOf(p)), {n \in NodesOf(p) : NewlyAdded(m, n)})
          /\ UNCHANGED failRouteNum
     \/ /\ Finish(<<>>, m, {})
        /\ failRouteNum' = failRouteNum + 1
  /\ labeledPos' = labeledPos + 1
  /\ UNCHANGED phase /\ LabeledUnchanged

\* getNodeCost asserts that no count is negative.
AssertLabeledCount ==
  /\ phase = "labeled" /\ labeledPos <= Len(Labeled)
  /\ ShouldRoute(LabeledConn)
  /\ \E p \in LabeledPaths(LabeledConn) : NegativeCount(LabeledConn, p)
  /\ phase' = "labeledAborted"
  /\ UNCHANGED <<netVars, nodeVars, deferred, batch, iter, labeledPos, failRouteNum,
                 history, threadVars>>

OverUsed == {n \in Nodes : occ[n] > 1}

\* dynamicCostFactorUpdating prices every node whose occupancy reaches the
\* capacity; the loop ends without overuse and counted failures.
EndIteration ==
  /\ phase = "labeled" /\ labeledPos > Len(Labeled)
  /\ priced' = [n \in Nodes |-> IF occ[n] >= 1 THEN occ[n] ELSE priced[n]]
  /\ IF OverUsed = {} /\ failRouteNum = 0
     THEN phase' = "converged" /\ UNCHANGED <<batch, iter, labeledPos, failRouteNum>>
     ELSE IF iter = MaxIter
     THEN phase' = "handedOver" /\ UNCHANGED <<batch, iter, labeledPos, failRouteNum>>
     ELSE /\ phase' = "route" /\ batch' = 0 /\ iter' = iter + 1
          /\ labeledPos' = 1 /\ failRouteNum' = 0
  /\ UNCHANGED <<netVars, occ, stamp, deferred, history, threadVars>>

Worker(t) ==
  \/ BeginNet(t) \/ KeepConnection(t) \/ RouteConnection(t) \/ AssertPreDecrement(t)
  \/ EndNet(t) \/ ApplyIncrements(t) \/ ApplyDecrements(t) \/ UpdatePrices(t)

Main == JoinRoute \/ JoinNets \/ JoinPrices \/ KeepLabeled \/ RouteLabeled
        \/ AssertLabeledCount \/ EndIteration

Next == Main \/ \E t \in Threads : Worker(t)

Spec == Init /\ [][Next]_vars

-----------------------------------------------------------------------------

TypeOK ==
  /\ rnodes \in [Conns -> Seq(Nodes)] /\ isRouted \in [Conns -> BOOLEAN]
  /\ DOMAIN users = Nets /\ \A net \in Nets : IsUserMap(users[net], Nodes)
  /\ occ \in [Nodes -> Int] /\ priced \in [Nodes -> Int] /\ stamp \in [Nodes -> Int]
  /\ toDec \in [Nets -> [Nodes -> Nat]] /\ toInc \in [Nets -> [Nodes -> Nat]]
  /\ occChange \in [Threads -> [Nodes -> [stamp : Int, change : Int]]]
  /\ usedBefore \in [Threads -> SUBSET Nodes]
  /\ phase \in {"route", "updateNets", "updatePrices", "labeled", "converged",
                "handedOver", "batchAborted", "commitAborted", "labeledAborted"}
  /\ batch \in Batches /\ iter \in 1..MaxIter
  /\ labeledPos \in 1..(Len(Labeled) + 1) /\ failRouteNum \in Nat
  /\ pc \in [Threads -> {"net", "conn", "endNet", "decrement", "price"}]
  /\ netPos \in [Threads -> Nat \ {0}] /\ \A t \in Threads : netPos[t] <= Len(Work(t)) + 1
  /\ connPos \in [Threads -> Nat \ {0}]
  /\ failedSinks \subseteq Sinks

\* No thread is in the middle of a batch.
AtBarrier ==
  \/ phase \in {"labeled", "converged", "handedOver"}
  \/ phase = "route" /\ \A t \in Threads : netPos[t] = 1 /\ pc[t] = "net"

\* The occupancy of a node is the number of nets that count it, after every
\* step: deferring the changes of a batch (connection.h:87-103, 126-141) loses
\* and doubles none, whichever threads apply them to the same node.  Only the
\* sink of a failed search is excepted: a labeled connection that gives it back
\* again may leave its key in the map with 0, and the next route through it, by
\* a stale target mark (aStarRoute.cpp:828-830), is then no new user.
OccupancyMatchesUsers ==
  \A n \in Nodes \ failedSinks :
    occ[n] = Cardinality({net \in Nets : n \in Used(users[net])})

\* Each net counts at every barrier exactly the routes it has, and the sinks
\* that wait for a first route, but for the sinks of failed searches.
UsersMatchRoutes ==
  AtBarrier => \A net \in Nets, n \in Nodes \ failedSinks :
    Count(users[net], n) =
      Cardinality({c \in ConnsOf(net) : n \in NodesOf(rnodes[c])})
        + (IF \E c \in ConnsOf(net) : Sink[c] = n /\ rnodes[c] = <<>> THEN 1 ELSE 0)

\* Congestion is not hidden but at the sink of a failed search: where the
\* routes of several nets meet at a barrier, the occupancy counts them all.
NoHiddenOveruse ==
  AtBarrier => \A n \in Nodes \ failedSinks :
    LET over == {net \in Nets : \E c \in ConnsOf(net) : n \in NodesOf(rnodes[c])}
    IN  Cardinality(over) >= 2 => occ[n] >= Cardinality(over)

\* The stamps select every node a batch has changed: at a barrier, and so
\* throughout the next round of routing, every price is that of the occupancy
\* (stableFirstRouting.cpp:129-137).
PricesExactAtBarrier ==
  AtBarrier => \A n \in Nodes : priced[n] = occ[n]

\* What the workers predict for a node in getNodeCost: the sum of their
\* changes with the stamp of the batch (routeNode.h:196-202).
Change(t, n) ==
  IF occChange[t][n].stamp = currentBatchStamp THEN occChange[t][n].change ELSE 0
Predicted(n) == MapThenSumSet(LAMBDA t : Change(t, n), Threads)
Committed == phase = "updatePrices" /\ \A t \in Threads : pc[t] = "price"

\* The connections that chance has marked as routed (connection.h:353): they
\* are never routed, and their net goes on counting their sinks.
Ignored == {c \in Conns : isRouted[c] /\ rnodes[c] = <<>>}

\* As long as no search has failed, no node gains more nets in a batch than
\* the workers have recorded for it.  The sink of an ignored connection is
\* excepted: its net counts it without a route, so that a worker takes the net
\* to leave with the last route through it (stableFirstRouting.cpp:104-109).
OccChangeCoversCommit ==
  Committed /\ failedSinks = {} => \A n \in Nodes \ {Sink[c] : c \in Ignored} :
    occ[n] - barrier.occ[n] <= Predicted(n)

\* connection.h:84 and 93 assert that a net gives back no more than it counts,
\* aStarRoute.cpp:675 that no count is negative.
AssertionsHold == phase \notin {"batchAborted", "commitAborted", "labeledAborted"}

\* Until a search has failed all these assertions hold; and the one of
\* updatePreDecrement (connection.h:93) always: what a net is to give back has
\* been asserted in the first round, and its increments come before.
AssertionsHoldUntilFailure ==
  (failedSinks = {} => AssertionsHold) /\ phase # "commitAborted"

\* aStarRoute.cpp:242 asserts of every connection that is saved, after the
\* loop has found no overuse and no failure, that it has a route.
ConvergedMeansRouted ==
  phase = "converged" => \A c \in Conns : Len(rnodes[c]) >= 2

\* The three rounds implement the atomic commit of a batch.  A connection
\* that chance has marked as routed is never routed.
BatchConns == [b \in Batches |->
  UNION {ConnsOf(net) : net \in UNION {NodesOf(BatchNets[b][t]) : t \in Threads}}]
Commits == INSTANCE BatchCommit WITH
  routes <- barrier.routes, occupancy <- barrier.occ,
  ignored <- Ignored,
  exact <- barrier.exact,
  nextBatch <- IF phase \in {"route", "updateNets", "updatePrices", "batchAborted", "commitAborted"}
               THEN batch ELSE NumBatches

ImplementsBatchCommit == Commits!CommitSpec

=============================================================================
