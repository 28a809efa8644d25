-------------------------- MODULE StableFirstProofs -------------------------
(***************************************************************************)
(* The three rounds of a batch, however the threads share and interleave   *)
(* them, implement the atomic commit of BatchCommit, and the users and     *)
(* occupancies that they defer and apply are exact.                        *)
(*                                                                         *)
(* In the middle of a batch a count is exact if the changes that have been *)
(* deferred and not yet applied are added (Balance).  Whether they are     *)
(* pending follows from the place that the net has in the work of its      *)
(* thread.  A failed search spoils the count of its sink only.  The assert *)
(* of updatePreDecrement cannot fail (DecrementsApply), since the first    *)
(* round has asserted what the second one takes.  The routes of the last   *)
(* barrier are kept in mind by SinceBarrier: a connection that has been    *)
(* dealt with has moved exactly if the barrier says that it must.  The     *)
(* records of the threads are compared with the commit net by net:         *)
(* CommitInv counts the nets that are recorded by their routes now, and    *)
(* the others by those they had at the barrier.                            *)
(***************************************************************************)
EXTENDS StableFirst, TLAPS, FiniteSetTheorems, SequenceTheorems

\* The nodes that a connection gives back when it is ripped up.
Charge(c) == NodesOf(RipNodes(c))
ChargedOf(net, n) == {c \in ConnsOf(net) : n \in Charge(c)}
SinksOf(net) == {Sink[c] : c \in ConnsOf(net)}
IsLabeled(net) == ConnsOf(net) \subseteq NodesOf(Labeled)

Routing == phase \in {"route", "batchAborted"}
InBatch == phase \in {"route", "batchAborted", "updateNets", "updatePrices", "commitAborted"}

\* Where the k-th net of thread t is in the rounds of the batch: routed, with
\* changes that have yet to be applied; or with the increments applied.
Deferred(t, k) ==
  \/ Routing /\ (k < netPos[t] \/ (k = netPos[t] /\ pc[t] # "net"))
  \/ phase = "updateNets" /\ (k > netPos[t] \/ (k = netPos[t] /\ pc[t] = "net"))
Incremented(t, k) == phase = "updateNets" /\ k = netPos[t] /\ pc[t] = "decrement"

IsAt(net, t, k) == Work(t)[k] = net
IsDeferred(net) == \E t \in Threads : \E k \in 1..Len(Work(t)) : IsAt(net, t, k) /\ Deferred(t, k)
IsIncremented(net) == \E t \in Threads : \E k \in 1..Len(Work(t)) : IsAt(net, t, k) /\ Incremented(t, k)

PendingInc(net, n) == IF IsDeferred(net) THEN toInc[net][n] ELSE 0
PendingDec(net, n) == IF IsDeferred(net) \/ IsIncremented(net) THEN toDec[net][n] ELSE 0

\* The connections of its net that thread t has dealt with.
Passed(t) == {ConnSeq[Net(t)][j] : j \in 1..(connPos[t] - 1)}

\* The connections that the batch has dealt with.
IsDone(c) ==
  \E t \in Threads : \E k \in 1..Len(Work(t)) :
    /\ IsAt(NetOf[c], t, k)
    /\ \/ ~Routing \/ k < netPos[t]
       \/ k = netPos[t] /\ (pc[t] = "endNet" \/ (pc[t] = "conn" /\ c \in Passed(t)))

-----------------------------------------------------------------------------

\* Where the threads can be in each round.
Control ==
  /\ Routing => \A t \in Threads :
       /\ pc[t] \in {"net", "conn", "endNet"}
       /\ pc[t] # "net" => netPos[t] <= Len(Work(t))
       /\ pc[t] = "conn" => connPos[t] <= Len(ConnSeq[Net(t)])
  /\ phase = "updateNets" => \A t \in Threads :
       pc[t] \in {"net", "decrement"} /\ (pc[t] = "decrement" => netPos[t] <= Len(Work(t)))
  /\ phase = "updatePrices" => \A t \in Threads :
       pc[t] \in {"net", "price"} /\ netPos[t] > Len(Work(t))
  /\ ~InBatch => \A t \in Threads : netPos[t] = 1 /\ pc[t] = "net"
  /\ phase # "commitAborted"

\* Routes are paths, and a connection that has one is marked.
RoutesArePaths(net) ==
  \A c \in ConnsOf(net) : rnodes[c] # <<>> => rnodes[c] \in Paths[c] /\ isRouted[c]

\* A net counts what its routes charge, once the deferred changes are added;
\* a failed search spoils this for its sink only.
Balance(net) ==
  \A n \in Nodes \ failedSinks :
    Count(users[net], n) + PendingInc(net, n) = Cardinality(ChargedOf(net, n)) + PendingDec(net, n)

\* What is given back is counted.
GivesBackWhatCounts(net) ==
  IsDeferred(net) \/ IsIncremented(net) => \A n \in Nodes : toDec[net][n] <= Count(users[net], n)

\* Only sinks of failed searches can be keys of labeled nets that do not count.
KeysCount(net) ==
  \A n \in DOMAIN users[net] : (n \in failedSinks /\ IsLabeled(net)) \/ users[net][n] >= 1

NetInv(net) == RoutesArePaths(net) /\ Balance(net) /\ GivesBackWhatCounts(net) /\ KeysCount(net)

\* What is to be added is charged by the connections that have been passed.
AddsWhatIsPassed(t) ==
  Routing /\ pc[t] = "conn" =>
    \A n \in Nodes : toInc[Net(t)][n] <= Cardinality({c \in Passed(t) : n \in Charge(c)})

\* A price differs from the occupancy only of a node that is yet to be re-priced.
PricesFollow ==
  \A n \in Nodes : priced[n] # occ[n] =>
    /\ phase \in {"updateNets", "updatePrices"} /\ stamp[n] = currentBatchStamp
    /\ phase = "updatePrices" => pc[NodeOwner[n]] = "price"

Moved(c) ==
  /\ c \notin Ignored
  /\ barrier.routes[c] = <<>> \/ \E n \in NodesOf(barrier.routes[c]) : barrier.occ[n] > 1

\* In a batch, the routes of the barrier change only where they have to be.
SinceBarrier ==
  /\ barrier = [routes |-> barrier.routes, occ |-> barrier.occ, exact |-> barrier.exact]
  /\ ~InBatch => barrier = [routes |-> rnodes, occ |-> occ, exact |-> failedSinks = {}]
  /\ InBatch =>
       /\ barrier.routes \in [Conns -> Seq(Nodes)] /\ barrier.exact \in BOOLEAN
       /\ \A c \in Conns : (IsDone(c) /\ Moved(c)) \/ rnodes[c] = barrier.routes[c]
       /\ failedSinks # {} <=> ~barrier.exact \/ \E c \in Conns : IsDone(c) /\ Moved(c) /\ rnodes[c] = <<>>
       /\ Routing => barrier.occ = occ

\* updatePreDecrement where its assert holds, and the workers with it.
Decremented(t) ==
  LET net == Net(t)
      erased == {n \in Nodes : GivenUp(net, n)} IN
  /\ phase = "updateNets" /\ pc[t] = "decrement" /\ DecrementAsserts(net)
  /\ users' = [users EXCEPT ![net] = [n \in DOMAIN @ \ erased |-> @[n] - toDec[net][n]]]
  /\ occ' = [n \in Nodes |-> IF n \in erased THEN occ[n] - 1 ELSE occ[n]]
  /\ stamp' = [n \in Nodes |-> IF n \in erased THEN currentBatchStamp ELSE stamp[n]]
  /\ netPos' = [netPos EXCEPT ![t] = @ + 1]
  /\ pc' = [pc EXCEPT ![t] = "net"]
  /\ UNCHANGED <<rnodes, isRouted, priced, deferred, loopVars, connPos>>

Working(t) ==
  \/ BeginNet(t) \/ KeepConnection(t) \/ RouteConnection(t) \/ AssertPreDecrement(t)
  \/ EndNet(t) \/ ApplyIncrements(t) \/ Decremented(t) \/ UpdatePrices(t)

IInv ==
  /\ TypeOK /\ Control
  /\ \A net \in Nets : NetInv(net)
  /\ \A t \in Threads : AddsWhatIsPassed(t)
  /\ OccupancyMatchesUsers /\ PricesFollow /\ SinceBarrier

-----------------------------------------------------------------------------
\* Sets, nets and connections

\* How a cardinality follows when the membership of one element changes.
LEMMA OneChanges ==
  ASSUME NEW S, IsFiniteSet(S), NEW x, NEW A, NEW B, A \subseteq S, B \subseteq S,
         \A y : y # x => (y \in A <=> y \in B)
  PROVE  /\ IsFiniteSet(A) /\ IsFiniteSet(B) /\ Cardinality(A) \in Nat /\ Cardinality(B) \in Nat
         /\ Cardinality(B) + (IF x \in A THEN 1 ELSE 0) = Cardinality(A) + (IF x \in B THEN 1 ELSE 0)
<1>1. IsFiniteSet(A) /\ IsFiniteSet(B) /\ Cardinality(A) \in Nat /\ Cardinality(B) \in Nat
  BY FS_Subset, FS_CardinalityType
<1>2. CASE x \in A <=> x \in B
  <2>1. A = B
    BY <1>2
  <2>2. QED  BY <1>1, <1>2, <2>1
<1>3. CASE x \in A /\ x \notin B
  <2>1. A = B \cup {x}
    BY <1>3
  <2>2. Cardinality(A) = Cardinality(B) + 1
    BY <1>1, <1>3, <2>1, FS_AddElement
  <2>3. QED  BY <1>1, <1>3, <2>2
<1>4. CASE x \notin A /\ x \in B
  <2>1. B = A \cup {x}
    BY <1>4
  <2>2. Cardinality(B) = Cardinality(A) + 1
    BY <1>1, <1>4, <2>1, FS_AddElement
  <2>3. QED  BY <1>1, <1>4, <2>2
<1>5. QED  BY <1>1, <1>2, <1>3, <1>4

LEMMA ConnFacts ==
  ASSUME NEW c \in Conns
  PROVE  /\ NetOf[c] \in Nets /\ c \in ConnsOf(NetOf[c])
         /\ Sink[c] \in Nodes /\ Sink[c] \in Sinks /\ Sink[c] \in SinksOf(NetOf[c])
         /\ <<>> \notin Paths[c]
         /\ \A p \in Paths[c] : /\ p \in Seq(Nodes) /\ p # <<>> /\ Sink[c] \in NodesOf(p)
                                /\ NodesOf(p) \subseteq Nodes
<1>1. NetOf[c] \in Nets /\ Sink[c] \in Nodes /\ c \in ConnsOf(NetOf[c])
  BY InputAssumption DEF ConnsOf
<1>2. ASSUME NEW p \in Paths[c]
      PROVE  p \in Seq(Nodes) /\ p # <<>> /\ Sink[c] \in NodesOf(p) /\ NodesOf(p) \subseteq Nodes
  <2>1. p \in Seq(Nodes) /\ p # <<>> /\ p[1] = Sink[c]
    BY InputAssumption
  <2>2. Len(p) \in Nat /\ Len(p) # 0 /\ \A i \in 1..Len(p) : p[i] \in Nodes
    BY <2>1, LenProperties, EmptySeq, ElementOfSeq
  <2>3. 1 \in 1..Len(p)
    BY <2>2
  <2>4. QED  BY <2>1, <2>2, <2>3 DEF NodesOf
<1>3. QED  BY <1>1, <1>2 DEF Sinks, SinksOf

LEMMA NetConns ==
  ASSUME NEW net \in Nets
  PROVE  /\ ConnsOf(net) \subseteq Conns /\ IsFiniteSet(ConnsOf(net))
         /\ SinksOf(net) \subseteq Sinks /\ Sinks \subseteq Nodes
         /\ \A n : IsFiniteSet(ChargedOf(net, n)) /\ Cardinality(ChargedOf(net, n)) \in Nat
         /\ ConnSeq[net] \in Seq(Conns) /\ Len(ConnSeq[net]) \in Nat
         /\ \A j \in 1..Len(ConnSeq[net]) : ConnSeq[net][j] \in ConnsOf(net)
         /\ \A c \in ConnsOf(net) : \E j \in 1..Len(ConnSeq[net]) : ConnSeq[net][j] = c
<1>1. ConnsOf(net) \subseteq Conns
  BY DEF ConnsOf
<1>2. IsFiniteSet(ConnsOf(net))
  BY <1>1, InputAssumption, FS_Subset
<1>3. \A n : ChargedOf(net, n) \subseteq ConnsOf(net)
  BY DEF ChargedOf
<1>4. \A n : IsFiniteSet(ChargedOf(net, n)) /\ Cardinality(ChargedOf(net, n)) \in Nat
  BY <1>2, <1>3, FS_Subset, FS_CardinalityType
<1>5. SinksOf(net) \subseteq Sinks /\ Sinks \subseteq Nodes
  BY <1>1, InputAssumption DEF SinksOf, Sinks
<1>6. PICK s : s = ConnSeq[net]
  OBVIOUS
<1>7. s \in Seq(ConnsOf(net)) /\ NodesOf(s) = ConnsOf(net)
  BY <1>6, InputAssumption
<1>8. Len(s) \in Nat /\ \A j \in 1..Len(s) : s[j] \in ConnsOf(net)
  BY <1>7, LenProperties, ElementOfSeq
<1>9. s \in Seq(Conns)
  <2>1. \A j \in 1..Len(s) : s[j] \in Conns
    BY <1>1, <1>8
  <2>2. QED  BY <1>7, <2>1
<1>10. \A c \in ConnsOf(net) : \E j \in 1..Len(s) : s[j] = c
  BY <1>7 DEF NodesOf
<1>11. QED  BY <1>1, <1>2, <1>4, <1>5, <1>6, <1>8, <1>9, <1>10

\* What a connection charges: a path to its sink, or the sink.
LEMMA ChargeFacts ==
  ASSUME NEW net \in Nets, RoutesArePaths(net), NEW c \in ConnsOf(net)
  PROVE  /\ c \in Conns /\ NetOf[c] = net
         /\ Charge(c) \subseteq Nodes /\ Sink[c] \in Charge(c)
         /\ rnodes[c] = <<>> => Charge(c) = {Sink[c]} /\ NodesOf(rnodes[c]) = {}
         /\ rnodes[c] # <<>> => Charge(c) = NodesOf(rnodes[c])
<1>1. c \in Conns /\ NetOf[c] = net
  BY DEF ConnsOf
<1>2. CASE rnodes[c] = <<>>
  <2>1. Charge(c) = {Sink[c]}
    BY <1>2 DEF Charge, RipNodes, NodesOf
  <2>2. NodesOf(rnodes[c]) = {}
    BY <1>2 DEF NodesOf
  <2>3. QED  BY <1>1, <1>2, <2>1, <2>2, ConnFacts
<1>3. CASE rnodes[c] # <<>>
  <2>1. Charge(c) = NodesOf(rnodes[c])
    BY <1>3 DEF Charge, RipNodes
  <2>2. rnodes[c] \in Paths[c]
    BY <1>3 DEF RoutesArePaths
  <2>3. Charge(c) \subseteq Nodes /\ Sink[c] \in Charge(c)
    BY <1>1, <2>1, <2>2, ConnFacts
  <2>4. QED  BY <1>1, <1>3, <2>1, <2>3
<1>4. QED  BY <1>2, <1>3

-----------------------------------------------------------------------------
\* The work of the threads

\* A net is at one place of the work of one thread, and is not labeled.
LEMMA WorkFacts ==
  ASSUME batch \in Batches, NEW t \in Threads
  PROVE  /\ Work(t) \in Seq(Nets) /\ Len(Work(t)) \in Nat
         /\ \A k \in 1..Len(Work(t)) :
              /\ Work(t)[k] \in Nets /\ ~IsLabeled(Work(t)[k]) /\ Len(ConnSeq[Work(t)[k]]) >= 1
              /\ \A u \in Threads : \A j \in 1..Len(Work(u)) : Work(t)[k] = Work(u)[j] => t = u /\ k = j
<1>1. Work(t) \in Seq(Nets)
  BY BatchAssumption DEF Work
<1>2. Len(Work(t)) \in Nat /\ \A k \in 1..Len(Work(t)) : Work(t)[k] \in Nets
  BY <1>1, LenProperties, ElementOfSeq
<1>3. ASSUME NEW k \in 1..Len(Work(t)) PROVE ~IsLabeled(Work(t)[k]) /\ Len(ConnSeq[Work(t)[k]]) >= 1
  <2>1. Work(t)[k] \in NodesOf(BatchNets[batch][t])
    BY DEF NodesOf, Work
  <2>2. ~(ConnsOf(Work(t)[k]) \subseteq NodesOf(Labeled))
    BY <1>2, <2>1, BatchAssumption
  <2>3. PICK c : c \in ConnsOf(Work(t)[k])
    BY <2>2
  <2>4. Len(ConnSeq[Work(t)[k]]) \in Nat /\ \E j \in 1..Len(ConnSeq[Work(t)[k]]) : TRUE
    BY <1>2, <2>3, NetConns
  <2>5. QED  BY <2>2, <2>4 DEF IsLabeled
<1>4. ASSUME NEW k \in 1..Len(Work(t)), NEW u \in Threads, NEW j \in 1..Len(Work(u)), Work(t)[k] = Work(u)[j]
      PROVE  t = u /\ k = j
  BY <1>4, BatchAssumption DEF Work
<1>5. QED  BY <1>1, <1>2, <1>3, <1>4

\* So what is pending of a net in work is decided at its place.
LEMMA StatusAt ==
  ASSUME batch \in Batches, NEW t \in Threads, NEW k \in 1..Len(Work(t)), NEW net, net = Work(t)[k]
  PROVE  /\ IsDeferred(net) <=> Deferred(t, k)
         /\ IsIncremented(net) <=> Incremented(t, k)
         /\ \A c \in ConnsOf(net) : IsDone(c) <=>
              \/ ~Routing \/ k < netPos[t]
              \/ k = netPos[t] /\ (pc[t] = "endNet" \/ (pc[t] = "conn" /\ c \in Passed(t)))
<1>1. \A u \in Threads : \A j \in 1..Len(Work(u)) : IsAt(net, u, j) <=> u = t /\ j = k
  BY WorkFacts DEF IsAt
<1>2. IsDeferred(net) <=> Deferred(t, k)
  BY <1>1 DEF IsDeferred
<1>3. IsIncremented(net) <=> Incremented(t, k)
  BY <1>1 DEF IsIncremented
<1>4. ASSUME NEW c \in ConnsOf(net)
      PROVE  IsDone(c) <=> \/ ~Routing \/ k < netPos[t]
                           \/ k = netPos[t] /\ (pc[t] = "endNet" \/ (pc[t] = "conn" /\ c \in Passed(t)))
  <2>1. NetOf[c] = net
    BY DEF ConnsOf
  <2>2. QED  BY <1>1, <2>1 DEF IsDone
<1>5. QED  BY <1>2, <1>3, <1>4

-----------------------------------------------------------------------------
\* What the step of a thread leaves alone

\* Thread t is at a net, and changes nothing of the other nets and threads.
LocalStep(t) ==
  /\ netPos[t] \in 1..Len(Work(t))
  /\ UNCHANGED <<phase, batch, iter, barrier>>
  /\ \A u \in Threads \ {t} : pc'[u] = pc[u] /\ netPos'[u] = netPos[u] /\ connPos'[u] = connPos[u]
  /\ netPos'[t] = netPos[t] \/ (netPos'[t] = netPos[t] + 1 /\ pc'[t] = "net")
  /\ \A c \in Conns : NetOf[c] # Net(t) => rnodes'[c] = rnodes[c] /\ isRouted'[c] = isRouted[c]
  /\ \A net \in Nets \ {Net(t)} :
       users'[net] = users[net] /\ toInc'[net] = toInc[net] /\ toDec'[net] = toDec[net]
  /\ failedSinks \subseteq failedSinks'

LEMMA OtherNets ==
  ASSUME TypeOK, NEW t \in Threads, LocalStep(t), NEW net \in Nets, net # Net(t)
  PROVE  /\ IsDeferred(net)' <=> IsDeferred(net)
         /\ IsIncremented(net)' <=> IsIncremented(net)
         /\ \A c \in ConnsOf(net) : IsDone(c)' <=> IsDone(c)
         /\ \A c \in ConnsOf(net) :
              rnodes'[c] = rnodes[c] /\ isRouted'[c] = isRouted[c] /\ Charge(c)' = Charge(c)
         /\ \A n : ChargedOf(net, n)' = ChargedOf(net, n)
<1>1. /\ batch \in Batches /\ phase' = phase /\ \A u \in Threads : Work(u)' = Work(u) /\ Len(Work(u)) \in Nat
      /\ netPos[t] \in Nat /\ Routing' = Routing
  BY WorkFacts DEF TypeOK, LocalStep, Work, Routing
<1>2. ~IsAt(net, t, netPos[t])
  BY DEF IsAt, Net
<1>3. ASSUME NEW u \in Threads, NEW j \in 1..Len(Work(u)), IsAt(net, u, j)
      PROVE  /\ IsAt(net, u, j)' /\ (Deferred(u, j)' <=> Deferred(u, j))
             /\ Incremented(u, j)' <=> Incremented(u, j)
             /\ j < netPos'[u] <=> j < netPos[u]
             /\ \A x : x # "net" => (j = netPos'[u] /\ pc'[u] = x <=> j = netPos[u] /\ pc[u] = x)
  <2>1. IsAt(net, u, j)'
    BY <1>1, <1>3 DEF IsAt
  <2>2. CASE u # t
    BY <1>1, <2>1, <2>2 DEF LocalStep, Deferred, Incremented
  <2>3. CASE u = t
    <3>1. j # netPos[t] /\ j \in Nat
      BY <1>2, <1>3, <2>3
    <3>2. CASE netPos'[t] = netPos[t]
      BY <1>1, <2>1, <2>3, <3>1, <3>2 DEF Deferred, Incremented
    <3>3. CASE netPos'[t] = netPos[t] + 1 /\ pc'[t] = "net"
      <4>1. /\ j < netPos'[t] <=> j < netPos[t]
            /\ j > netPos'[t] \/ j = netPos'[t] <=> j > netPos[t]
        BY <1>1, <3>1, <3>3
      <4>2. QED  BY <1>1, <2>1, <2>3, <3>1, <3>3, <4>1 DEF Deferred, Incremented
    <3>4. QED  BY <3>2, <3>3 DEF LocalStep
  <2>4. QED  BY <2>2, <2>3
<1>4. \A u \in Threads : \A j \in 1..Len(Work(u)) : IsAt(net, u, j)' <=> IsAt(net, u, j)
  BY <1>1 DEF IsAt
<1>5. IsDeferred(net)' <=> IsDeferred(net)
  BY <1>1, <1>3, <1>4 DEF IsDeferred
<1>6. IsIncremented(net)' <=> IsIncremented(net)
  BY <1>1, <1>3, <1>4 DEF IsIncremented
<1>7. ASSUME NEW c \in ConnsOf(net)
      PROVE  rnodes'[c] = rnodes[c] /\ isRouted'[c] = isRouted[c] /\ Charge(c)' = Charge(c)
  <2>1. c \in Conns /\ NetOf[c] = net
    BY DEF ConnsOf
  <2>2. rnodes'[c] = rnodes[c] /\ isRouted'[c] = isRouted[c]
    BY <2>1 DEF LocalStep
  <2>3. QED  BY <2>2 DEF Charge, RipNodes
<1>8. ASSUME NEW n PROVE ChargedOf(net, n)' = ChargedOf(net, n)
  BY <1>7 DEF ChargedOf, ConnsOf
<1>9. ASSUME NEW c \in ConnsOf(net) PROVE IsDone(c)' <=> IsDone(c)
  <2>1. NetOf[c] = net
    BY DEF ConnsOf
  <2>2. ASSUME NEW u \in Threads, NEW j \in 1..Len(Work(u)), IsAt(net, u, j), pc[u] = "conn", j = netPos[u]
        PROVE  Passed(u)' = Passed(u)
    <3>1. u # t
      BY <1>2, <2>2
    <3>2. QED  BY <1>1, <3>1 DEF LocalStep, Passed, Net
  <2>3. QED  BY <1>1, <1>3, <1>4, <2>1, <2>2 DEF IsDone
<1>10. QED  BY <1>5, <1>6, <1>7, <1>8, <1>9

LEMMA OtherNetsInv ==
  ASSUME IInv, NEW t \in Threads, LocalStep(t), NEW net \in Nets, net # Net(t)
  PROVE  NetInv(net)'
<1>1. /\ TypeOK /\ NetInv(net)
      /\ users'[net] = users[net] /\ toInc'[net] = toInc[net] /\ toDec'[net] = toDec[net]
      /\ failedSinks \subseteq failedSinks'
  BY DEF IInv, LocalStep
<1>2. /\ IsDeferred(net)' <=> IsDeferred(net)
      /\ IsIncremented(net)' <=> IsIncremented(net)
      /\ \A c \in ConnsOf(net) : rnodes'[c] = rnodes[c] /\ isRouted'[c] = isRouted[c]
      /\ \A n : ChargedOf(net, n)' = ChargedOf(net, n)
  BY <1>1, OtherNets
<1>3. RoutesArePaths(net)'
  BY <1>1, <1>2 DEF NetInv, RoutesArePaths, ConnsOf
<1>4. Balance(net)'
  <2>1. \A n : PendingInc(net, n)' = PendingInc(net, n) /\ PendingDec(net, n)' = PendingDec(net, n)
    BY <1>1, <1>2 DEF PendingInc, PendingDec
  <2>2. QED  BY <1>1, <1>2, <2>1 DEF NetInv, Balance
<1>5. GivesBackWhatCounts(net)'
  BY <1>1, <1>2 DEF NetInv, GivesBackWhatCounts
<1>6. KeysCount(net)'
  BY <1>1 DEF NetInv, KeysCount, IsLabeled, ConnsOf
<1>7. QED  BY <1>3, <1>4, <1>5, <1>6 DEF NetInv

LEMMA OtherThreads ==
  ASSUME IInv, NEW t \in Threads, LocalStep(t), NEW u \in Threads, u # t
  PROVE  AddsWhatIsPassed(u)'
<1>1. SUFFICES ASSUME Routing', pc'[u] = "conn"
               PROVE  \A n \in Nodes : toInc'[Net(u)'][n] <= Cardinality({c \in Passed(u) : n \in Charge(c)}')
  BY DEF AddsWhatIsPassed
<1>2. /\ Routing /\ pc[u] = "conn" /\ Net(u)' = Net(u) /\ Passed(u)' = Passed(u) /\ TypeOK /\ Control
      /\ AddsWhatIsPassed(u)
  BY <1>1 DEF LocalStep, Routing, Net, Work, Passed, IInv
<1>3. netPos[u] \in 1..Len(Work(u)) /\ netPos[t] \in 1..Len(Work(t))
  BY <1>2, WorkFacts DEF Control, TypeOK, LocalStep
<1>4. Net(u) \in Nets /\ Net(u) # Net(t) /\ connPos[u] \in 1..Len(ConnSeq[Net(u)])
  <2>1. Net(u) \in Nets /\ Net(u) # Net(t)
    BY <1>2, <1>3, WorkFacts DEF Net, TypeOK
  <2>2. QED  BY <1>2, <2>1, NetConns DEF Control, TypeOK
<1>5. Passed(u) \subseteq ConnsOf(Net(u))
  BY <1>4, NetConns DEF Passed
<1>6. \A n : {c \in Passed(u) : n \in Charge(c)}' = {c \in Passed(u) : n \in Charge(c)}
  <2>1. \A c \in Passed(u) : Charge(c)' = Charge(c)
    BY <1>2, <1>4, <1>5, OtherNets
  <2>2. QED  BY <1>2, <2>1
<1>7. toInc'[Net(u)] = toInc[Net(u)]
  BY <1>4 DEF LocalStep
<1>8. QED  BY <1>2, <1>6, <1>7 DEF AddsWhatIsPassed

-----------------------------------------------------------------------------
\* The user map of a net

LEMMA MapFacts ==
  ASSUME NEW m, IsUserMap(m, Nodes)
  PROVE  \A x : /\ Count(m, x) \in Int
                /\ x \in Used(m) <=> Count(m, x) >= 1
                /\ x \in DOMAIN m => m[x] = Count(m, x) /\ x \in Nodes
                /\ x \notin DOMAIN m => Count(m, x) = 0
BY DEF IsUserMap, Count, Used

LEMMA AddSet ==
  ASSUME NEW m, IsUserMap(m, Nodes), NEW S, S \subseteq Nodes
  PROVE  LET m1 == IncrementUsers(m, S) IN
         /\ IsUserMap(m1, Nodes) /\ DOMAIN m1 = DOMAIN m \cup S
         /\ \A x : Count(m1, x) = Count(m, x) + (IF x \in S THEN 1 ELSE 0)
<1>1. PICK m1 : m1 = IncrementUsers(m, S)
  OBVIOUS
<1>2. /\ DOMAIN m1 = DOMAIN m \cup S /\ m1 = [x \in DOMAIN m1 |-> m1[x]]
      /\ \A x \in DOMAIN m1 : m1[x] = IF x \in S THEN Count(m, x) + 1 ELSE m[x]
  BY <1>1 DEF IncrementUsers
<1>3. /\ \A x : Count(m, x) \in Int /\ (x \in DOMAIN m => m[x] = Count(m, x) /\ x \in Nodes)
      /\ \A x : x \notin DOMAIN m => Count(m, x) = 0
  BY MapFacts
<1>4. \A x \in DOMAIN m1 : m1[x] = Count(m, x) + (IF x \in S THEN 1 ELSE 0)
  BY <1>2, <1>3
<1>5. IsUserMap(m1, Nodes)
  BY <1>2, <1>3, <1>4 DEF IsUserMap
<1>6. \A x : Count(m1, x) = Count(m, x) + (IF x \in S THEN 1 ELSE 0)
  BY <1>2, <1>3, <1>4 DEF Count
<1>7. QED  BY <1>1, <1>2, <1>5, <1>6

LEMMA TakeSet ==
  ASSUME NEW m, IsUserMap(m, Nodes), NEW S, S \subseteq Nodes
  PROVE  LET m1 == DecrementUsers(m, S) IN
         /\ IsUserMap(m1, Nodes) /\ DOMAIN m1 = (DOMAIN m \cup S) \ {x \in S : Count(m, x) = 1}
         /\ \A x : Count(m1, x) = Count(m, x) - (IF x \in S THEN 1 ELSE 0)
<1>1. PICK m1 : m1 = DecrementUsers(m, S)
  OBVIOUS
<1>2. /\ DOMAIN m1 = (DOMAIN m \cup S) \ {x \in S : Count(m, x) = 1} /\ m1 = [x \in DOMAIN m1 |-> m1[x]]
      /\ \A x \in DOMAIN m1 : m1[x] = IF x \in S THEN Count(m, x) - 1 ELSE m[x]
  BY <1>1 DEF DecrementUsers, Erased
<1>3. /\ \A x : Count(m, x) \in Int /\ (x \in DOMAIN m => m[x] = Count(m, x) /\ x \in Nodes)
      /\ \A x : x \notin DOMAIN m => Count(m, x) = 0
  BY MapFacts
<1>4. \A x \in DOMAIN m1 : m1[x] = Count(m, x) - (IF x \in S THEN 1 ELSE 0)
  BY <1>2, <1>3
<1>5. IsUserMap(m1, Nodes)
  BY <1>2, <1>3, <1>4 DEF IsUserMap
<1>6. \A x : Count(m1, x) = Count(m, x) - (IF x \in S THEN 1 ELSE 0)
  BY <1>2, <1>3, <1>4 DEF Count
<1>7. QED  BY <1>1, <1>2, <1>5, <1>6

\* The deferred increments of a net, and its deferred decrements.
LEMMA AddMany ==
  ASSUME NEW m, IsUserMap(m, Nodes), NEW i \in [Nodes -> Nat]
  PROVE  LET m1 == [x \in DOMAIN m \cup {y \in Nodes : i[y] > 0} |-> Count(m, x) + i[x]] IN
         /\ IsUserMap(m1, Nodes) /\ DOMAIN m1 = DOMAIN m \cup {y \in Nodes : i[y] > 0}
         /\ \A x \in Nodes : Count(m1, x) = Count(m, x) + i[x]
<1>1. PICK m1 : m1 = [x \in DOMAIN m \cup {y \in Nodes : i[y] > 0} |-> Count(m, x) + i[x]]
  OBVIOUS
<1>2. /\ DOMAIN m1 = DOMAIN m \cup {y \in Nodes : i[y] > 0} /\ m1 = [x \in DOMAIN m1 |-> m1[x]]
      /\ \A x \in DOMAIN m1 : m1[x] = Count(m, x) + i[x]
  BY <1>1
<1>3. /\ \A x : Count(m, x) \in Int /\ (x \in DOMAIN m => x \in Nodes)
      /\ \A x : x \notin DOMAIN m => Count(m, x) = 0
  BY MapFacts
<1>4. IsUserMap(m1, Nodes)
  BY <1>2, <1>3 DEF IsUserMap
<1>5. \A x \in Nodes : Count(m1, x) = Count(m, x) + i[x]
  BY <1>2, <1>3 DEF Count
<1>6. QED  BY <1>1, <1>2, <1>4, <1>5

LEMMA TakeMany ==
  ASSUME NEW m, IsUserMap(m, Nodes), NEW d \in [Nodes -> Nat], \A x \in Nodes : d[x] <= Count(m, x),
         NEW gone, \A x : x \in gone <=> x \in Nodes /\ d[x] > 0 /\ Count(m, x) = d[x],
         NEW m1, m1 = [x \in DOMAIN m1 |-> m1[x]], DOMAIN m1 = DOMAIN m \ gone,
         \A x \in DOMAIN m1 : m1[x] = m[x] - d[x]
  PROVE  /\ IsUserMap(m1, Nodes)
         /\ \A x \in Nodes : Count(m1, x) = Count(m, x) - d[x]
<1>3. /\ \A x : Count(m, x) \in Int /\ (x \in DOMAIN m => m[x] = Count(m, x) /\ x \in Nodes)
      /\ \A x : x \notin DOMAIN m => Count(m, x) = 0
  BY MapFacts
<1>4. IsUserMap(m1, Nodes)
  BY <1>3 DEF IsUserMap
<1>5. ASSUME NEW x \in Nodes PROVE Count(m1, x) = Count(m, x) - d[x]
  <2>1. CASE x \in DOMAIN m1
    BY <1>3, <2>1 DEF Count
  <2>2. CASE x \in gone
    BY <1>3, <2>2 DEF Count
  <2>3. CASE x \notin DOMAIN m
    BY <1>3, <2>3 DEF Count
  <2>4. QED  BY <2>1, <2>2, <2>3
<1>6. QED  BY <1>4, <1>5

-----------------------------------------------------------------------------
\* Where a thread is

LEMMA AtNet ==
  ASSUME TypeOK, NEW t \in Threads, netPos[t] <= Len(Work(t))
  PROVE  /\ netPos[t] \in 1..Len(Work(t)) /\ Net(t) \in Nets /\ ~IsLabeled(Net(t))
         /\ Net(t) = Work(t)[netPos[t]] /\ batch \in Batches /\ Len(ConnSeq[Net(t)]) >= 1
         /\ \A net \in Nets : net # Net(t) => ~IsAt(net, t, netPos[t])
<1>1. netPos[t] \in 1..Len(Work(t)) /\ batch \in Batches
  BY WorkFacts DEF TypeOK
<1>2. QED  BY <1>1, WorkFacts DEF Net, IsAt

\* What has been passed and what comes next.
LEMMA AtConn ==
  ASSUME TypeOK, Control, NEW t \in Threads, Routing, pc[t] = "conn"
  PROVE  /\ netPos[t] <= Len(Work(t)) /\ connPos[t] \in 1..Len(ConnSeq[Net(t)])
         /\ Conn(t) \in ConnsOf(Net(t)) /\ Conn(t) \in Conns /\ NetOf[Conn(t)] = Net(t)
         /\ Conn(t) \notin Passed(t) /\ Passed(t) \subseteq ConnsOf(Net(t))
         /\ {ConnSeq[Net(t)][j] : j \in 1..connPos[t]} = Passed(t) \cup {Conn(t)}
         /\ connPos[t] = Len(ConnSeq[Net(t)]) => Passed(t) \cup {Conn(t)} = ConnsOf(Net(t))
<1>1. netPos[t] <= Len(Work(t)) /\ Net(t) \in Nets
  BY AtNet DEF Control
<1>2. PICK s : s = ConnSeq[Net(t)]
  OBVIOUS
<1>3. /\ Len(s) \in Nat /\ \A j \in 1..Len(s) : s[j] \in ConnsOf(Net(t))
      /\ \A c \in ConnsOf(Net(t)) : \E j \in 1..Len(s) : s[j] = c
      /\ \A i, j \in 1..Len(s) : s[i] = s[j] => i = j
  <2>1. \A net \in Nets : \A i, j \in 1..Len(ConnSeq[net]) : ConnSeq[net][i] = ConnSeq[net][j] => i = j
    BY InputAssumption
  <2>2. \A i, j \in 1..Len(s) : s[i] = s[j] => i = j
    BY <1>1, <1>2, <2>1
  <2>3. QED  BY <1>1, <1>2, <2>2, NetConns
<1>4. PICK k \in 1..Len(s) : k = connPos[t]
  BY <1>2, <1>3 DEF Control, TypeOK
<1>5. Conn(t) = s[k] /\ Passed(t) = {s[j] : j \in 1..(k - 1)}
  BY <1>2, <1>4 DEF Conn, Passed
<1>6. s[k] \in ConnsOf(Net(t)) /\ s[k] \in Conns /\ NetOf[s[k]] = Net(t)
  BY <1>3 DEF ConnsOf
<1>7. \A j \in 1..(k - 1) : j \in 1..Len(s) /\ j # k
  BY <1>3
<1>8. s[k] \notin {s[j] : j \in 1..(k - 1)} /\ {s[j] : j \in 1..(k - 1)} \subseteq ConnsOf(Net(t))
  BY <1>3, <1>7
<1>9. {s[j] : j \in 1..k} = {s[j] : j \in 1..(k - 1)} \cup {s[k]}
  <2>1. \A j : j \in 1..k <=> j \in 1..(k - 1) \/ j = k
    BY <1>3
  <2>2. QED  BY <2>1
<1>10. k = Len(s) => {s[j] : j \in 1..k} = ConnsOf(Net(t))
  BY <1>3
<1>11. QED  BY <1>1, <1>2, <1>4, <1>5, <1>6, <1>8, <1>9, <1>10

\* What a net is to give back has been asserted in the first round.
LEMMA DecrementsApply ==
  ASSUME IInv, NEW t \in Threads, ApplyDecrements(t)
  PROVE  Decremented(t)
<1>1. TypeOK /\ Control
  BY DEF IInv
<1>2. phase = "updateNets" /\ pc[t] = "decrement"
  BY DEF ApplyDecrements
<1>3. PICK net : net = Net(t)
  OBVIOUS
<1>4. netPos[t] \in 1..Len(Work(t)) /\ net \in Nets /\ net = Work(t)[netPos[t]] /\ batch \in Batches
  BY <1>1, <1>2, <1>3, AtNet DEF Control
<1>5. IsIncremented(net)
  <2>1. IsIncremented(net) <=> Incremented(t, netPos[t])
    BY <1>4, StatusAt
  <2>2. QED  BY <1>2, <2>1 DEF Incremented
<1>6. DecrementAsserts(net)
  <2>1. GivesBackWhatCounts(net)
    BY <1>4 DEF IInv, NetInv
  <2>2. QED  BY <1>5, <2>1 DEF GivesBackWhatCounts, DecrementAsserts
<1>7. DecrementAsserts(Net(t))
  BY <1>3, <1>6
<1>8. QED  BY <1>2, <1>7 DEF ApplyDecrements, Decremented, loopVars

LEMMA NextIs ==
  ASSUME IInv, [Next]_vars
  PROVE  Main \/ (\E t \in Threads : Working(t)) \/ UNCHANGED vars
<1>1. ASSUME NEW t \in Threads, Worker(t) PROVE Working(t)
  BY <1>1, DecrementsApply DEF Worker, Working
<1>2. QED  BY <1>1 DEF Next

-----------------------------------------------------------------------------
\* Types

LEMMA CountedOnceType ==
  ASSUME NEW f \in [Nodes -> Nat], NEW p
  PROVE  /\ CountedOnce(f, p) \in [Nodes -> Nat]
         /\ \A n \in Nodes : CountedOnce(f, p)[n] = f[n] + (IF n \in NodesOf(p) THEN 1 ELSE 0)
BY DEF CountedOnce

LEMMA PlaceTypes ==
  ASSUME TypeOK, NEW t \in Threads, netPos[t] <= Len(Work(t)), batch' = batch
  PROVE  LET more == [netPos EXCEPT ![t] = @ + 1] IN
         more \in [Threads -> Nat \ {0}] /\ \A u \in Threads : more[u] <= Len(Work(u)') + 1
<1>1. \A u \in Threads : Work(u)' = Work(u) /\ Len(Work(u)) \in Nat
  BY WorkFacts DEF TypeOK, Work
<1>2. QED  BY <1>1 DEF TypeOK

LEMMA RouteStepTypes ==
  ASSUME TypeOK, Control, NEW t \in Threads,
         BeginNet(t) \/ KeepConnection(t) \/ RouteConnection(t) \/ AssertPreDecrement(t)
  PROVE  TypeOK'
<1>1. CASE BeginNet(t)
  <2>1. Net(t) \in Nets
    BY <1>1, AtNet DEF BeginNet
  <2>2. None \in [Nodes -> Nat]
    BY DEF None
  <2>3. toDec' \in [Nets -> [Nodes -> Nat]] /\ toInc' \in [Nets -> [Nodes -> Nat]]
    BY <1>1, <2>2 DEF BeginNet, clearPreDecrement, TypeOK
  <2>4. usedBefore' \in [Threads -> SUBSET Nodes]
    <3>1. \A c \in ConnsOf(Net(t)) : NodesOf(rnodes[c]) \subseteq Nodes
      <4>1. \A c \in ConnsOf(Net(t)) : rnodes[c] \in Seq(Nodes)
        BY DEF TypeOK, ConnsOf
      <4>2. QED  BY <4>1, ElementOfSeq DEF NodesOf
    <3>2. PICK U : U = UNION {NodesOf(rnodes[c]) : c \in ConnsOf(Net(t))}
      OBVIOUS
    <3>3. U \in SUBSET Nodes
      BY <3>1, <3>2
    <3>4. usedBefore' = [usedBefore EXCEPT ![t] = U]
      BY <1>1, <3>2 DEF BeginNet
    <3>5. QED  BY <3>3, <3>4 DEF TypeOK
  <2>5. pc' \in [Threads -> {"net", "conn", "endNet", "decrement", "price"}] /\ connPos' \in [Threads -> Nat \ {0}]
    BY <1>1 DEF BeginNet, TypeOK
  <2>6. UNCHANGED <<netVars, nodeVars, occChange, loopVars, netPos>>
    BY <1>1 DEF BeginNet
  <2>7. QED  BY <2>3, <2>4, <2>5, <2>6 DEF TypeOK, netVars, nodeVars, loopVars, history, Work
<1>2. ASSUME AdvanceConn(t)
      PROVE  /\ connPos' \in [Threads -> Nat \ {0}] /\ netPos' = netPos
             /\ pc' \in [Threads -> {"net", "conn", "endNet", "decrement", "price"}]
  BY <1>2 DEF AdvanceConn, TypeOK
<1>3. CASE KeepConnection(t)
  <2>1. AdvanceConn(t) /\ UNCHANGED <<netVars, nodeVars, deferred, loopVars>>
    BY <1>3 DEF KeepConnection
  <2>2. QED  BY <1>2, <2>1 DEF TypeOK, netVars, nodeVars, deferred, loopVars, history, Work
<1>4. CASE RouteConnection(t)
  <2>1. /\ Routing /\ pc[t] = "conn" /\ AdvanceConn(t)
        /\ UNCHANGED <<users, nodeVars, occChange, usedBefore, phase, batch, iter, labeledPos,
                       failRouteNum, barrier>>
    BY <1>4 DEF RouteConnection, Routing
  <2>2. PICK c : c = Conn(t)
    OBVIOUS
  <2>3. c \in Conns /\ NetOf[c] \in Nets /\ Sink[c] \in Sinks
    BY <2>1, <2>2, AtConn, ConnFacts
  <2>4. toDec' \in [Nets -> [Nodes -> Nat]]
    <3>1. PreRipped(c) \in [Nodes -> Nat]
      BY <2>3, CountedOnceType DEF PreRipped, TypeOK
    <3>2. toDec' = [toDec EXCEPT ![NetOf[c]] = PreRipped(c)]
      BY <1>4, <2>2 DEF RouteConnection
    <3>3. QED  BY <3>1, <3>2 DEF TypeOK
  <2>5. CASE \E p \in Paths[c] : /\ rnodes' = [rnodes EXCEPT ![c] = p]
                                 /\ isRouted' = [isRouted EXCEPT ![c] = TRUE]
                                 /\ toInc' = [toInc EXCEPT ![NetOf[c]] = CountedOnce(@, p)]
                                 /\ UNCHANGED failedSinks
    <3>1. PICK p \in Paths[c] : /\ rnodes' = [rnodes EXCEPT ![c] = p]
                                /\ isRouted' = [isRouted EXCEPT ![c] = TRUE]
                                /\ toInc' = [toInc EXCEPT ![NetOf[c]] = CountedOnce(@, p)]
                                /\ UNCHANGED failedSinks
      BY <2>5
    <3>2. p \in Seq(Nodes)
      BY <2>3, ConnFacts
    <3>3. rnodes' \in [Conns -> Seq(Nodes)] /\ isRouted' \in [Conns -> BOOLEAN]
      BY <2>3, <3>1, <3>2 DEF TypeOK
    <3>4. toInc' \in [Nets -> [Nodes -> Nat]]
      <4>1. CountedOnce(toInc[NetOf[c]], p) \in [Nodes -> Nat]
        BY <2>3, CountedOnceType DEF TypeOK
      <4>2. QED  BY <3>1, <4>1 DEF TypeOK
    <3>5. QED  BY <1>2, <2>1, <2>4, <3>1, <3>3, <3>4 DEF TypeOK, nodeVars, Work
  <2>6. CASE /\ rnodes' = [rnodes EXCEPT ![c] = <<>>] /\ isRouted' = [isRouted EXCEPT ![c] = FALSE]
             /\ failedSinks' = failedSinks \cup {Sink[c]} /\ UNCHANGED toInc
    <3>1. rnodes' \in [Conns -> Seq(Nodes)] /\ isRouted' \in [Conns -> BOOLEAN]
      BY <2>3, <2>6 DEF TypeOK
    <3>2. failedSinks' \subseteq Sinks
      BY <2>3, <2>6 DEF TypeOK
    <3>3. QED  BY <1>2, <2>1, <2>4, <2>6, <3>1, <3>2 DEF TypeOK, nodeVars, Work
  <2>7. QED  BY <1>4, <2>2, <2>5, <2>6 DEF RouteConnection
<1>5. CASE AssertPreDecrement(t)
  BY <1>5 DEF AssertPreDecrement, TypeOK, netVars, nodeVars, deferred, loopVars, history, threadVars, Work
<1>6. QED  BY <1>1, <1>3, <1>4, <1>5

LEMMA EndNetTypes ==
  ASSUME TypeOK, Control, NEW t \in Threads, EndNet(t)
  PROVE  TypeOK'
<1>1. /\ phase = "route" /\ pc[t] = "endNet" /\ netPos' = [netPos EXCEPT ![t] = @ + 1]
      /\ pc' = [pc EXCEPT ![t] = "net"]
      /\ UNCHANGED <<netVars, nodeVars, toDec, toInc, usedBefore, loopVars, connPos>>
  BY DEF EndNet
<1>2. netPos[t] <= Len(Work(t)) /\ Net(t) \in Nets
  BY <1>1, AtNet DEF Control, Routing
<1>3. netPos' \in [Threads -> Nat \ {0}] /\ \A u \in Threads : netPos'[u] <= Len(Work(u)') + 1
  BY <1>1, <1>2, PlaceTypes DEF loopVars
<1>4. \A n : Arrivals(t, n) \in Nat
  <2>1. ASSUME NEW n PROVE Arrivals(t, n) \in Nat
    <3>1. {c \in ConnsOf(Net(t)) : n \in NodesOf(rnodes[c])} \in SUBSET ConnsOf(Net(t))
      OBVIOUS
    <3>2. IsFiniteSet(ConnsOf(Net(t)))
      BY <1>2, NetConns
    <3>3. QED  BY <3>1, <3>2, FS_Subset, FS_CardinalityType DEF Arrivals
  <2>2. QED  BY <2>1
<1>5. currentBatchStamp \in Int
  BY BatchAssumption, BoundsAssumption DEF currentBatchStamp, TypeOK, Batches
<1>6. \A r \in [stamp : Int, change : Int] : \A d \in Int : Stamped(r, d) \in [stamp : Int, change : Int]
  BY <1>5 DEF Stamped
<1>7. occChange' \in [Threads -> [Nodes -> [stamp : Int, change : Int]]]
  <2>1. PICK f : f = [n \in Nodes |-> IF Arrivals(t, n) > 0 THEN Stamped(occChange[t][n], Arrivals(t, n))
                        ELSE IF Left(t, n) THEN Stamped(occChange[t][n], -1)
                        ELSE occChange[t][n]]
    OBVIOUS
  <2>2. occChange' = [occChange EXCEPT ![t] = f]
    BY <2>1 DEF EndNet
  <2>3. \A n \in Nodes : occChange[t][n] \in [stamp : Int, change : Int]
    BY DEF TypeOK
  <2>4. f \in [Nodes -> [stamp : Int, change : Int]]
    <3>1. ASSUME NEW n \in Nodes PROVE f[n] \in [stamp : Int, change : Int]
      <4>1. PICK r \in [stamp : Int, change : Int] : r = occChange[t][n]
        BY <2>3
      <4>2. PICK a \in Int : a = Arrivals(t, n)
        BY <1>4
      <4>3. Stamped(r, a) \in [stamp : Int, change : Int] /\ Stamped(r, -1) \in [stamp : Int, change : Int]
        <5>1. PICK b \in Int : b = -1
          OBVIOUS
        <5>2. Stamped(r, b) \in [stamp : Int, change : Int] /\ Stamped(r, a) \in [stamp : Int, change : Int]
          BY <1>6
        <5>3. QED  BY <5>1, <5>2
      <4>4. f[n] \in {Stamped(r, a), Stamped(r, -1), r}
        BY <2>1, <4>1, <4>2
      <4>5. QED  BY <4>1, <4>3, <4>4
    <3>2. QED  BY <2>1, <3>1
  <2>5. QED  BY <2>2, <2>4 DEF TypeOK
<1>8. pc' \in [Threads -> {"net", "conn", "endNet", "decrement", "price"}]
  BY <1>1 DEF TypeOK
<1>9. QED  BY <1>1, <1>3, <1>7, <1>8 DEF TypeOK, netVars, nodeVars, loopVars, history

\* The increments and the decrements of a net, as changes of its counts.
LEMMA ApplyFacts ==
  ASSUME TypeOK, Control, NEW t \in Threads, ApplyIncrements(t) \/ Decremented(t)
  PROVE  LET net == Net(t) IN
         /\ netPos[t] <= Len(Work(t)) /\ net \in Nets
         /\ users' = [users EXCEPT ![net] = users'[net]] /\ IsUserMap(users'[net], Nodes)
         /\ ApplyIncrements(t) =>
              /\ DOMAIN users'[net] = DOMAIN users[net] \cup {y \in Nodes : toInc[net][y] > 0}
              /\ \A x \in Nodes : Count(users'[net], x) = Count(users[net], x) + toInc[net][x]
         /\ Decremented(t) =>
              /\ DOMAIN users'[net] = DOMAIN users[net] \ {n \in Nodes : GivenUp(net, n)}
              /\ \A x \in Nodes : /\ toDec[net][x] <= Count(users[net], x)
                                  /\ Count(users'[net], x) = Count(users[net], x) - toDec[net][x]
<1>1. netPos[t] <= Len(Work(t)) /\ Net(t) \in Nets
  BY AtNet DEF ApplyIncrements, Decremented, Control
<1>2. PICK net \in Nets : net = Net(t)
  BY <1>1
<1>3. PICK m : m = users[net] /\ IsUserMap(m, Nodes)
  BY DEF TypeOK
<1>4. CASE ApplyIncrements(t)
  <2>1. PICK i \in [Nodes -> Nat] : i = toInc[net]
    BY DEF TypeOK
  <2>2. PICK m1 : m1 = [x \in DOMAIN m \cup {y \in Nodes : i[y] > 0} |-> Count(m, x) + i[x]]
    OBVIOUS
  <2>3. users' = [users EXCEPT ![net] = m1]
    BY <1>2, <1>3, <1>4, <2>1, <2>2 DEF ApplyIncrements
  <2>4. users'[net] = m1 /\ users' = [users EXCEPT ![net] = users'[net]]
    BY <2>3 DEF TypeOK
  <2>5. /\ IsUserMap(m1, Nodes) /\ DOMAIN m1 = DOMAIN m \cup {y \in Nodes : i[y] > 0}
        /\ \A x \in Nodes : Count(m1, x) = Count(m, x) + i[x]
    BY <1>3, <2>2, AddMany
  <2>6. ~Decremented(t)
    BY <1>4 DEF ApplyIncrements, Decremented
  <2>7. QED  BY <1>1, <1>2, <1>3, <2>1, <2>4, <2>5, <2>6
<1>5. CASE Decremented(t)
  <2>1. PICK d \in [Nodes -> Nat] : d = toDec[net]
    BY DEF TypeOK
  <2>2. PICK gone : gone = {x \in Nodes : d[x] > 0 /\ Count(m, x) = d[x]}
    OBVIOUS
  <2>3. gone = {n \in Nodes : GivenUp(net, n)}
    BY <1>3, <2>1, <2>2 DEF GivenUp
  <2>4. PICK m1 : m1 = [x \in DOMAIN m \ gone |-> m[x] - d[x]]
    OBVIOUS
  <2>5. users' = [users EXCEPT ![net] = m1] /\ \A x \in Nodes : d[x] <= Count(m, x)
    BY <1>2, <1>3, <1>5, <2>1, <2>3, <2>4 DEF Decremented, DecrementAsserts
  <2>6. users'[net] = m1 /\ users' = [users EXCEPT ![net] = users'[net]]
    BY <2>5 DEF TypeOK
  <2>7. /\ IsUserMap(m1, Nodes) /\ DOMAIN m1 = DOMAIN m \ gone
        /\ \A x \in Nodes : Count(m1, x) = Count(m, x) - d[x]
    <3>1. \A x : x \in gone <=> x \in Nodes /\ d[x] > 0 /\ Count(m, x) = d[x]
      BY <2>2
    <3>2. /\ m1 = [x \in DOMAIN m1 |-> m1[x]] /\ DOMAIN m1 = DOMAIN m \ gone
          /\ \A x \in DOMAIN m1 : m1[x] = m[x] - d[x]
      BY <2>4
    <3>3. QED  BY <1>3, <2>5, <3>1, <3>2, TakeMany
  <2>8. ~ApplyIncrements(t)
    BY <1>5 DEF ApplyIncrements, Decremented
  <2>9. QED  BY <1>1, <1>2, <1>3, <2>1, <2>3, <2>5, <2>6, <2>7, <2>8
<1>6. QED  BY <1>4, <1>5

LEMMA ApplyTypes ==
  ASSUME TypeOK, Control, NEW t \in Threads, ApplyIncrements(t) \/ Decremented(t)
  PROVE  TypeOK'
<1>1. /\ netPos[t] <= Len(Work(t)) /\ Net(t) \in Nets
      /\ users' = [users EXCEPT ![Net(t)] = users'[Net(t)]] /\ IsUserMap(users'[Net(t)], Nodes)
  BY ApplyFacts
<1>2. DOMAIN users' = Nets /\ \A net \in Nets : IsUserMap(users'[net], Nodes)
  BY <1>1 DEF TypeOK
<1>3. currentBatchStamp \in Int
  BY BatchAssumption, BoundsAssumption DEF currentBatchStamp, TypeOK, Batches
<1>4. occ' \in [Nodes -> Int] /\ stamp' \in [Nodes -> Int]
  BY <1>3 DEF ApplyIncrements, Decremented, TypeOK
<1>5. pc' \in [Threads -> {"net", "conn", "endNet", "decrement", "price"}]
  BY DEF ApplyIncrements, Decremented, TypeOK
<1>6. UNCHANGED <<rnodes, isRouted, priced, deferred, loopVars, connPos>>
  BY DEF ApplyIncrements, Decremented
<1>7. netPos' \in [Threads -> Nat \ {0}] /\ \A u \in Threads : netPos'[u] <= Len(Work(u)') + 1
  <2>1. CASE ApplyIncrements(t)
    BY <1>6, <2>1 DEF ApplyIncrements, TypeOK, Work, loopVars
  <2>2. CASE Decremented(t)
    BY <1>1, <1>6, <2>2, PlaceTypes DEF Decremented, loopVars
  <2>3. QED  BY <2>1, <2>2
<1>8. QED  BY <1>2, <1>4, <1>5, <1>6, <1>7 DEF TypeOK, deferred, loopVars, history

\* The nodes that are no key of the net's map after its rip-up.
RippedKeys(u, S) == (DOMAIN u \cup S) \ {x \in S : Count(u, x) = 1}

\* The sinks of failed searches, once c has been searched and p found.
FailedWith(c, p) == IF p = <<>> THEN failedSinks \cup {Sink[c]} ELSE failedSinks

\* What the step of a labeled connection does, whether a path is found or not.
LabeledStep(c, p) ==
  LET net == NetOf[c]  u == users[net]  S == Charge(c)  P == NodesOf(p) IN
  /\ p \in Paths[c] \cup {<<>>} /\ c \in Conns /\ c \in NodesOf(Labeled)
  /\ rnodes' = [rnodes EXCEPT ![c] = p] /\ isRouted' = [isRouted EXCEPT ![c] = p # <<>>]
  /\ users' = [users EXCEPT ![net] = users'[net]] /\ IsUserMap(users'[net], Nodes)
  /\ DOMAIN users'[net] = RippedKeys(u, S) \cup P
  /\ \A x : Count(users'[net], x) =
       Count(u, x) - (IF x \in S THEN 1 ELSE 0) + (IF x \in P THEN 1 ELSE 0)
  /\ occ' = [n \in Nodes |-> occ[n] - (IF n \in S /\ Count(u, n) = 1 THEN 1 ELSE 0)
                                    + (IF n \in P /\ n \notin RippedKeys(u, S) THEN 1 ELSE 0)]
  /\ priced' = [n \in Nodes |-> IF n \in S \cup P THEN occ'[n] ELSE priced[n]]
  /\ failedSinks' = FailedWith(c, p)
  /\ barrier' = [routes |-> rnodes', occ |-> occ', exact |-> failedSinks' = {}]
  /\ failRouteNum' \in Nat

LEMMA LabeledIs ==
  ASSUME TypeOK, RouteLabeled
  PROVE  \E p : LabeledStep(LabeledConn, p)
<1> DEFINE u == users[NetOf[LabeledConn]]  S == Charge(LabeledConn)
<1>1. PICK c : c = LabeledConn
  OBVIOUS
<1>2. labeledPos \in 1..Len(Labeled)
  BY BatchAssumption, LenProperties DEF RouteLabeled, TypeOK
<1>3. c \in Conns /\ c \in NodesOf(Labeled) /\ NetOf[c] \in Nets
  BY <1>1, <1>2, BatchAssumption, ElementOfSeq, ConnFacts DEF LabeledConn, NodesOf
<1>4. IsUserMap(u, Nodes)
  BY <1>1, <1>3 DEF TypeOK
<1>5. S \subseteq Nodes
  <2>1. rnodes[c] \in Seq(Nodes) /\ Sink[c] \in Nodes
    BY <1>3, ConnFacts DEF TypeOK
  <2>2. RipNodes(c) \in Seq(Nodes)
    BY <2>1 DEF RipNodes
  <2>3. QED  BY <1>1, <2>2, ElementOfSeq DEF Charge, NodesOf
<1>6. PICK m : m = RippedUsers(c)
  OBVIOUS
<1>7. /\ IsUserMap(m, Nodes) /\ DOMAIN m = RippedKeys(u, S)
      /\ \A x : Count(m, x) = Count(u, x) - (IF x \in S THEN 1 ELSE 0)
  <2>1. m = DecrementUsers(u, S)
    BY <1>1, <1>6 DEF RippedUsers, Charge
  <2> HIDE DEF u, S
  <2>2. QED  BY <1>4, <1>5, <2>1, TakeSet DEF RippedKeys
<1>8. \A x : x \in NodesOf(RipNodes(c)) /\ Erased(users[NetOf[c]], x) <=> x \in S /\ Count(u, x) = 1
  BY <1>1 DEF Charge, Erased
<1> DEFINE Occ(P) == [n \in Nodes |-> occ[n] - (IF n \in S /\ Count(u, n) = 1 THEN 1 ELSE 0)
                                             + (IF n \in P /\ n \notin RippedKeys(u, S) THEN 1 ELSE 0)]
<1>9. CASE \E p \in LabeledPaths(c) : ~NegativeCount(c, p)
             /\ rnodes' = [rnodes EXCEPT ![c] = p] /\ isRouted' = [isRouted EXCEPT ![c] = p # <<>>]
             /\ users' = [users EXCEPT ![NetOf[c]] = IncrementUsers(m, NodesOf(p))]
             /\ occ' = [n \in Nodes |->
                  occ[n] - (IF n \in {x \in NodesOf(RipNodes(c)) : Erased(users[NetOf[c]], x)} THEN 1 ELSE 0)
                         + (IF n \in {x \in NodesOf(p) : NewlyAdded(m, x)} THEN 1 ELSE 0)]
             /\ priced' = [n \in Nodes |-> IF n \in NodesOf(RipNodes(c)) \cup NodesOf(p)
                                           THEN occ'[n] ELSE priced[n]]
             /\ failedSinks' = FailedWith(c, p)
             /\ barrier' = [routes |-> rnodes', occ |-> occ', exact |-> failedSinks' = {}]
             /\ UNCHANGED failRouteNum
  <2>1. PICK p \in LabeledPaths(c) : ~NegativeCount(c, p)
             /\ rnodes' = [rnodes EXCEPT ![c] = p] /\ isRouted' = [isRouted EXCEPT ![c] = p # <<>>]
             /\ users' = [users EXCEPT ![NetOf[c]] = IncrementUsers(m, NodesOf(p))]
             /\ occ' = [n \in Nodes |->
                  occ[n] - (IF n \in {x \in NodesOf(RipNodes(c)) : Erased(users[NetOf[c]], x)} THEN 1 ELSE 0)
                         + (IF n \in {x \in NodesOf(p) : NewlyAdded(m, x)} THEN 1 ELSE 0)]
             /\ priced' = [n \in Nodes |-> IF n \in NodesOf(RipNodes(c)) \cup NodesOf(p)
                                           THEN occ'[n] ELSE priced[n]]
             /\ failedSinks' = FailedWith(c, p)
             /\ barrier' = [routes |-> rnodes', occ |-> occ', exact |-> failedSinks' = {}]
             /\ UNCHANGED failRouteNum
    BY <1>9
  <2>2. p \in Paths[c] /\ NodesOf(p) \subseteq Nodes
    BY <1>3, ConnFacts DEF LabeledPaths
  <2>3. PICK P : P = NodesOf(p)
    OBVIOUS
  <2>4. PICK m1 : m1 = IncrementUsers(m, P)
    OBVIOUS
  <2>5. /\ IsUserMap(m1, Nodes) /\ DOMAIN m1 = RippedKeys(u, S) \cup P
        /\ \A x : Count(m1, x) = Count(u, x) - (IF x \in S THEN 1 ELSE 0) + (IF x \in P THEN 1 ELSE 0)
    <3>1. /\ IsUserMap(m1, Nodes) /\ DOMAIN m1 = DOMAIN m \cup P
          /\ \A x : Count(m1, x) = Count(m, x) + (IF x \in P THEN 1 ELSE 0)
      BY <1>7, <2>2, <2>3, <2>4, AddSet
    <3> HIDE DEF u, S
    <3>2. QED  BY <1>7, <3>1
  <2>6. users' = [users EXCEPT ![NetOf[c]] = users'[NetOf[c]]] /\ users'[NetOf[c]] = m1
    BY <1>3, <2>1, <2>3, <2>4 DEF TypeOK
  <2>7. occ' = Occ(P)
    BY <1>7, <1>8, <2>1, <2>3 DEF NewlyAdded
  <2>8. priced' = [n \in Nodes |-> IF n \in S \cup P THEN occ'[n] ELSE priced[n]]
    BY <1>1, <2>1, <2>3 DEF Charge
  <2>9. failRouteNum' \in Nat
    BY <2>1 DEF TypeOK
  <2> HIDE DEF u, S
  <2>10. LabeledStep(c, p)
    BY <1>1, <1>3, <2>1, <2>2, <2>3, <2>5, <2>6, <2>7, <2>8, <2>9 DEF LabeledStep, u, S
  <2>11. QED  BY <1>1, <2>10
<1>10. CASE /\ rnodes' = [rnodes EXCEPT ![c] = <<>>] /\ isRouted' = [isRouted EXCEPT ![c] = <<>> # <<>>]
            /\ users' = [users EXCEPT ![NetOf[c]] = m]
            /\ occ' = [n \in Nodes |->
                 occ[n] - (IF n \in {x \in NodesOf(RipNodes(c)) : Erased(users[NetOf[c]], x)} THEN 1 ELSE 0)
                        + (IF n \in {} THEN 1 ELSE 0)]
            /\ priced' = [n \in Nodes |-> IF n \in NodesOf(RipNodes(c)) \cup NodesOf(<<>>)
                                          THEN occ'[n] ELSE priced[n]]
            /\ failedSinks' = FailedWith(c, <<>>)
            /\ barrier' = [routes |-> rnodes', occ |-> occ', exact |-> failedSinks' = {}]
            /\ failRouteNum' = failRouteNum + 1
  <2>1. NodesOf(<<>>) = {}
    BY DEF NodesOf
  <2>2. users' = [users EXCEPT ![NetOf[c]] = users'[NetOf[c]]] /\ users'[NetOf[c]] = m
    BY <1>3, <1>10 DEF TypeOK
  <2>3. occ' = Occ({})
    BY <1>7, <1>8, <1>10
  <2>4. priced' = [n \in Nodes |-> IF n \in S \cup {} THEN occ'[n] ELSE priced[n]]
    BY <1>1, <1>10, <2>1 DEF Charge
  <2>5. \A x : Count(m, x) = Count(u, x) - (IF x \in S THEN 1 ELSE 0) + (IF x \in {} THEN 1 ELSE 0)
    <3>1. \A x : Count(m, x) \in Int
      BY <1>7, MapFacts
    <3>2. \A x : Count(u, x) \in Int
      BY <1>4, MapFacts
    <3> HIDE DEF u, S
    <3>3. QED  BY <1>7, <3>1, <3>2
  <2>6. failRouteNum' \in Nat
    BY <1>10 DEF TypeOK
  <2> HIDE DEF u, S
  <2>7. LabeledStep(c, <<>>)
    BY <1>1, <1>3, <1>7, <1>10, <2>1, <2>2, <2>3, <2>4, <2>5, <2>6 DEF LabeledStep, u, S
  <2>8. QED  BY <1>1, <2>7
<1>11. QED  BY <1>1, <1>6, <1>9, <1>10 DEF RouteLabeled, FailedWith

\* After a step that starts a round, every thread begins its work again.
LEMMA StartOfWork ==
  ASSUME TypeOK, batch' \in Batches, netPos' = [t \in Threads |-> 1]
  PROVE  netPos' \in [Threads -> Nat \ {0}] /\ \A t \in Threads : netPos'[t] <= Len(Work(t)') + 1
<1>1. \A t \in Threads : Len(BatchNets[batch'][t]) \in Nat
  BY BatchAssumption, LenProperties
<1>2. \A t \in Threads : Work(t)' = BatchNets[batch'][t]
  BY DEF Work
<1>3. QED  BY <1>1, <1>2

LEMMA MainTypes ==
  ASSUME TypeOK, Control, Main
  PROVE  TypeOK'
<1>1. CASE JoinRoute
  <2>1. netPos' \in [Threads -> Nat \ {0}] /\ \A t \in Threads : netPos'[t] <= Len(Work(t)') + 1
    BY <1>1, StartOfWork DEF JoinRoute, TypeOK
  <2>2. QED  BY <1>1, <2>1 DEF JoinRoute, TypeOK, netVars, nodeVars, deferred, history
<1>2. CASE JoinNets
  <2>1. \A t \in Threads : Work(t)' = Work(t)
    BY <1>2 DEF JoinNets, Work
  <2>2. QED  BY <1>2, <2>1 DEF JoinNets, TypeOK, netVars, nodeVars, deferred, history
<1>3. CASE JoinPrices
  <2>1. batch' \in Batches /\ phase' \in {"route", "labeled"}
    BY <1>3, BatchAssumption DEF JoinPrices, TypeOK, Batches
  <2>2. netPos' \in [Threads -> Nat \ {0}] /\ \A t \in Threads : netPos'[t] <= Len(Work(t)') + 1
    BY <1>3, <2>1, StartOfWork DEF JoinPrices
  <2>3. QED  BY <1>3, <2>1, <2>2 DEF JoinPrices, TypeOK, netVars, nodeVars, deferred
<1>4. CASE KeepLabeled
  <2>1. labeledPos' \in 1..(Len(Labeled) + 1)
    BY <1>4, BatchAssumption, LenProperties DEF KeepLabeled, TypeOK
  <2>2. \A t \in Threads : Work(t)' = Work(t)
    BY <1>4 DEF KeepLabeled, LabeledUnchanged, Work
  <2>3. QED  BY <1>4, <2>1, <2>2 DEF KeepLabeled, LabeledUnchanged, TypeOK, netVars, deferred, history, threadVars
<1>5. CASE RouteLabeled
  <2>1. PICK c, p : LabeledStep(c, p)
    BY <1>5, LabeledIs
  <2>2. labeledPos' \in 1..(Len(Labeled) + 1) /\ UNCHANGED phase /\ LabeledUnchanged
    BY <1>5, BatchAssumption, LenProperties DEF RouteLabeled, TypeOK
  <2>3. NetOf[c] \in Nets /\ p \in Seq(Nodes) /\ c \in Conns /\ Sink[c] \in Sinks
    <3>1. c \in Conns /\ p \in Paths[c] \cup {<<>>}
      BY <2>1 DEF LabeledStep
    <3>2. CASE p \in Paths[c]
      BY <3>1, <3>2, ConnFacts
    <3>3. CASE p = <<>>
      BY <3>1, <3>3, ConnFacts, EmptySeq
    <3>4. QED  BY <3>1, <3>2, <3>3
  <2>4. rnodes' \in [Conns -> Seq(Nodes)] /\ isRouted' \in [Conns -> BOOLEAN] /\ failedSinks' \subseteq Sinks
    BY <2>1, <2>3 DEF LabeledStep, FailedWith, TypeOK
  <2>5. DOMAIN users' = Nets /\ \A net \in Nets : IsUserMap(users'[net], Nodes)
    BY <2>1, <2>3 DEF LabeledStep, TypeOK
  <2>6. occ' \in [Nodes -> Int]
    BY <2>1 DEF LabeledStep, TypeOK
  <2>7. priced' \in [Nodes -> Int]
    BY <2>1, <2>6 DEF LabeledStep, TypeOK
  <2>8. failRouteNum' \in Nat
    BY <2>1 DEF LabeledStep
  <2>9. \A t \in Threads : Work(t)' = Work(t)
    BY <2>2 DEF LabeledUnchanged, Work
  <2>10. QED  BY <2>2, <2>4, <2>5, <2>6, <2>7, <2>8, <2>9 DEF LabeledUnchanged, TypeOK, deferred, threadVars
<1>6. CASE AssertLabeledCount
  <2>1. \A t \in Threads : Work(t)' = Work(t)
    BY <1>6 DEF AssertLabeledCount, Work
  <2>2. QED  BY <1>6, <2>1 DEF AssertLabeledCount, TypeOK, netVars, nodeVars, deferred, history, threadVars
<1>7. CASE EndIteration
  <2>1. /\ phase' \in {"converged", "handedOver", "route"} /\ batch' \in Batches /\ iter' \in 1..MaxIter
        /\ labeledPos' \in 1..(Len(Labeled) + 1) /\ failRouteNum' \in Nat
    BY <1>7, BatchAssumption, BoundsAssumption, LenProperties DEF EndIteration, TypeOK, Batches
  <2>2. \A t \in Threads : netPos[t] = 1
    BY <1>7 DEF EndIteration, Control, InBatch
  <2>3. netPos' = [t \in Threads |-> 1]
    BY <1>7, <2>2 DEF EndIteration, threadVars, TypeOK
  <2>4. netPos' \in [Threads -> Nat \ {0}] /\ \A t \in Threads : netPos'[t] <= Len(Work(t)') + 1
    BY <2>1, <2>3, StartOfWork
  <2>5. priced' \in [Nodes -> Int]
    BY <1>7 DEF EndIteration, TypeOK
  <2>6. QED  BY <1>7, <2>1, <2>4, <2>5 DEF EndIteration, TypeOK, netVars, deferred, history, threadVars
<1>8. QED  BY <1>1, <1>2, <1>3, <1>4, <1>5, <1>6, <1>7 DEF Main

LEMMA TypeNext ==
  ASSUME IInv, [Next]_vars
  PROVE  TypeOK'
<1>0. TypeOK /\ Control
  BY DEF IInv
<1>1. CASE Main
  BY <1>0, <1>1, MainTypes
<1>2. ASSUME NEW t \in Threads, UpdatePrices(t) PROVE TypeOK'
  <2>1. priced' \in [Nodes -> Int] /\ pc' \in [Threads -> {"net", "conn", "endNet", "decrement", "price"}]
    BY <1>0, <1>2 DEF UpdatePrices, TypeOK
  <2>2. \A u \in Threads : Work(u)' = Work(u)
    BY <1>2 DEF UpdatePrices, loopVars, Work
  <2>3. QED  BY <1>0, <1>2, <2>1, <2>2 DEF UpdatePrices, TypeOK, netVars, deferred, loopVars, history
<1>3. ASSUME NEW t \in Threads, Working(t) PROVE TypeOK'
  BY <1>0, <1>2, <1>3, RouteStepTypes, EndNetTypes, ApplyTypes DEF Working
<1>4. CASE UNCHANGED vars
  <2>1. \A u \in Threads : Work(u)' = Work(u)
    BY <1>4 DEF vars, loopVars, Work
  <2>2. QED  BY <1>0, <1>4, <2>1 DEF vars, TypeOK, netVars, nodeVars, deferred, loopVars, history, threadVars
<1>5. QED  BY <1>1, <1>3, <1>4, NextIs

\* Every step leaves the threads where the round allows them.
LEMMA WorkerControl ==
  ASSUME TypeOK, Control, NEW t \in Threads, Working(t)
  PROVE  Control'
<1>1. CASE \/ BeginNet(t) \/ KeepConnection(t) \/ RouteConnection(t) \/ AssertPreDecrement(t) \/ EndNet(t)
  <2>1. phase = "route" /\ phase' \in {"route", "batchAborted"} /\ batch' = batch /\ Routing /\ Routing'
    BY <1>1 DEF BeginNet, KeepConnection, RouteConnection, AssertPreDecrement, EndNet, Routing, loopVars
  <2>2. ASSUME NEW u \in Threads
        PROVE  /\ pc'[u] \in {"net", "conn", "endNet"}
               /\ pc'[u] # "net" => netPos'[u] <= Len(Work(u))
               /\ pc'[u] = "conn" => connPos'[u] <= Len(ConnSeq[Work(u)[netPos'[u]]])
    <3>0. /\ pc[u] \in {"net", "conn", "endNet"} /\ (pc[u] # "net" => netPos[u] <= Len(Work(u)))
          /\ pc[u] = "conn" => connPos[u] <= Len(ConnSeq[Work(u)[netPos[u]]])
      BY <2>1 DEF Control, Net
    <3>1. CASE u # t
      <4>1. pc'[u] = pc[u] /\ netPos'[u] = netPos[u] /\ connPos'[u] = connPos[u]
        BY <1>1, <3>1 DEF BeginNet, KeepConnection, RouteConnection, AssertPreDecrement, EndNet, AdvanceConn,
                          TypeOK, threadVars
      <4>2. QED  BY <3>0, <4>1
    <3>2. CASE u = t /\ BeginNet(t)
      <4>1. pc'[t] = "conn" /\ connPos'[t] = 1 /\ netPos' = netPos /\ netPos[t] <= Len(Work(t))
        BY <3>2 DEF BeginNet, TypeOK
      <4>2. QED  BY <3>2, <4>1, AtNet DEF Net
    <3>3. CASE u = t /\ (KeepConnection(t) \/ RouteConnection(t))
      <4>1. pc[t] = "conn" /\ AdvanceConn(t)
        BY <3>3 DEF KeepConnection, RouteConnection
      <4>2. connPos[t] \in 1..Len(ConnSeq[Net(t)]) /\ netPos[t] <= Len(Work(t)) /\ Net(t) \in Nets
        BY <2>1, <4>1, AtConn, AtNet
      <4>3. Len(ConnSeq[Net(t)]) \in Nat
        BY <4>2, NetConns
      <4>4. /\ connPos'[t] = connPos[t] + 1 /\ netPos' = netPos
            /\ pc'[t] = IF connPos[t] = Len(ConnSeq[Net(t)]) THEN "endNet" ELSE "conn"
        BY <4>1 DEF AdvanceConn, TypeOK
      <4>5. QED  BY <3>3, <4>2, <4>3, <4>4 DEF Net
    <3>4. CASE u = t /\ AssertPreDecrement(t)
      BY <3>0, <3>4 DEF AssertPreDecrement, threadVars
    <3>5. CASE u = t /\ EndNet(t)
      BY <3>5 DEF EndNet, TypeOK
    <3>6. QED  BY <1>1, <3>1, <3>2, <3>3, <3>4, <3>5
  <2>3. \A u \in Threads : Work(u)' = Work(u)
    BY <2>1 DEF Work
  <2>4. QED  BY <2>1, <2>2, <2>3 DEF Control, InBatch, Net
<1>2. CASE ApplyIncrements(t) \/ Decremented(t)
  <2>1. phase = "updateNets" /\ phase' = phase /\ batch' = batch
    BY <1>2 DEF ApplyIncrements, Decremented, loopVars
  <2>2. ASSUME NEW u \in Threads
        PROVE  pc'[u] \in {"net", "decrement"} /\ (pc'[u] = "decrement" => netPos'[u] <= Len(Work(u)))
    BY <1>2, <2>1 DEF ApplyIncrements, Decremented, TypeOK, Control
  <2>3. \A u \in Threads : Work(u)' = Work(u)
    BY <2>1 DEF Work
  <2>4. QED  BY <2>1, <2>2, <2>3 DEF Control, InBatch, Routing
<1>3. CASE UpdatePrices(t)
  <2>1. phase = "updatePrices" /\ phase' = phase /\ batch' = batch /\ netPos' = netPos
    BY <1>3 DEF UpdatePrices, loopVars
  <2>2. \A u \in Threads : Work(u)' = Work(u) /\ pc'[u] \in {"net", "price"}
    BY <1>3, <2>1 DEF UpdatePrices, TypeOK, Control, Work
  <2>4. QED  BY <2>1, <2>2 DEF Control, InBatch, Routing
<1>4. QED  BY <1>1, <1>2, <1>3 DEF Working

LEMMA MainControl ==
  ASSUME TypeOK, Control, Main
  PROVE  Control'
<1>1. CASE JoinRoute
  BY <1>1 DEF JoinRoute, WorkersDone, Control, Routing, InBatch
<1>2. CASE JoinNets
  <2>1. \A u \in Threads : Work(u)' = Work(u)
    BY <1>2 DEF JoinNets, Work
  <2>2. QED  BY <1>2, <2>1 DEF JoinNets, WorkersDone, Control, Routing, InBatch
<1>3. CASE JoinPrices
  BY <1>3 DEF JoinPrices, Control, Routing, InBatch
<1>4. CASE KeepLabeled \/ RouteLabeled \/ AssertLabeledCount
  <2>1. phase = "labeled" /\ phase' \in {"labeled", "labeledAborted"} /\ UNCHANGED <<pc, netPos>>
    BY <1>4 DEF KeepLabeled, RouteLabeled, AssertLabeledCount, LabeledUnchanged, threadVars
  <2>2. QED  BY <2>1 DEF Control, Routing, InBatch
<1>5. CASE EndIteration
  <2>1. phase = "labeled" /\ phase' \in {"converged", "handedOver", "route"} /\ UNCHANGED <<pc, netPos>>
    BY <1>5 DEF EndIteration, threadVars
  <2>2. QED  BY <2>1 DEF Control, Routing, InBatch
<1>6. QED  BY <1>1, <1>2, <1>3, <1>4, <1>5 DEF Main

LEMMA ControlNext ==
  ASSUME IInv, [Next]_vars
  PROVE  Control'
<1>0. TypeOK /\ Control
  BY DEF IInv
<1>1. CASE UNCHANGED vars
  <2>1. UNCHANGED <<phase, batch, pc, netPos, connPos>>
    BY <1>1 DEF vars, loopVars, threadVars
  <2>2. \A u \in Threads : Work(u)' = Work(u) /\ Net(u)' = Net(u)
    BY <2>1 DEF Work, Net
  <2>3. QED  BY <1>0, <2>1, <2>2 DEF Control, Routing, InBatch
<1>2. QED  BY <1>0, <1>1, NextIs, WorkerControl, MainControl

-----------------------------------------------------------------------------
\* The steps of a thread at a net

NetStep(t) ==
  \/ BeginNet(t) \/ KeepConnection(t) \/ RouteConnection(t) \/ EndNet(t)
  \/ ApplyIncrements(t) \/ Decremented(t)

LEMMA NetStepIsLocal ==
  ASSUME TypeOK, Control, NEW t \in Threads, NetStep(t)
  PROVE  LocalStep(t)
<1>1. netPos[t] \in 1..Len(Work(t)) /\ Net(t) \in Nets
  BY AtNet DEF NetStep, BeginNet, KeepConnection, RouteConnection, EndNet, ApplyIncrements, Decremented,
               Control, Routing
<1>2. UNCHANGED <<phase, batch, iter, barrier>> /\ (failedSinks \subseteq failedSinks')
  BY DEF NetStep, BeginNet, KeepConnection, RouteConnection, EndNet, ApplyIncrements, Decremented,
         loopVars, history
<1>3. /\ \A u \in Threads \ {t} : pc'[u] = pc[u] /\ netPos'[u] = netPos[u] /\ connPos'[u] = connPos[u]
      /\ netPos'[t] = netPos[t] \/ (netPos'[t] = netPos[t] + 1 /\ pc'[t] = "net")
  BY DEF NetStep, BeginNet, KeepConnection, RouteConnection, EndNet, ApplyIncrements, Decremented,
         AdvanceConn, TypeOK
<1>4. CASE RouteConnection(t)
  <2>1. NetOf[Conn(t)] = Net(t)
    BY <1>4, AtConn DEF RouteConnection, Routing
  <2>2. \A c \in Conns : NetOf[c] # Net(t) => rnodes'[c] = rnodes[c] /\ isRouted'[c] = isRouted[c]
    BY <1>4, <2>1 DEF RouteConnection, TypeOK
  <2>3. \A net \in Nets \ {Net(t)} :
          users'[net] = users[net] /\ toInc'[net] = toInc[net] /\ toDec'[net] = toDec[net]
    BY <1>4, <2>1 DEF RouteConnection, TypeOK
  <2>4. QED  BY <1>1, <1>2, <1>3, <2>2, <2>3 DEF LocalStep
<1>5. CASE ~RouteConnection(t)
  <2>1. UNCHANGED <<rnodes, isRouted>>
    BY <1>5 DEF NetStep, BeginNet, KeepConnection, EndNet, ApplyIncrements, Decremented, netVars
  <2>2. \A net \in Nets \ {Net(t)} :
          users'[net] = users[net] /\ toInc'[net] = toInc[net] /\ toDec'[net] = toDec[net]
    BY <1>5 DEF NetStep, BeginNet, KeepConnection, EndNet, ApplyIncrements, Decremented, clearPreDecrement,
                netVars, deferred, TypeOK
  <2>3. QED  BY <1>1, <1>2, <1>3, <2>1, <2>2 DEF LocalStep
<1>6. QED  BY <1>4, <1>5

\* The statement of StatusAt of the next state.
LEMMA StatusAtNext ==
  ASSUME NEW t \in Threads, NEW k, NEW net
  PROVE  (batch \in Batches /\ k \in 1..Len(Work(t)) /\ net = Work(t)[k])' =>
           /\ (IsDeferred(net) <=> Deferred(t, k))'
           /\ (IsIncremented(net) <=> Incremented(t, k))'
           /\ (\A c \in ConnsOf(net) : IsDone(c) <=>
                \/ ~Routing \/ k < netPos[t]
                \/ k = netPos[t] /\ (pc[t] = "endNet" \/ (pc[t] = "conn" /\ c \in Passed(t))))'
<1>1. (batch \in Batches /\ k \in 1..Len(Work(t)) /\ net = Work(t)[k]) =>
        /\ IsDeferred(net) <=> Deferred(t, k)
        /\ IsIncremented(net) <=> Incremented(t, k)
        /\ \A c \in ConnsOf(net) : IsDone(c) <=>
             \/ ~Routing \/ k < netPos[t]
             \/ k = netPos[t] /\ (pc[t] = "endNet" \/ (pc[t] = "conn" /\ c \in Passed(t)))
  BY StatusAt
<1>2. QED  BY <1>1, PTL

\* What is pending of its net before and after.
LEMMA StatusHere ==
  ASSUME TypeOK, NEW t \in Threads, LocalStep(t), NEW net, net = Net(t)
  PROVE  /\ IsDeferred(net) <=>
              \/ Routing /\ pc[t] # "net"
              \/ phase = "updateNets" /\ pc[t] = "net"
         /\ IsIncremented(net) <=> phase = "updateNets" /\ pc[t] = "decrement"
         /\ netPos'[t] = netPos[t] =>
              /\ Net(t)' = net
              /\ IsDeferred(net)' <=>
                  \/ Routing /\ pc'[t] # "net"
                  \/ phase = "updateNets" /\ pc'[t] = "net"
              /\ IsIncremented(net)' <=> phase = "updateNets" /\ pc'[t] = "decrement"
         /\ netPos'[t] = netPos[t] + 1 => (IsDeferred(net)' <=> Routing) /\ ~IsIncremented(net)'
<1>1. PICK k : k = netPos[t]
  OBVIOUS
<1>2. /\ k \in 1..Len(Work(t)) /\ net = Work(t)[k] /\ batch \in Batches /\ k \in Nat /\ phase' = phase
      /\ Work(t)' = Work(t) /\ batch' \in Batches /\ Routing' = Routing /\ Len(Work(t)) \in Nat
  BY <1>1, WorkFacts DEF LocalStep, Net, TypeOK, Work, Routing
<1>3. IsDeferred(net) <=> Deferred(t, k)
  BY <1>2, StatusAt
<1>4. IsIncremented(net) <=> Incremented(t, k)
  BY <1>2, StatusAt
<1>5. (IsDeferred(net) <=> Deferred(t, k))' /\ (IsIncremented(net) <=> Incremented(t, k))'
  <2>1. (batch \in Batches /\ k \in 1..Len(Work(t)) /\ net = Work(t)[k])'
    BY <1>2
  <2>2. QED  BY <2>1, StatusAtNext
<1>6. /\ IsDeferred(net) <=>
           \/ Routing /\ pc[t] # "net"
           \/ phase = "updateNets" /\ pc[t] = "net"
      /\ IsIncremented(net) <=> phase = "updateNets" /\ pc[t] = "decrement"
  BY <1>1, <1>2, <1>3, <1>4 DEF Deferred, Incremented
<1>7. CASE netPos'[t] = netPos[t]
  BY <1>1, <1>2, <1>5, <1>6, <1>7 DEF Deferred, Incremented, Net
<1>8. CASE netPos'[t] = netPos[t] + 1
  <2>1. k < netPos'[t] /\ ~(k > netPos'[t]) /\ k # netPos'[t]
    BY <1>1, <1>2, <1>8
  <2>2. QED  BY <1>1, <1>2, <1>5, <1>6, <1>8, <2>1 DEF Deferred, Incremented, Routing
<1>9. CASE netPos'[t] # netPos[t] /\ netPos'[t] # netPos[t] + 1
  BY <1>6, <1>9
<1>10. QED  BY <1>7, <1>8, <1>9

\* The counts of a net that is not labeled are not negative.
LEMMA CountsAreNat ==
  ASSUME TypeOK, NEW net \in Nets, KeysCount(net), ~IsLabeled(net)
  PROVE  \A n : /\ Count(users[net], n) \in Nat
                /\ n \in DOMAIN users[net] <=> Count(users[net], n) >= 1
<1>1. IsUserMap(users[net], Nodes)
  BY DEF TypeOK
<1>2. QED  BY <1>1, MapFacts DEF KeysCount

LEMMA BeginNetInv ==
  ASSUME IInv, NEW t \in Threads, BeginNet(t), NEW net, net = Net(t)
  PROVE  NetInv(net)' /\ AddsWhatIsPassed(t)'
<1>1. TypeOK /\ Control /\ net \in Nets /\ NetInv(net) /\ ~IsLabeled(net) /\ LocalStep(t)
  BY AtNet, NetStepIsLocal DEF IInv, BeginNet, NetStep
<1>2. /\ Routing /\ pc[t] = "net" /\ pc'[t] = "conn" /\ netPos'[t] = netPos[t] /\ connPos'[t] = 1
      /\ toDec'[net] = None /\ toInc'[net] = None
      /\ UNCHANGED <<rnodes, isRouted, users, failedSinks, phase>>
  BY <1>1 DEF BeginNet, clearPreDecrement, TypeOK, netVars, loopVars, history, Routing
<1>3. phase # "updateNets"
  BY <1>2 DEF Routing
<1>4. ~IsDeferred(net) /\ ~IsIncremented(net) /\ IsDeferred(net)' /\ Net(t)' = net
  BY <1>1, <1>2, <1>3, StatusHere
<1>5. \A n \in Nodes : None[n] = 0
  BY DEF None
<1>6. RoutesArePaths(net)'
  BY <1>1, <1>2 DEF NetInv, RoutesArePaths
<1>7. Balance(net)'
  <2>1. \A n : ChargedOf(net, n)' = ChargedOf(net, n)
    BY <1>2 DEF ChargedOf, Charge, RipNodes
  <2>2. ASSUME NEW n \in Nodes
        PROVE  /\ PendingInc(net, n) = 0 /\ PendingDec(net, n) = 0
               /\ PendingInc(net, n)' = 0 /\ PendingDec(net, n)' = 0
    BY <1>2, <1>4, <1>5 DEF PendingInc, PendingDec
  <2>3. QED  BY <1>1, <1>2, <2>1, <2>2 DEF NetInv, Balance
<1>8. GivesBackWhatCounts(net)'
  <2>1. \A n \in Nodes : Count(users[net], n) \in Nat
    BY <1>1, CountsAreNat DEF NetInv
  <2>2. QED  BY <1>2, <1>5, <2>1 DEF GivesBackWhatCounts
<1>9. KeysCount(net)'
  BY <1>1, <1>2 DEF NetInv, KeysCount
<1>10. AddsWhatIsPassed(t)'
  <2>1. Passed(t)' = {}
    BY <1>2 DEF Passed
  <2>2. \A n : Cardinality({c \in Passed(t) : n \in Charge(c)}') = 0
    <3>1. \A n : {c \in Passed(t) : n \in Charge(c)}' = {}
      BY <2>1
    <3>2. QED  BY <3>1, FS_EmptySet
  <2>3. \A n \in Nodes : toInc'[Net(t)'][n] = 0
    BY <1>2, <1>4, <1>5
  <2>4. QED  BY <2>2, <2>3 DEF AddsWhatIsPassed
<1>11. QED  BY <1>6, <1>7, <1>8, <1>9, <1>10 DEF NetInv

\* Steps that leave what is pending and what counts.
LEMMA KeepNetInv ==
  ASSUME IInv, NEW t \in Threads, KeepConnection(t) \/ EndNet(t), NEW net, net = Net(t)
  PROVE  NetInv(net)' /\ AddsWhatIsPassed(t)'
<1>1. TypeOK /\ Control /\ LocalStep(t)
  BY NetStepIsLocal DEF IInv, NetStep
<1>2. /\ Routing /\ pc[t] # "net" /\ phase # "updateNets"
      /\ UNCHANGED <<rnodes, isRouted, users, failedSinks, toInc, toDec>>
      /\ netPos'[t] = netPos[t] => pc'[t] \in {"conn", "endNet"}
  <2>1. CASE KeepConnection(t)
    BY <1>1, <2>1 DEF KeepConnection, AdvanceConn, netVars, deferred, loopVars, history, Routing, TypeOK
  <2>2. CASE EndNet(t)
    <3>1. netPos[t] \in Nat /\ netPos'[t] = netPos[t] + 1
      BY <1>1, <2>2 DEF EndNet, TypeOK
    <3>2. QED  BY <2>2, <3>1 DEF EndNet, netVars, loopVars, history, Routing
  <2>3. QED  BY <2>1, <2>2
<1>3. netPos[t] \in 1..Len(Work(t)) /\ net \in Nets /\ NetInv(net)
  BY <1>1, AtNet DEF LocalStep, IInv, TypeOK
<1>4. IsDeferred(net) /\ IsDeferred(net)' /\ ~IsIncremented(net) /\ ~IsIncremented(net)'
  BY <1>1, <1>2, StatusHere DEF LocalStep
<1>5. \A n : ChargedOf(net, n)' = ChargedOf(net, n)
  BY <1>2 DEF ChargedOf, Charge, RipNodes
<1>6. RoutesArePaths(net)' /\ KeysCount(net)'
  BY <1>2, <1>3 DEF NetInv, RoutesArePaths, KeysCount
<1>7. Balance(net)'
  <2>1. \A n : PendingInc(net, n)' = PendingInc(net, n) /\ PendingDec(net, n)' = PendingDec(net, n)
    BY <1>2, <1>4 DEF PendingInc, PendingDec
  <2>2. QED  BY <1>2, <1>3, <1>5, <2>1 DEF NetInv, Balance
<1>8. GivesBackWhatCounts(net)'
  BY <1>2, <1>3, <1>4 DEF NetInv, GivesBackWhatCounts
<1>9. AddsWhatIsPassed(t)'
  <2>1. CASE EndNet(t)
    BY <1>1, <2>1 DEF EndNet, AddsWhatIsPassed, TypeOK
  <2>2. CASE KeepConnection(t)
    <3>1. /\ pc[t] = "conn" /\ netPos' = netPos /\ batch' = batch /\ connPos'[t] = connPos[t] + 1
      BY <1>1, <2>2 DEF KeepConnection, AdvanceConn, LocalStep, TypeOK
    <3>2. Net(t)' = net /\ Passed(t) \subseteq ConnsOf(net) /\ Conn(t) \in ConnsOf(net) /\ connPos[t] \in Nat
          /\ Passed(t)' = Passed(t) \cup {Conn(t)}
      <4>1. Net(t)' = Net(t)
        BY <3>1 DEF Net, Work
      <4>2. connPos[t] \in Nat
        BY <1>1 DEF TypeOK
      <4>3. (connPos[t] + 1) - 1 = connPos[t]
        BY <4>2
      <4>4. Passed(t)' = {ConnSeq[Net(t)][j] : j \in 1..connPos[t]}
        BY <3>1, <4>1, <4>3 DEF Passed
      <4>5. QED  BY <1>1, <1>2, <3>1, <4>1, <4>2, <4>4, AtConn
    <3>3. \A n \in Nodes : toInc[net][n] <= Cardinality({c \in Passed(t) : n \in Charge(c)})
      BY <1>2, <3>1 DEF IInv, AddsWhatIsPassed
    <3>4. ASSUME NEW n \in Nodes PROVE toInc'[Net(t)'][n] <= Cardinality({c \in Passed(t) : n \in Charge(c)}')
      <4>1. PICK A, B : A = {c \in Passed(t) : n \in Charge(c)} /\ B = {c \in Passed(t) : n \in Charge(c)}'
        OBVIOUS
      <4>2. \A c : Charge(c)' = Charge(c)
        BY <1>2 DEF Charge, RipNodes
      <4>3. A \subseteq B /\ B \subseteq ConnsOf(net)
        BY <3>2, <4>1, <4>2
      <4>4. IsFiniteSet(B) /\ Cardinality(A) <= Cardinality(B) /\ Cardinality(A) \in Nat /\ Cardinality(B) \in Nat
        BY <1>3, <4>3, NetConns, FS_Subset, FS_CardinalityType
      <4>5. toInc[net][n] \in Nat
        BY <1>1, <1>3 DEF TypeOK
      <4>6. QED  BY <1>2, <3>2, <3>3, <4>1, <4>4, <4>5
    <3>5. QED  BY <3>4 DEF AddsWhatIsPassed
  <2>3. QED  BY <2>1, <2>2
<1>10. QED  BY <1>6, <1>7, <1>8, <1>9 DEF NetInv

\* What the step of a connection does, whether a path is found or not.
RoutedStep(t, c, p) ==
  LET net == NetOf[c] IN
  /\ phase = "route" /\ pc[t] = "conn" /\ c = Conn(t) /\ ShouldRoute(c) /\ AdvanceConn(t)
  /\ p \in Paths[c] \cup {<<>>}
  /\ rnodes' = [rnodes EXCEPT ![c] = p] /\ isRouted' = [isRouted EXCEPT ![c] = p # <<>>]
  /\ failedSinks' = IF p = <<>> THEN failedSinks \cup {Sink[c]} ELSE failedSinks
  /\ \A n \in Nodes : /\ toDec'[net][n] = toDec[net][n] + (IF n \in Charge(c) THEN 1 ELSE 0)
                      /\ toInc'[net][n] = toInc[net][n] + (IF n \in NodesOf(p) THEN 1 ELSE 0)
  /\ \A n \in Charge(c) : toDec'[net][n] <= Count(users[net], n)
  /\ UNCHANGED <<users, nodeVars, phase, batch, iter, barrier>>

LEMMA RoutedIs ==
  ASSUME TypeOK, Control, NEW t \in Threads, RouteConnection(t)
  PROVE  \E p : RoutedStep(t, Conn(t), p)
<1>1. PICK c \in Conns : c = Conn(t) /\ NetOf[c] \in Nets
  BY AtConn, ConnFacts DEF RouteConnection, Routing
<1>2. PICK net \in Nets : net = NetOf[c]
  BY <1>1
<1>3. /\ phase = "route" /\ pc[t] = "conn" /\ ShouldRoute(c) /\ AdvanceConn(t) /\ PreDecrementAsserts(c)
      /\ toDec' = [toDec EXCEPT ![net] = PreRipped(c)]
      /\ UNCHANGED <<users, nodeVars, phase, batch, iter, barrier>>
  BY <1>1, <1>2 DEF RouteConnection
<1>4. \A n \in Nodes : toDec'[net][n] = toDec[net][n] + (IF n \in Charge(c) THEN 1 ELSE 0)
  <2>1. \A n \in Nodes : PreRipped(c)[n] = toDec[net][n] + (IF n \in Charge(c) THEN 1 ELSE 0)
    BY <1>2 DEF PreRipped, CountedOnce, Charge
  <2>2. toDec'[net] = PreRipped(c)
    BY <1>3 DEF TypeOK
  <2>3. QED  BY <2>1, <2>2
<1>5. \A n \in Charge(c) : toDec'[net][n] <= Count(users[net], n)
  <2>1. toDec'[net] = PreRipped(c)
    BY <1>3 DEF TypeOK
  <2>2. QED  BY <1>2, <1>3, <2>1 DEF PreDecrementAsserts, Charge
<1>6. CASE \E p \in Paths[c] :
             /\ rnodes' = [rnodes EXCEPT ![c] = p] /\ isRouted' = [isRouted EXCEPT ![c] = TRUE]
             /\ toInc' = [toInc EXCEPT ![net] = CountedOnce(@, p)] /\ UNCHANGED failedSinks
  <2>1. PICK p \in Paths[c] :
             /\ rnodes' = [rnodes EXCEPT ![c] = p] /\ isRouted' = [isRouted EXCEPT ![c] = TRUE]
             /\ toInc' = [toInc EXCEPT ![net] = CountedOnce(@, p)] /\ UNCHANGED failedSinks
    BY <1>6
  <2>2. p # <<>>
    BY ConnFacts DEF TypeOK
  <2>3. /\ failedSinks' = IF p = <<>> THEN failedSinks \cup {Sink[c]} ELSE failedSinks
        /\ isRouted' = [isRouted EXCEPT ![c] = p # <<>>]
    BY <2>1, <2>2
  <2>4. \A n \in Nodes : toInc'[net][n] = toInc[net][n] + (IF n \in NodesOf(p) THEN 1 ELSE 0)
    <3>1. toInc'[net] = CountedOnce(toInc[net], p)
      BY <2>1 DEF TypeOK
    <3>2. QED  BY <3>1 DEF CountedOnce
  <2>5. RoutedStep(t, c, p)
    BY <1>1, <1>2, <1>3, <1>4, <1>5, <2>1, <2>3, <2>4 DEF RoutedStep
  <2>6. QED  BY <1>1, <2>5
<1>7. CASE /\ rnodes' = [rnodes EXCEPT ![c] = <<>>] /\ isRouted' = [isRouted EXCEPT ![c] = FALSE]
           /\ failedSinks' = failedSinks \cup {Sink[c]} /\ UNCHANGED toInc
  <2>1. NodesOf(<<>>) = {}
    BY DEF NodesOf
  <2>2. \A n \in Nodes : toInc[net][n] \in Nat
    BY DEF TypeOK
  <2>3. \A n \in Nodes : toInc'[net][n] = toInc[net][n] + (IF n \in NodesOf(<<>>) THEN 1 ELSE 0)
    BY <1>7, <2>1, <2>2
  <2>4. /\ failedSinks' = IF <<>> = <<>> THEN failedSinks \cup {Sink[c]} ELSE failedSinks
        /\ isRouted' = [isRouted EXCEPT ![c] = <<>> # <<>>]
    BY <1>7
  <2>5. RoutedStep(t, c, <<>>)
    BY <1>1, <1>2, <1>3, <1>4, <1>5, <1>7, <2>1, <2>3, <2>4 DEF RoutedStep
  <2>6. QED  BY <1>1, <2>5
<1>8. QED  BY <1>1, <1>2, <1>6, <1>7 DEF RouteConnection

LEMMA RouteNetInv ==
  ASSUME IInv, NEW t \in Threads, RouteConnection(t), NEW net, net = Net(t)
  PROVE  NetInv(net)' /\ AddsWhatIsPassed(t)'
<1>1. TypeOK /\ Control /\ LocalStep(t) /\ Routing /\ pc[t] = "conn" /\ phase # "updateNets"
  BY NetStepIsLocal DEF IInv, NetStep, RouteConnection, Routing
<1>2. net \in Nets /\ NetInv(net) /\ ~IsLabeled(net)
  BY <1>1, AtNet DEF LocalStep, IInv, TypeOK
<1>3. PICK c, p : c = Conn(t) /\ RoutedStep(t, c, p)
  BY <1>1, RoutedIs
<1>4. /\ c \in Conns /\ c \in ConnsOf(net) /\ NetOf[c] = net /\ c \notin Passed(t) /\ Passed(t) \subseteq ConnsOf(net)
      /\ {ConnSeq[net][j] : j \in 1..connPos[t]} = Passed(t) \cup {c}
  BY <1>1, <1>3, AtConn
<1>5. /\ rnodes'[c] = p /\ isRouted'[c] = (p # <<>>) /\ users' = users
      /\ failedSinks' = IF p = <<>> THEN failedSinks \cup {Sink[c]} ELSE failedSinks
      /\ \A d \in Conns \ {c} : rnodes'[d] = rnodes[d] /\ isRouted'[d] = isRouted[d]
      /\ netPos' = netPos /\ pc'[t] \in {"conn", "endNet"} /\ connPos'[t] = connPos[t] + 1
      /\ p # <<>> => p \in Paths[c]
  BY <1>1, <1>3, <1>4 DEF RoutedStep, AdvanceConn, TypeOK
<1>6. /\ Charge(c)' = IF p = <<>> THEN {Sink[c]} ELSE NodesOf(p)
      /\ \A d \in Conns \ {c} : Charge(d)' = Charge(d)
  <2>1. Charge(c)' = IF p = <<>> THEN {Sink[c]} ELSE NodesOf(p)
    BY <1>5 DEF Charge, RipNodes, NodesOf
  <2>2. QED  BY <1>5, <2>1 DEF Charge, RipNodes
<1>7. IsDeferred(net) /\ IsDeferred(net)' /\ ~IsIncremented(net) /\ ~IsIncremented(net)' /\ Net(t)' = net
  BY <1>1, <1>5, StatusHere
<1>8. \A n \in Nodes : /\ toDec'[net][n] = toDec[net][n] + (IF n \in Charge(c) THEN 1 ELSE 0)
                       /\ toInc'[net][n] = toInc[net][n] + (IF n \in NodesOf(p) THEN 1 ELSE 0)
                       /\ toDec[net][n] \in Nat /\ toInc[net][n] \in Nat
                       /\ n \in Charge(c) => toDec'[net][n] <= Count(users[net], n)
  <2>1. \A n \in Nodes : toDec[net][n] \in Nat /\ toInc[net][n] \in Nat
    BY <1>1, <1>2 DEF TypeOK
  <2>2. QED  BY <1>3, <1>4, <2>1 DEF RoutedStep
<1>9. RoutesArePaths(net)'
  BY <1>2, <1>5 DEF NetInv, RoutesArePaths, ConnsOf
<1>10. Balance(net)'
  <2>1. ASSUME NEW n \in Nodes, n \notin failedSinks'
        PROVE  Count(users[net], n) + toInc'[net][n] = Cardinality(ChargedOf(net, n)') + toDec'[net][n]
    <3>1. Count(users[net], n) + toInc[net][n] = Cardinality(ChargedOf(net, n)) + toDec[net][n]
      <4>1. n \notin failedSinks
        BY <1>5, <2>1
      <4>2. QED  BY <1>2, <1>7, <4>1 DEF NetInv, Balance, PendingInc, PendingDec
    <3>2. PICK A, B : A = ChargedOf(net, n) /\ B = ChargedOf(net, n)'
      OBVIOUS
    <3>3. A \subseteq ConnsOf(net) /\ B \subseteq ConnsOf(net) /\ \A d : d # c => (d \in A <=> d \in B)
      BY <1>6, <3>2 DEF ChargedOf, ConnsOf
    <3>4. (c \in A <=> n \in Charge(c)) /\ (c \in B <=> n \in Charge(c)')
      BY <1>4, <3>2 DEF ChargedOf
    <3>5. n \in Charge(c)' <=> n \in NodesOf(p)
      <4>1. p = <<>> => n # Sink[c] /\ NodesOf(p) = {}
        BY <1>5, <2>1 DEF NodesOf
      <4>2. QED  BY <1>6, <4>1
    <3>6. /\ Cardinality(A) \in Nat /\ Cardinality(B) \in Nat
          /\ Cardinality(B) + (IF c \in A THEN 1 ELSE 0) = Cardinality(A) + (IF c \in B THEN 1 ELSE 0)
      BY <1>2, <3>3, NetConns, OneChanges
    <3>7. Count(users[net], n) \in Int
      BY <1>1, <1>2, MapFacts DEF TypeOK
    <3>8. QED  BY <1>8, <3>1, <3>2, <3>4, <3>5, <3>6, <3>7
  <2>2. \A n : PendingInc(net, n)' = toInc'[net][n] /\ PendingDec(net, n)' = toDec'[net][n]
    BY <1>7 DEF PendingInc, PendingDec
  <2>3. QED  BY <1>5, <2>1, <2>2 DEF Balance
<1>11. GivesBackWhatCounts(net)'
  <2>1. \A n \in Nodes : toDec[net][n] <= Count(users[net], n)
    BY <1>2, <1>7 DEF NetInv, GivesBackWhatCounts
  <2>2. \A n \in Nodes : toDec'[net][n] <= Count(users[net], n)
    BY <1>8, <2>1
  <2>3. QED  BY <1>5, <2>2 DEF GivesBackWhatCounts
<1>12. KeysCount(net)'
  BY <1>2, <1>5 DEF NetInv, KeysCount
<1>13. AddsWhatIsPassed(t)'
  <2>1. Passed(t)' = Passed(t) \cup {c}
    <3>1. connPos[t] \in Nat
      BY <1>1 DEF TypeOK
    <3>2. (connPos[t] + 1) - 1 = connPos[t]
      BY <3>1
    <3>3. Passed(t)' = {ConnSeq[net][j] : j \in 1..connPos[t]}
      BY <1>5, <1>7, <3>2 DEF Passed
    <3>4. QED  BY <1>4, <3>3
  <2>2. \A n \in Nodes : toInc[net][n] <= Cardinality({d \in Passed(t) : n \in Charge(d)})
    BY <1>1 DEF IInv, AddsWhatIsPassed
  <2>3. ASSUME NEW n \in Nodes PROVE toInc'[Net(t)'][n] <= Cardinality({d \in Passed(t) : n \in Charge(d)}')
    <3>1. PICK A, B : A = {d \in Passed(t) : n \in Charge(d)} /\ B = {d \in Passed(t) : n \in Charge(d)}'
      OBVIOUS
    <3>2. \A d \in Passed(t) : d \in Conns /\ d # c
      BY <1>4 DEF ConnsOf
    <3>3. A \subseteq ConnsOf(net) /\ B \subseteq ConnsOf(net) /\ \A d : d # c => (d \in A <=> d \in B)
      BY <1>4, <1>6, <2>1, <3>1, <3>2
    <3>4. c \notin A /\ (c \in B <=> n \in Charge(c)')
      BY <1>4, <2>1, <3>1
    <3>5. n \in NodesOf(p) => n \in Charge(c)'
      BY <1>6 DEF NodesOf
    <3>6. /\ Cardinality(A) \in Nat /\ Cardinality(B) \in Nat
          /\ Cardinality(B) + (IF c \in A THEN 1 ELSE 0) = Cardinality(A) + (IF c \in B THEN 1 ELSE 0)
      BY <1>2, <3>3, NetConns, OneChanges
    <3>7. toInc[net][n] <= Cardinality(A)
      BY <2>2, <3>1
    <3>8. QED  BY <1>7, <1>8, <3>1, <3>4, <3>5, <3>6, <3>7
  <2>4. QED  BY <2>3 DEF AddsWhatIsPassed
<1>14. QED  BY <1>9, <1>10, <1>11, <1>12, <1>13 DEF NetInv

LEMMA ApplyNetInv ==
  ASSUME IInv, NEW t \in Threads, ApplyIncrements(t) \/ Decremented(t), NEW net, net = Net(t)
  PROVE  NetInv(net)' /\ AddsWhatIsPassed(t)'
<1>1. TypeOK /\ Control /\ LocalStep(t)
  BY NetStepIsLocal DEF IInv, NetStep
<1>2. /\ phase = "updateNets" /\ phase' = phase /\ ~Routing /\ ~Routing'
      /\ UNCHANGED <<rnodes, isRouted, toInc, toDec, failedSinks>>
  BY DEF ApplyIncrements, Decremented, loopVars, deferred, history, Routing
<1>3. net \in Nets /\ NetInv(net) /\ ~IsLabeled(net)
  BY <1>1, AtNet DEF LocalStep, IInv, TypeOK
<1>4. \A n \in Nodes : toInc[net][n] \in Nat /\ toDec[net][n] \in Nat
  BY <1>1, <1>3 DEF TypeOK
<1>5. \A n : ChargedOf(net, n)' = ChargedOf(net, n) /\ Cardinality(ChargedOf(net, n)) \in Nat
  <2>1. \A n : ChargedOf(net, n)' = ChargedOf(net, n)
    BY <1>2 DEF ChargedOf, Charge, RipNodes
  <2>2. QED  BY <1>3, <2>1, NetConns
<1>6. \A n : Count(users[net], n) \in Nat /\ (n \in DOMAIN users[net] <=> Count(users[net], n) >= 1)
  BY <1>1, <1>3, CountsAreNat DEF NetInv
<1>7. AddsWhatIsPassed(t)'
  BY <1>2 DEF AddsWhatIsPassed
<1>8. /\ \A x : x \in DOMAIN users'[net] => users'[net][x] = Count(users'[net], x) /\ x \in Nodes
      /\ \A n : Count(users'[net], n) = Count(users[net], n)'
  <2>1. IsUserMap(users'[net], Nodes)
    BY <1>1, <1>3, ApplyFacts
  <2>2. \A x : x \in DOMAIN users'[net] => users'[net][x] = Count(users'[net], x) /\ x \in Nodes
    BY <2>1, MapFacts
  <2>3. QED  BY <2>2 DEF Count
<1>9. CASE ApplyIncrements(t)
  <2>1. /\ DOMAIN users'[net] = DOMAIN users[net] \cup {y \in Nodes : toInc[net][y] > 0}
        /\ \A x \in Nodes : Count(users'[net], x) = Count(users[net], x) + toInc[net][x]
    BY <1>1, <1>9, ApplyFacts
  <2>2. pc[t] = "net" /\ pc'[t] = "decrement" /\ netPos'[t] = netPos[t]
    BY <1>1, <1>9 DEF ApplyIncrements, TypeOK
  <2>3. IsDeferred(net) /\ ~IsDeferred(net)' /\ IsIncremented(net)'
    BY <1>1, <1>2, <2>2, StatusHere
  <2>4. RoutesArePaths(net)'
    BY <1>2, <1>3 DEF NetInv, RoutesArePaths
  <2>5. Balance(net)'
    <3>1. \A n \in Nodes : /\ PendingInc(net, n) = toInc[net][n] /\ PendingDec(net, n) = toDec[net][n]
                           /\ PendingInc(net, n)' = 0 /\ PendingDec(net, n)' = toDec[net][n]
      BY <1>2, <2>3 DEF PendingInc, PendingDec
    <3>2. ASSUME NEW n \in Nodes, n \notin failedSinks
          PROVE  Count(users'[net], n) + 0 = Cardinality(ChargedOf(net, n)) + toDec[net][n]
      <4>1. Count(users[net], n) + toInc[net][n] = Cardinality(ChargedOf(net, n)) + toDec[net][n]
        BY <1>3, <3>1, <3>2 DEF NetInv, Balance
      <4>2. QED  BY <1>4, <1>6, <2>1, <4>1
    <3>3. QED  BY <1>2, <1>5, <1>8, <3>1, <3>2 DEF Balance
  <2>6. GivesBackWhatCounts(net)'
    <3>1. ASSUME NEW n \in Nodes PROVE toDec[net][n] <= Count(users'[net], n)
      <4>1. toDec[net][n] <= Count(users[net], n)
        BY <1>3, <2>3 DEF NetInv, GivesBackWhatCounts
      <4>2. QED  BY <1>4, <1>6, <2>1, <4>1
    <3>2. QED  BY <1>2, <1>8, <3>1 DEF GivesBackWhatCounts
  <2>7. KeysCount(net)'
    <3>1. ASSUME NEW n \in DOMAIN users'[net] PROVE users'[net][n] >= 1
      <4>1. n \in Nodes /\ users'[net][n] = Count(users[net], n) + toInc[net][n]
        BY <1>8, <2>1
      <4>2. Count(users[net], n) >= 1 \/ toInc[net][n] > 0
        BY <1>6, <2>1
      <4>3. QED  BY <1>4, <1>6, <4>1, <4>2
    <3>2. QED  BY <3>1 DEF KeysCount
  <2>8. QED  BY <1>7, <2>4, <2>5, <2>6, <2>7 DEF NetInv
<1>10. CASE Decremented(t)
  <2>1. /\ DOMAIN users'[net] = DOMAIN users[net] \ {n \in Nodes : GivenUp(net, n)}
        /\ \A x \in Nodes : /\ toDec[net][x] <= Count(users[net], x)
                            /\ Count(users'[net], x) = Count(users[net], x) - toDec[net][x]
    BY <1>1, <1>10, ApplyFacts
  <2>2. pc[t] = "decrement" /\ pc'[t] = "net" /\ netPos'[t] = netPos[t] + 1
    BY <1>1, <1>10 DEF Decremented, TypeOK
  <2>3. IsIncremented(net) /\ ~IsDeferred(net) /\ ~IsDeferred(net)' /\ ~IsIncremented(net)'
    BY <1>1, <1>2, <2>2, StatusHere
  <2>4. RoutesArePaths(net)'
    BY <1>2, <1>3 DEF NetInv, RoutesArePaths
  <2>5. Balance(net)'
    <3>1. \A n \in Nodes : /\ PendingInc(net, n) = 0 /\ PendingDec(net, n) = toDec[net][n]
                           /\ PendingInc(net, n)' = 0 /\ PendingDec(net, n)' = 0
      BY <2>3 DEF PendingInc, PendingDec
    <3>2. ASSUME NEW n \in Nodes, n \notin failedSinks
          PROVE  Count(users'[net], n) + 0 = Cardinality(ChargedOf(net, n)) + 0
      <4>1. Count(users[net], n) + 0 = Cardinality(ChargedOf(net, n)) + toDec[net][n]
        BY <1>3, <3>1, <3>2 DEF NetInv, Balance
      <4>2. QED  BY <1>4, <1>5, <1>6, <2>1, <4>1
    <3>3. QED  BY <1>2, <1>5, <1>8, <3>1, <3>2 DEF Balance
  <2>6. GivesBackWhatCounts(net)'
    BY <2>3 DEF GivesBackWhatCounts
  <2>7. KeysCount(net)'
    <3>1. ASSUME NEW n \in DOMAIN users'[net] PROVE users'[net][n] >= 1
      <4>1. /\ n \in Nodes /\ n \in DOMAIN users[net] /\ ~GivenUp(net, n) /\ toDec[net][n] <= Count(users[net], n)
            /\ users'[net][n] = Count(users[net], n) - toDec[net][n]
        BY <1>8, <2>1
      <4>2. toDec[net][n] = 0 \/ Count(users[net], n) # toDec[net][n]
        BY <1>4, <4>1 DEF GivenUp
      <4>3. QED  BY <1>4, <1>6, <4>1, <4>2
    <3>2. QED  BY <3>1 DEF KeysCount
  <2>8. QED  BY <1>7, <2>4, <2>5, <2>6, <2>7 DEF NetInv
<1>11. QED  BY <1>9, <1>10

-----------------------------------------------------------------------------
\* The steps that change no route and no count

QuietStep ==
  \/ JoinRoute \/ JoinNets \/ JoinPrices \/ KeepLabeled \/ AssertLabeledCount \/ EndIteration
  \/ \E t \in Threads : AssertPreDecrement(t) \/ UpdatePrices(t)
  \/ UNCHANGED vars

\* Between the rounds every net is deferred, or none is.
LEMMA SamePending ==
  ASSUME TypeOK, Control, QuietStep, NEW net
  PROVE  /\ IsDeferred(net)' <=> IsDeferred(net)
         /\ IsIncremented(net)' <=> IsIncremented(net)
<1>1. \A t \in Threads : netPos[t] \in Nat \ {0} /\ Len(Work(t)) \in Nat
  BY WorkFacts DEF TypeOK
<1>2. CASE JoinRoute
  <2>1. /\ phase = "route" /\ phase' = "updateNets" /\ batch' = batch /\ pc' = pc
        /\ \A t \in Threads : netPos[t] > Len(Work(t)) /\ pc[t] = "net" /\ netPos'[t] = 1
    BY <1>2 DEF JoinRoute, WorkersDone
  <2>2. \A t \in Threads : Work(t)' = Work(t)
    BY <2>1 DEF Work
  <2>3. \A t \in Threads : \A k \in 1..Len(Work(t)) :
          /\ Deferred(t, k) /\ Deferred(t, k)' /\ ~Incremented(t, k) /\ ~Incremented(t, k)'
          /\ IsAt(net, t, k)' <=> IsAt(net, t, k)
    BY <1>1, <2>1, <2>2 DEF Deferred, Incremented, Routing, IsAt
  <2>4. QED  BY <2>2, <2>3 DEF IsDeferred, IsIncremented
<1>3. CASE \E t \in Threads : AssertPreDecrement(t)
  <2>1. Routing /\ Routing' /\ phase # "updateNets" /\ phase' # "updateNets" /\ UNCHANGED <<batch, pc, netPos>>
    BY <1>3 DEF AssertPreDecrement, Routing, threadVars
  <2>2. \A t \in Threads : Work(t)' = Work(t)
    BY <2>1 DEF Work
  <2>3. QED  BY <2>1, <2>2 DEF IsDeferred, IsIncremented, IsAt, Deferred, Incremented
<1>4. CASE UNCHANGED vars
  <2>1. UNCHANGED <<phase, batch, pc, netPos>>
    BY <1>4 DEF vars, loopVars, threadVars
  <2>2. \A t \in Threads : Work(t)' = Work(t)
    BY <2>1 DEF Work
  <2>3. QED  BY <2>1, <2>2 DEF IsDeferred, IsIncremented, IsAt, Deferred, Incremented, Routing
<1>5. CASE \/ JoinNets \/ JoinPrices \/ KeepLabeled \/ AssertLabeledCount \/ EndIteration
           \/ \E t \in Threads : UpdatePrices(t)
  <2>1. ~Routing /\ (phase = "updateNets" => WorkersDone)
    BY <1>5 DEF JoinNets, JoinPrices, KeepLabeled, AssertLabeledCount, EndIteration, UpdatePrices, Routing
  <2>2. ~IsDeferred(net) /\ ~IsIncremented(net)
    BY <1>1, <2>1 DEF IsDeferred, IsIncremented, Deferred, Incremented, WorkersDone
  <2>3. phase' # "updateNets" /\ (Routing' => \A t \in Threads : netPos'[t] = 1 /\ pc'[t] = "net")
    <3>1. CASE JoinNets
      BY <3>1 DEF JoinNets, Routing
    <3>2. CASE JoinPrices
      BY <3>2 DEF JoinPrices, Routing
    <3>3. CASE KeepLabeled \/ AssertLabeledCount
      BY <3>3 DEF KeepLabeled, AssertLabeledCount, Routing
    <3>4. CASE EndIteration
      BY <3>4 DEF EndIteration, Routing, Control, InBatch, threadVars
    <3>5. CASE \E t \in Threads : UpdatePrices(t)
      BY <3>5 DEF UpdatePrices, Routing, loopVars
    <3>6. QED  BY <1>5, <3>1, <3>2, <3>3, <3>4, <3>5
  <2>4. ~IsDeferred(net)' /\ ~IsIncremented(net)'
    <3>1. ASSUME NEW t \in Threads, NEW k \in 1..Len(Work(t)') PROVE ~Deferred(t, k)' /\ ~Incremented(t, k)'
      BY <2>3 DEF Deferred, Incremented
    <3>2. QED  BY <3>1 DEF IsDeferred, IsIncremented
  <2>5. QED  BY <2>2, <2>4
<1>6. QED  BY <1>2, <1>3, <1>4, <1>5 DEF QuietStep

LEMMA QuietUnchanged ==
  ASSUME QuietStep
  PROVE  UNCHANGED <<rnodes, isRouted, users, toInc, toDec, failedSinks, occ>>
BY DEF QuietStep, JoinRoute, JoinNets, JoinPrices, KeepLabeled, AssertLabeledCount, EndIteration,
       AssertPreDecrement, UpdatePrices, LabeledUnchanged, vars, netVars, nodeVars, deferred, loopVars, history

LEMMA QuietNetInv ==
  ASSUME IInv, QuietStep
  PROVE  /\ \A net \in Nets : NetInv(net)'
         /\ \A t \in Threads : AddsWhatIsPassed(t)'
         /\ OccupancyMatchesUsers'
<1>1. TypeOK /\ Control /\ UNCHANGED <<rnodes, isRouted, users, toInc, toDec, failedSinks, occ>>
  BY QuietUnchanged DEF IInv
<1>2. ASSUME NEW net \in Nets PROVE NetInv(net)'
  <2>1. NetInv(net)
    BY DEF IInv
  <2>2. /\ IsDeferred(net)' <=> IsDeferred(net)
        /\ IsIncremented(net)' <=> IsIncremented(net)
    BY <1>1, SamePending
  <2>3. \A n : ChargedOf(net, n)' = ChargedOf(net, n)
    BY <1>1 DEF ChargedOf, Charge, RipNodes
  <2>4. \A n : PendingInc(net, n)' = PendingInc(net, n) /\ PendingDec(net, n)' = PendingDec(net, n)
    BY <1>1, <2>2 DEF PendingInc, PendingDec
  <2>5. RoutesArePaths(net)' /\ KeysCount(net)' /\ GivesBackWhatCounts(net)'
    BY <1>1, <2>1, <2>2 DEF NetInv, RoutesArePaths, KeysCount, GivesBackWhatCounts
  <2>6. Balance(net)'
    BY <1>1, <2>1, <2>3, <2>4 DEF NetInv, Balance
  <2>7. QED  BY <2>5, <2>6 DEF NetInv
<1>3. ASSUME NEW t \in Threads PROVE AddsWhatIsPassed(t)'
  <2>1. CASE Routing' /\ pc'[t] = "conn"
    <3>1. (\E u \in Threads : AssertPreDecrement(u)) \/ UNCHANGED vars
      <4>1. CASE JoinRoute \/ JoinNets \/ KeepLabeled \/ AssertLabeledCount \/ (\E u \in Threads : UpdatePrices(u))
        BY <2>1, <4>1 DEF JoinRoute, JoinNets, KeepLabeled, AssertLabeledCount, UpdatePrices, Routing, loopVars
      <4>2. CASE JoinPrices
        BY <2>1, <4>2 DEF JoinPrices
      <4>3. CASE EndIteration
        BY <1>1, <2>1, <4>3 DEF EndIteration, Control, InBatch, threadVars
      <4>4. QED  BY <4>1, <4>2, <4>3 DEF QuietStep
    <3>2. Routing /\ UNCHANGED <<batch, pc, netPos, connPos>>
      BY <2>1, <3>1 DEF AssertPreDecrement, Routing, threadVars, vars, loopVars
    <3>3. Net(t)' = Net(t) /\ Passed(t)' = Passed(t) /\ \A c : Charge(c)' = Charge(c)
      BY <1>1, <3>2 DEF Net, Work, Passed, Charge, RipNodes
    <3>4. AddsWhatIsPassed(t)
      BY DEF IInv
    <3>5. QED  BY <1>1, <2>1, <3>2, <3>3, <3>4 DEF AddsWhatIsPassed
  <2>2. QED  BY <2>1 DEF AddsWhatIsPassed
<1>4. OccupancyMatchesUsers'
  BY <1>1 DEF IInv, OccupancyMatchesUsers
<1>5. QED  BY <1>2, <1>3, <1>4

-----------------------------------------------------------------------------
\* The step of a labeled connection

LEMMA LabeledNetInv ==
  ASSUME IInv, RouteLabeled, NEW net \in Nets
  PROVE  NetInv(net)'
<1>1. PICK c, p : LabeledStep(c, p)
  BY LabeledIs DEF IInv
<1>2. TypeOK /\ NetInv(net) /\ c \in Conns /\ NetOf[c] \in Nets
  BY <1>1, ConnFacts DEF LabeledStep, IInv
<1>3. ~IsDeferred(net) /\ ~IsIncremented(net) /\ ~IsDeferred(net)' /\ ~IsIncremented(net)'
  <2>1. phase = "labeled" /\ phase' = "labeled"
    BY DEF RouteLabeled
  <2>2. QED  BY <2>1 DEF IsDeferred, IsIncremented, Deferred, Incremented, Routing
<1>4. GivesBackWhatCounts(net)'
  BY <1>3 DEF GivesBackWhatCounts
<1>5. \A n : /\ PendingInc(net, n) = 0 /\ PendingDec(net, n) = 0
             /\ PendingInc(net, n)' = 0 /\ PendingDec(net, n)' = 0
  BY <1>3 DEF PendingInc, PendingDec
<1>6. failedSinks \subseteq failedSinks' /\ (p = <<>> => Sink[c] \in failedSinks')
  BY <1>1 DEF LabeledStep, FailedWith
<1>7. /\ rnodes'[c] = p /\ isRouted'[c] = (p # <<>>)
      /\ \A d \in Conns \ {c} : rnodes'[d] = rnodes[d] /\ isRouted'[d] = isRouted[d]
      /\ p # <<>> => p \in Paths[c]
  BY <1>1, <1>2 DEF LabeledStep, TypeOK
<1>8. CASE net # NetOf[c]
  <2>1. users'[net] = users[net]
    <3>1. users' = [users EXCEPT ![NetOf[c]] = users'[NetOf[c]]] /\ DOMAIN users = Nets
      BY <1>1, <1>2 DEF LabeledStep, TypeOK
    <3>2. QED  BY <1>8, <3>1
  <2>2. \A d \in ConnsOf(net) : rnodes'[d] = rnodes[d] /\ isRouted'[d] = isRouted[d]
    BY <1>7, <1>8 DEF ConnsOf
  <2>3. \A n : ChargedOf(net, n)' = ChargedOf(net, n)
    BY <2>2 DEF ChargedOf, Charge, RipNodes
  <2>4. RoutesArePaths(net)' /\ KeysCount(net)'
    BY <1>2, <1>6, <2>1, <2>2 DEF NetInv, RoutesArePaths, KeysCount
  <2>5. Balance(net)'
    BY <1>2, <1>5, <1>6, <2>1, <2>3 DEF NetInv, Balance
  <2>6. QED  BY <1>4, <2>4, <2>5 DEF NetInv
<1>9. CASE net = NetOf[c]
  <2> DEFINE u == users[net]  v == users'[net]  S == Charge(c)  P == NodesOf(p)
  <2>1. /\ IsUserMap(v, Nodes) /\ DOMAIN v = RippedKeys(u, S) \cup P /\ c \in NodesOf(Labeled)
        /\ \A x : Count(v, x) = Count(u, x) - (IF x \in S THEN 1 ELSE 0) + (IF x \in P THEN 1 ELSE 0)
    BY <1>1, <1>9 DEF LabeledStep
  <2>2. IsUserMap(u, Nodes) /\ c \in ConnsOf(net) /\ IsLabeled(net)
    BY <1>2, <1>9, <2>1, BatchAssumption, ConnFacts DEF TypeOK, IsLabeled
  <2>3. S \subseteq Nodes /\ Sink[c] \in S
    BY <1>2, <2>2, ChargeFacts DEF NetInv
  <2>4. \A x : Count(u, x) \in Int /\ (x \in DOMAIN u => u[x] = Count(u, x)) /\ (x \notin DOMAIN u => Count(u, x) = 0)
    BY <2>2, MapFacts
  <2>5. \A x : x \in DOMAIN v => v[x] = Count(v, x) /\ x \in Nodes
    BY <2>1, MapFacts
  <2>6. \A n : Count(v, n) = Count(users[net], n)'
    BY DEF Count
  <2> HIDE DEF u, v, S, P
  <2>8. RoutesArePaths(net)'
    BY <1>2, <1>7 DEF NetInv, RoutesArePaths, ConnsOf
  <2>9. /\ Charge(c)' = IF p = <<>> THEN {Sink[c]} ELSE P
        /\ \A d \in Conns \ {c} : Charge(d)' = Charge(d)
        /\ p = <<>> => P = {}
    <3>1. Charge(c)' = IF p = <<>> THEN {Sink[c]} ELSE P
      BY <1>7 DEF Charge, RipNodes, NodesOf, P
    <3>2. \A d \in Conns \ {c} : Charge(d)' = Charge(d)
      BY <1>7 DEF Charge, RipNodes
    <3>3. p = <<>> => P = {}
      BY DEF P, NodesOf
    <3>4. QED  BY <3>1, <3>2, <3>3
  <2>10. ASSUME NEW n \in Nodes, n \notin failedSinks'
         PROVE  /\ Count(u, n) = Cardinality(ChargedOf(net, n)) /\ Count(v, n) = Cardinality(ChargedOf(net, n)')
                /\ Count(v, n) >= 0 /\ (n \in S => Count(u, n) >= 1)
    <3>1. n \notin failedSinks
      BY <1>6, <2>10
    <3>2. Count(u, n) + 0 = Cardinality(ChargedOf(net, n)) + 0
      BY <1>2, <1>5, <3>1 DEF NetInv, Balance, u
    <3>3. PICK A, B : A = ChargedOf(net, n) /\ B = ChargedOf(net, n)'
      OBVIOUS
    <3>4. A \subseteq ConnsOf(net) /\ B \subseteq ConnsOf(net) /\ \A d : d # c => (d \in A <=> d \in B)
      BY <2>9, <3>3 DEF ChargedOf, ConnsOf
    <3>5. (c \in A <=> n \in S) /\ (c \in B <=> n \in Charge(c)')
      BY <2>2, <3>3 DEF ChargedOf, S
    <3>6. n \in Charge(c)' <=> n \in P
      BY <1>6, <2>9, <2>10
    <3>7. /\ Cardinality(A) \in Nat /\ Cardinality(B) \in Nat /\ IsFiniteSet(A)
          /\ Cardinality(B) + (IF c \in A THEN 1 ELSE 0) = Cardinality(A) + (IF c \in B THEN 1 ELSE 0)
      BY <3>4, NetConns, OneChanges
    <3>8. Count(v, n) = Cardinality(B)
      BY <2>1, <2>4, <3>2, <3>3, <3>5, <3>6, <3>7
    <3>9. n \in S => Cardinality(A) >= 1
      <4>1. n \in S => A # {}
        BY <3>5
      <4>2. Cardinality(A) = 0 <=> A = {}
        BY <3>7, FS_EmptySet
      <4>3. QED  BY <3>7, <4>1, <4>2
    <3>10. QED  BY <2>4, <3>2, <3>3, <3>7, <3>8, <3>9
  <2>11. Balance(net)'
    <3>1. \A n \in Nodes : n \notin failedSinks' =>
            Count(v, n) = Cardinality(ChargedOf(net, n)') /\ Count(v, n) \in Int
      BY <2>1, <2>4, <2>10
    <3>2. QED  BY <1>5, <2>6, <3>1 DEF Balance
  <2>12. KeysCount(net)'
    <3>1. ASSUME NEW n \in DOMAIN v, n \notin failedSinks' PROVE v[n] >= 1
      <4>1. n \in Nodes /\ v[n] = Count(v, n) /\ (n \in S => Count(u, n) >= 1)
        BY <2>5, <2>10, <3>1
      <4>2. n \in DOMAIN u => Count(u, n) >= 1
        BY <1>2, <1>6, <2>4, <3>1 DEF NetInv, KeysCount, u
      <4>3. n \in P \/ ((n \in DOMAIN u \/ n \in S) /\ ~(n \in S /\ Count(u, n) = 1))
        BY <2>1, <3>1 DEF RippedKeys
      <4>4. QED  BY <2>1, <2>4, <4>1, <4>2, <4>3
    <3>2. \A n \in DOMAIN v : (n \in failedSinks' /\ IsLabeled(net)) \/ v[n] >= 1
      BY <2>2, <3>1
    <3>3. QED  BY <3>2 DEF KeysCount, v, IsLabeled, ConnsOf
  <2>13. QED  BY <1>4, <2>8, <2>11, <2>12 DEF NetInv
<1>10. QED  BY <1>8, <1>9

-----------------------------------------------------------------------------
\* Occupancies

\* The occupancies follow when the users of one net change.
LEMMA OccFollows ==
  ASSUME TypeOK, OccupancyMatchesUsers, NEW net \in Nets, users' = [users EXCEPT ![net] = users'[net]],
         IsUserMap(users'[net], Nodes),
         failedSinks \subseteq failedSinks',
         \A n \in Nodes \ failedSinks' :
           /\ occ'[n] \in Int
           /\ occ'[n] + (IF Count(users[net], n) >= 1 THEN 1 ELSE 0)
                = occ[n] + (IF Count(users'[net], n) >= 1 THEN 1 ELSE 0)
  PROVE  OccupancyMatchesUsers'
<1>1. SUFFICES ASSUME NEW n \in Nodes \ failedSinks'
               PROVE  occ'[n] = Cardinality({m \in Nets : n \in Used(users[m])}')
  BY DEF OccupancyMatchesUsers
<1>2. PICK A, B : A = {m \in Nets : n \in Used(users[m])} /\ B = {m \in Nets : n \in Used(users[m])}'
  OBVIOUS
<1>3. \A m \in Nets \ {net} : users'[m] = users[m]
  BY DEF TypeOK
<1>4. A \subseteq Nets /\ B \subseteq Nets /\ \A m : m # net => (m \in A <=> m \in B)
  BY <1>2, <1>3
<1>5. (net \in A <=> Count(users[net], n) >= 1) /\ (net \in B <=> Count(users'[net], n) >= 1)
  <2>1. IsUserMap(users[net], Nodes)
    BY DEF TypeOK
  <2>2. /\ n \in Used(users[net]) <=> Count(users[net], n) >= 1
        /\ n \in Used(users'[net]) <=> Count(users'[net], n) >= 1
    BY <2>1, MapFacts
  <2>3. QED  BY <1>2, <2>2
<1>6. /\ Cardinality(A) \in Nat /\ Cardinality(B) \in Nat
      /\ Cardinality(B) + (IF net \in A THEN 1 ELSE 0) = Cardinality(A) + (IF net \in B THEN 1 ELSE 0)
  <2>1. IsFiniteSet(Nets)
    BY InputAssumption
  <2>2. QED  BY <1>4, <2>1, OneChanges
<1>7. occ[n] = Cardinality(A)
  <2>1. n \in Nodes \ failedSinks
    OBVIOUS
  <2>2. QED  BY <1>2, <2>1 DEF OccupancyMatchesUsers
<1>8. QED  BY <1>2, <1>5, <1>6, <1>7

LEMMA ApplyOcc ==
  ASSUME IInv, NEW t \in Threads, ApplyIncrements(t) \/ Decremented(t)
  PROVE  OccupancyMatchesUsers'
<1>1. TypeOK /\ Control /\ OccupancyMatchesUsers /\ LocalStep(t)
  BY NetStepIsLocal DEF IInv, NetStep
<1>2. PICK net \in Nets : net = Net(t)
  BY <1>1, ApplyFacts
<1>3. /\ users' = [users EXCEPT ![net] = users'[net]] /\ IsUserMap(users'[net], Nodes)
      /\ NetInv(net) /\ ~IsLabeled(net)
  BY <1>1, <1>2, ApplyFacts, AtNet DEF IInv
<1>4. \A n : Count(users[net], n) \in Nat /\ (n \in DOMAIN users[net] <=> Count(users[net], n) >= 1)
  BY <1>1, <1>2, <1>3, CountsAreNat DEF NetInv
<1>5. \A n \in Nodes : toInc[net][n] \in Nat /\ toDec[net][n] \in Nat /\ occ[n] \in Int
  BY <1>1, <1>2 DEF TypeOK
<1>6. CASE ApplyIncrements(t)
  <2>1. \A x \in Nodes : Count(users'[net], x) = Count(users[net], x) + toInc[net][x]
    BY <1>1, <1>2, <1>6, ApplyFacts
  <2>2. \A n \in Nodes : occ'[n] = IF ComeTo(net, n) THEN occ[n] + 1 ELSE occ[n]
    BY <1>2, <1>6 DEF ApplyIncrements
  <2>3. \A n \in Nodes : ComeTo(net, n) <=> toInc[net][n] > 0 /\ n \notin DOMAIN users[net]
    BY DEF ComeTo, NewlyAdded
  <2>4. \A n \in Nodes : /\ occ'[n] \in Int
                         /\ occ'[n] + (IF Count(users[net], n) >= 1 THEN 1 ELSE 0)
                              = occ[n] + (IF Count(users'[net], n) >= 1 THEN 1 ELSE 0)
    BY <1>4, <1>5, <2>1, <2>2, <2>3
  <2>5. failedSinks \subseteq failedSinks'
    BY <1>1 DEF LocalStep
  <2>6. QED  BY <1>1, <1>3, <2>4, <2>5, OccFollows
<1>7. CASE Decremented(t)
  <2>1. \A x \in Nodes : /\ toDec[net][x] <= Count(users[net], x)
                         /\ Count(users'[net], x) = Count(users[net], x) - toDec[net][x]
    BY <1>1, <1>2, <1>7, ApplyFacts
  <2>2. \A n \in Nodes : occ'[n] = IF GivenUp(net, n) THEN occ[n] - 1 ELSE occ[n]
    BY <1>2, <1>7 DEF Decremented
  <2>3. \A n \in Nodes : GivenUp(net, n) <=> toDec[net][n] > 0 /\ Count(users[net], n) = toDec[net][n]
    BY DEF GivenUp
  <2>4. \A n \in Nodes : /\ occ'[n] \in Int
                         /\ occ'[n] + (IF Count(users[net], n) >= 1 THEN 1 ELSE 0)
                              = occ[n] + (IF Count(users'[net], n) >= 1 THEN 1 ELSE 0)
    BY <1>4, <1>5, <2>1, <2>2, <2>3
  <2>5. failedSinks \subseteq failedSinks'
    BY <1>1 DEF LocalStep
  <2>6. QED  BY <1>1, <1>3, <2>4, <2>5, OccFollows
<1>8. QED  BY <1>6, <1>7

LEMMA LabeledOcc ==
  ASSUME IInv, RouteLabeled
  PROVE  OccupancyMatchesUsers'
<1>1. PICK c, p : LabeledStep(c, p)
  BY LabeledIs DEF IInv
<1>2. TypeOK /\ OccupancyMatchesUsers /\ c \in Conns
  BY <1>1 DEF LabeledStep, IInv
<1>3. PICK net \in Nets : net = NetOf[c]
  BY <1>2, ConnFacts
<1>4. PICK u, S, P : u = users[net] /\ S = Charge(c) /\ P = NodesOf(p)
  OBVIOUS
<1>5. /\ users' = [users EXCEPT ![net] = users'[net]] /\ IsUserMap(users'[net], Nodes)
      /\ \A x : Count(users'[net], x) =
           Count(u, x) - (IF x \in S THEN 1 ELSE 0) + (IF x \in P THEN 1 ELSE 0)
      /\ \A n \in Nodes : occ'[n] = occ[n] - (IF n \in S /\ Count(u, n) = 1 THEN 1 ELSE 0)
                                           + (IF n \in P /\ n \notin RippedKeys(u, S) THEN 1 ELSE 0)
      /\ failedSinks \subseteq failedSinks'
  BY <1>1, <1>3, <1>4 DEF LabeledStep, FailedWith
<1>6. /\ \A x : Count(u, x) \in Int /\ (x \in DOMAIN u => u[x] = Count(u, x)) /\ (x \notin DOMAIN u => Count(u, x) = 0)
      /\ \A n \in Nodes : occ[n] \in Int
  BY <1>2, <1>4, MapFacts DEF TypeOK
<1>7. NetInv(net)
  BY DEF IInv
<1>8. \A n \in DOMAIN u : n \in failedSinks \/ Count(u, n) >= 1
  BY <1>4, <1>6, <1>7 DEF NetInv, KeysCount
<1>9. ASSUME NEW n \in Nodes \ failedSinks'
      PROVE  /\ occ'[n] \in Int
             /\ occ'[n] + (IF Count(users[net], n) >= 1 THEN 1 ELSE 0)
                  = occ[n] + (IF Count(users'[net], n) >= 1 THEN 1 ELSE 0)
  <2>1. PICK k, o, k1, o1 : k = Count(u, n) /\ o = occ[n] /\ k1 = Count(users'[net], n) /\ o1 = occ'[n]
    OBVIOUS
  <2>2. n \notin RippedKeys(u, S) <=> (n \in S /\ k = 1) \/ (n \notin S /\ n \notin DOMAIN u)
    BY <2>1 DEF RippedKeys
  <2>3. /\ k \in Int /\ o \in Int /\ k1 = k - (IF n \in S THEN 1 ELSE 0) + (IF n \in P THEN 1 ELSE 0)
        /\ o1 = o - (IF n \in S /\ k = 1 THEN 1 ELSE 0)
                  + (IF n \in P /\ ((n \in S /\ k = 1) \/ (n \notin S /\ n \notin DOMAIN u)) THEN 1 ELSE 0)
        /\ n \notin DOMAIN u => k = 0
        /\ n \in P /\ n \notin S /\ n \in DOMAIN u => k >= 1
    BY <1>5, <1>6, <1>8, <2>1, <2>2
  <2>4. o1 \in Int /\ o1 + (IF k >= 1 THEN 1 ELSE 0) = o + (IF k1 >= 1 THEN 1 ELSE 0)
    BY <2>3
  <2>5. QED  BY <1>4, <2>1, <2>4
<1>10. QED  BY <1>2, <1>5, <1>9, OccFollows

-----------------------------------------------------------------------------
\* Prices

LEMMA PricesNext ==
  ASSUME IInv, [Next]_vars
  PROVE  PricesFollow'
<1>1. TypeOK /\ Control /\ PricesFollow
  BY DEF IInv
<1>2. \A n \in Nodes : NodeOwner[n] \in Threads
  BY InputAssumption
<1>3. CASE JoinRoute \/ AssertLabeledCount \/ KeepLabeled \/ UNCHANGED vars
           \/ \E t \in Threads : \/ BeginNet(t) \/ KeepConnection(t) \/ RouteConnection(t)
                                 \/ AssertPreDecrement(t) \/ EndNet(t)
  <2>1. UNCHANGED <<priced, occ>>
    BY <1>3 DEF JoinRoute, AssertLabeledCount, KeepLabeled, vars, BeginNet, KeepConnection, RouteConnection,
                AssertPreDecrement, EndNet, nodeVars
  <2>2. CASE UNCHANGED vars
    BY <1>1, <2>2 DEF vars, nodeVars, loopVars, threadVars, PricesFollow, currentBatchStamp
  <2>3. CASE ~UNCHANGED vars
    <3>1. phase \in {"route", "labeled"}
      BY <1>3, <2>3 DEF JoinRoute, AssertLabeledCount, KeepLabeled, BeginNet, KeepConnection, RouteConnection,
                AssertPreDecrement, EndNet
    <3>2. \A n \in Nodes : priced[n] = occ[n]
      BY <1>1, <3>1 DEF PricesFollow
    <3>3. QED  BY <2>1, <3>2 DEF PricesFollow
  <2>4. QED  BY <2>2, <2>3
<1>4. ASSUME NEW t \in Threads, ApplyIncrements(t) \/ Decremented(t) PROVE PricesFollow'
  <2>1. phase = "updateNets" /\ phase' = phase /\ currentBatchStamp' = currentBatchStamp /\ priced' = priced
    BY <1>4 DEF ApplyIncrements, Decremented, loopVars, currentBatchStamp
  <2>2. \A n \in Nodes : \/ occ'[n] = occ[n] /\ stamp'[n] = stamp[n]
                         \/ stamp'[n] = currentBatchStamp
    BY <1>4 DEF ApplyIncrements, Decremented
  <2>3. QED  BY <1>1, <2>1, <2>2 DEF PricesFollow
<1>5. CASE JoinNets
  BY <1>1, <1>2, <1>5 DEF JoinNets, nodeVars, PricesFollow, currentBatchStamp
<1>6. ASSUME NEW t \in Threads, UpdatePrices(t) PROVE PricesFollow'
  <2>1. /\ phase = "updatePrices" /\ phase' = phase /\ currentBatchStamp' = currentBatchStamp
        /\ occ' = occ /\ stamp' = stamp /\ \A u \in Threads : u # t => pc'[u] = pc[u]
        /\ \A n \in Nodes : priced'[n] =
             IF NodeOwner[n] = t /\ stamp[n] = currentBatchStamp THEN occ[n] ELSE priced[n]
    BY <1>1, <1>6 DEF UpdatePrices, loopVars, currentBatchStamp, MustReprice, TypeOK
  <2>2. QED  BY <1>1, <1>2, <2>1 DEF PricesFollow
<1>7. CASE JoinPrices
  <2>1. \A n \in Nodes : priced[n] = occ[n]
    BY <1>1, <1>2, <1>7 DEF JoinPrices, PricesFollow
  <2>2. UNCHANGED <<priced, occ>>
    BY <1>7 DEF JoinPrices, nodeVars
  <2>3. QED  BY <2>1, <2>2 DEF PricesFollow
<1>8. CASE RouteLabeled
  <2>1. PICK c, p : LabeledStep(c, p)
    BY <1>1, <1>8, LabeledIs
  <2>2. \A n \in Nodes : priced[n] = occ[n] /\ occ[n] \in Int
    BY <1>1, <1>8 DEF RouteLabeled, PricesFollow, TypeOK
  <2>3. PICK S, P : S = Charge(c) /\ P = NodesOf(p)
    OBVIOUS
  <2>4. /\ \A n \in Nodes : priced'[n] = IF n \in S \cup P THEN occ'[n] ELSE priced[n]
        /\ \A n \in Nodes \ (S \cup P) : occ'[n] = occ[n] - 0 + 0
    BY <2>1, <2>3 DEF LabeledStep
  <2>5. \A n \in Nodes : priced'[n] = occ'[n]
    BY <2>2, <2>4
  <2>6. QED  BY <2>5 DEF PricesFollow
<1>9. CASE EndIteration
  <2>1. \A n \in Nodes : priced[n] = occ[n]
    BY <1>1, <1>9 DEF EndIteration, PricesFollow
  <2>2. \A n \in Nodes : priced'[n] = occ'[n]
    BY <1>9, <2>1 DEF EndIteration
  <2>3. QED  BY <2>2 DEF PricesFollow
<1>10. QED  BY <1>3, <1>4, <1>5, <1>6, <1>7, <1>8, <1>9, NextIs DEF Main, Working

-----------------------------------------------------------------------------
\* What has moved since the last barrier

\* A connection that has moved was not ignored, and is not ignored afterwards.
LEMMA IgnoredKept ==
  ASSUME IInv, [Next]_vars
  PROVE  Ignored' = Ignored
<1>1. TypeOK
  BY DEF IInv
<1>2. ASSUME NEW c \in Conns, NEW p, ShouldRoute(c), rnodes' = [rnodes EXCEPT ![c] = p],
             isRouted' = [isRouted EXCEPT ![c] = p # <<>>]
      PROVE  Ignored' = Ignored
  <2>1. /\ rnodes'[c] = p /\ isRouted'[c] = (p # <<>>)
        /\ \A d \in Conns \ {c} : rnodes'[d] = rnodes[d] /\ isRouted'[d] = isRouted[d]
    BY <1>1, <1>2 DEF TypeOK
  <2>2. c \notin Ignored
    <3>1. NodesOf(<<>>) = {}
      BY DEF NodesOf
    <3>2. QED  BY <1>2, <3>1 DEF Ignored, ShouldRoute
  <2>3. ~(isRouted'[c] /\ rnodes'[c] = <<>>)
    BY <2>1, Zenon
  <2>4. QED  BY <2>1, <2>2, <2>3 DEF Ignored
<1>3. ASSUME NEW t \in Threads, RouteConnection(t) PROVE Ignored' = Ignored
  <2>1. PICK c, p : c = Conn(t) /\ RoutedStep(t, c, p)
    BY <1>3, RoutedIs DEF IInv
  <2>2. c \in Conns
    BY <1>1, <1>3, <2>1, AtConn DEF IInv, RouteConnection, Routing
  <2>3. QED  BY <1>2, <2>1, <2>2 DEF RoutedStep
<1>4. CASE RouteLabeled
  <2>1. PICK c, p : c = LabeledConn /\ LabeledStep(c, p)
    BY <1>1, <1>4, LabeledIs
  <2>2. c \in Conns /\ ShouldRoute(c)
    BY <1>4, <2>1 DEF LabeledStep, RouteLabeled
  <2>3. QED  BY <1>2, <2>1, <2>2 DEF LabeledStep
<1>5. CASE ~RouteLabeled /\ \A t \in Threads : ~RouteConnection(t)
  <2>1. UNCHANGED <<rnodes, isRouted>>
    BY <1>5, NextIs DEF Main, Working, BeginNet, KeepConnection, AssertPreDecrement, EndNet, ApplyIncrements,
                Decremented, UpdatePrices, JoinRoute, JoinNets, JoinPrices, KeepLabeled, AssertLabeledCount,
                EndIteration, vars, netVars
  <2>2. QED  BY <2>1 DEF Ignored
<1>6. QED  BY <1>3, <1>4, <1>5

\* A connection that has not been dealt with is routed exactly if the barrier
\* says that it must.
LEMMA ShouldIsMoved ==
  ASSUME NEW c \in Conns, RoutesArePaths(NetOf[c]), isRouted[c] \in BOOLEAN,
         rnodes[c] = barrier.routes[c], barrier.occ = occ
  PROVE  ShouldRoute(c) <=> Moved(c)
<1>1. rnodes[c] # <<>> => isRouted[c]
  BY ConnFacts DEF RoutesArePaths
<1>2. NodesOf(<<>>) = {}
  BY DEF NodesOf
<1>3. QED  BY <1>1, <1>2 DEF ShouldRoute, Moved, Ignored

\* Which connections a step in a batch deals with.
LEMMA DoneAtConn ==
  ASSUME TypeOK, Control, NEW t \in Threads, KeepConnection(t) \/ RouteConnection(t)
  PROVE  /\ ~IsDone(Conn(t)) /\ Conn(t) \in Conns
         /\ \A d \in Conns : IsDone(d)' <=> (IsDone(d) \/ d = Conn(t))
<1>1. LocalStep(t) /\ Routing /\ Routing' /\ pc[t] = "conn" /\ AdvanceConn(t)
  BY NetStepIsLocal DEF NetStep, KeepConnection, RouteConnection, Routing, loopVars
<1>2. PICK net : net = Net(t)
  OBVIOUS
<1>3. PICK k : k = netPos[t]
  OBVIOUS
<1>4. /\ k \in 1..Len(Work(t)) /\ net = Work(t)[k] /\ batch \in Batches /\ k \in Nat
      /\ Work(t)' = Work(t) /\ batch' \in Batches /\ netPos'[t] = k /\ net \in Nets
  BY <1>1, <1>2, <1>3, AtNet DEF LocalStep, Net, TypeOK, Work, AdvanceConn
<1>5. PICK c : c = Conn(t)
  OBVIOUS
<1>6. /\ c \in ConnsOf(net) /\ c \in Conns /\ c \notin Passed(t)
      /\ {ConnSeq[net][j] : j \in 1..connPos[t]} = Passed(t) \cup {c}
      /\ connPos[t] = Len(ConnSeq[net]) => Passed(t) \cup {c} = ConnsOf(net)
  BY <1>1, <1>2, <1>5, AtConn
<1>7. \A d \in ConnsOf(net) : IsDone(d) <=> d \in Passed(t)
  <2>1. \A d \in ConnsOf(net) : IsDone(d) <=>
           \/ ~Routing \/ k < netPos[t]
           \/ k = netPos[t] /\ (pc[t] = "endNet" \/ (pc[t] = "conn" /\ d \in Passed(t)))
    BY <1>4, StatusAt
  <2>2. QED  BY <1>1, <1>3, <1>4, <2>1
<1>8. \A d \in ConnsOf(net) : IsDone(d)' <=> d \in Passed(t) \cup {c}
  <2>1. (\A d \in ConnsOf(net) : IsDone(d) <=>
           \/ ~Routing \/ k < netPos[t]
           \/ k = netPos[t] /\ (pc[t] = "endNet" \/ (pc[t] = "conn" /\ d \in Passed(t))))'
    <3>1. (batch \in Batches /\ k \in 1..Len(Work(t)) /\ net = Work(t)[k])'
      BY <1>4
    <3>2. QED  BY <3>1, StatusAtNext
  <2>2. Passed(t)' = Passed(t) \cup {c}
    <3>1. connPos[t] \in Nat /\ connPos'[t] = connPos[t] + 1
      BY <1>1 DEF TypeOK, AdvanceConn
    <3>2. (connPos[t] + 1) - 1 = connPos[t]
      BY <3>1
    <3>3. Net(t)' = net
      BY <1>2, <1>4 DEF Net
    <3>4. Passed(t)' = {ConnSeq[net][j] : j \in 1..connPos[t]}
      BY <3>1, <3>2, <3>3 DEF Passed
    <3>5. QED  BY <1>6, <3>4
  <2>3. pc'[t] = IF connPos[t] = Len(ConnSeq[net]) THEN "endNet" ELSE "conn"
    BY <1>1, <1>2 DEF AdvanceConn, TypeOK
  <2>4. \A d \in ConnsOf(net) : IsDone(d)' <=> pc'[t] = "endNet" \/ (pc'[t] = "conn" /\ d \in Passed(t)')
    BY <1>1, <1>4, <2>1 DEF ConnsOf
  <2>5. QED  BY <1>6, <2>2, <2>3, <2>4
<1>9. ASSUME NEW d \in Conns PROVE IsDone(d)' <=> (IsDone(d) \/ d = c)
  <2>1. CASE NetOf[d] = net
    <3>1. d \in ConnsOf(net)
      BY <2>1 DEF ConnsOf
    <3>2. QED  BY <1>7, <1>8, <3>1
  <2>2. CASE NetOf[d] # net
    <3>1. NetOf[d] \in Nets /\ d \in ConnsOf(NetOf[d]) /\ d # c
      BY <1>6, <2>2, ConnFacts DEF ConnsOf
    <3>2. IsDone(d)' <=> IsDone(d)
      BY <1>1, <1>2, <2>2, <3>1, OtherNets
    <3>3. QED  BY <3>1, <3>2
  <2>3. QED  BY <2>1, <2>2
<1>10. QED  BY <1>5, <1>6, <1>7, <1>9

LEMMA DoneElsewhere ==
  ASSUME TypeOK, Control, NEW t \in Threads,
         BeginNet(t) \/ EndNet(t) \/ ApplyIncrements(t) \/ Decremented(t)
  PROVE  \A d \in Conns : IsDone(d)' <=> IsDone(d)
<1>1. LocalStep(t) /\ phase' = phase
  BY NetStepIsLocal DEF NetStep, LocalStep
<1>2. PICK net : net = Net(t)
  OBVIOUS
<1>3. PICK k : k = netPos[t]
  OBVIOUS
<1>4. /\ k \in 1..Len(Work(t)) /\ net = Work(t)[k] /\ batch \in Batches /\ k \in Nat
      /\ Work(t)' = Work(t) /\ batch' \in Batches /\ net \in Nets /\ Routing' = Routing
  BY <1>1, <1>2, <1>3, AtNet DEF LocalStep, Net, TypeOK, Work, Routing
<1>5. \A d \in ConnsOf(net) : IsDone(d) <=>
           \/ ~Routing \/ k < netPos[t]
           \/ k = netPos[t] /\ (pc[t] = "endNet" \/ (pc[t] = "conn" /\ d \in Passed(t)))
  BY <1>4, StatusAt
<1>6. (\A d \in ConnsOf(net) : IsDone(d) <=>
           \/ ~Routing \/ k < netPos[t]
           \/ k = netPos[t] /\ (pc[t] = "endNet" \/ (pc[t] = "conn" /\ d \in Passed(t))))'
  <2>1. (batch \in Batches /\ k \in 1..Len(Work(t)) /\ net = Work(t)[k])'
    BY <1>4
  <2>2. QED  BY <2>1, StatusAtNext
<1>7. \A d \in ConnsOf(net) : IsDone(d)' <=> IsDone(d)
  <2>1. CASE BeginNet(t)
    <3>1. Routing /\ pc[t] = "net" /\ pc'[t] = "conn" /\ netPos'[t] = k /\ connPos'[t] = 1
      BY <1>3, <2>1 DEF BeginNet, Routing, TypeOK
    <3>2. Passed(t)' = {}
      BY <3>1 DEF Passed
    <3>3. \A d \in ConnsOf(net) : ~IsDone(d) /\ ~IsDone(d)'
      BY <1>3, <1>4, <1>5, <1>6, <3>1, <3>2 DEF ConnsOf
    <3>4. QED  BY <3>3
  <2>2. CASE EndNet(t)
    <3>1. Routing /\ pc[t] = "endNet" /\ k < netPos'[t]
      BY <1>3, <1>4, <2>2 DEF EndNet, Routing, TypeOK
    <3>2. \A d \in ConnsOf(net) : IsDone(d) /\ IsDone(d)'
      BY <1>3, <1>5, <1>6, <3>1 DEF ConnsOf
    <3>3. QED  BY <3>2
  <2>3. CASE ApplyIncrements(t) \/ Decremented(t)
    <3>1. ~Routing
      BY <2>3 DEF ApplyIncrements, Decremented, Routing
    <3>2. \A d \in ConnsOf(net) : IsDone(d) /\ IsDone(d)'
      BY <1>4, <1>5, <1>6, <3>1 DEF ConnsOf
    <3>3. QED  BY <3>2
  <2>4. QED  BY <2>1, <2>2, <2>3
<1>8. ASSUME NEW d \in Conns PROVE IsDone(d)' <=> IsDone(d)
  <2>1. CASE NetOf[d] = net
    <3>1. d \in ConnsOf(net)
      BY <2>1 DEF ConnsOf
    <3>2. QED  BY <1>7, <3>1
  <2>2. CASE NetOf[d] # net
    <3>1. NetOf[d] \in Nets /\ d \in ConnsOf(NetOf[d])
      BY ConnFacts
    <3>2. QED  BY <1>1, <1>2, <2>2, <3>1, OtherNets
  <2>3. QED  BY <2>1, <2>2
<1>9. QED  BY <1>8

LEMMA DoneBetween ==
  ASSUME TypeOK, Control, JoinRoute \/ JoinNets \/ \E t \in Threads : AssertPreDecrement(t) \/ UpdatePrices(t)
  PROVE  \A d \in Conns : IsDone(d)' <=> IsDone(d)
<1>1. batch' = batch /\ \A t \in Threads : Len(Work(t)) \in Nat /\ netPos[t] \in Nat
  BY WorkFacts DEF JoinRoute, JoinNets, AssertPreDecrement, UpdatePrices, loopVars, TypeOK
<1>2. \A t \in Threads : Work(t)' = Work(t)
  BY <1>1 DEF Work
<1>3. CASE JoinRoute
  <2>1. ~Routing' /\ \A t \in Threads : netPos[t] > Len(Work(t))
    BY <1>3 DEF JoinRoute, WorkersDone, Routing
  <2>2. \A t \in Threads : \A k \in 1..Len(Work(t)) : k < netPos[t]
    BY <1>1, <2>1
  <2>3. QED  BY <1>2, <2>1, <2>2 DEF IsDone, IsAt
<1>4. CASE JoinNets \/ \E t \in Threads : UpdatePrices(t)
  <2>1. ~Routing /\ ~Routing'
    BY <1>4 DEF JoinNets, UpdatePrices, Routing, loopVars
  <2>2. QED  BY <1>2, <2>1 DEF IsDone, IsAt
<1>5. CASE \E t \in Threads : AssertPreDecrement(t)
  <2>1. Routing /\ Routing' /\ UNCHANGED <<pc, netPos, connPos>>
    BY <1>5 DEF AssertPreDecrement, Routing, threadVars
  <2>2. \A t \in Threads : Passed(t)' = Passed(t)
    BY <1>2, <2>1 DEF Passed, Net
  <2>3. QED  BY <1>2, <2>1, <2>2 DEF IsDone, IsAt
<1>6. QED  BY <1>3, <1>4, <1>5

\* The part of SinceBarrier that speaks of the batch.
SinceInBatch ==
  /\ barrier.routes \in [Conns -> Seq(Nodes)] /\ barrier.exact \in BOOLEAN
  /\ \A c \in Conns : (IsDone(c) /\ Moved(c)) \/ rnodes[c] = barrier.routes[c]
  /\ failedSinks # {} <=> ~barrier.exact \/ \E c \in Conns : IsDone(c) /\ Moved(c) /\ rnodes[c] = <<>>
  /\ Routing => barrier.occ = occ

\* A step in a batch that deals with no connection.
LEMMA SinceUnmoved ==
  ASSUME IInv, [Next]_vars, InBatch, InBatch', UNCHANGED <<rnodes, failedSinks, barrier>>,
         \A d \in Conns : IsDone(d)' <=> IsDone(d),
         Routing' => Routing /\ occ' = occ
  PROVE  SinceBarrier'
<1>1. Ignored' = Ignored
  BY IgnoredKept
<1>2. \A d \in Conns : Moved(d)' <=> Moved(d)
  BY <1>1 DEF Moved
<1>3. SinceInBatch
  BY DEF IInv, SinceBarrier, SinceInBatch
<1>4. SinceInBatch'
  BY <1>2, <1>3 DEF SinceInBatch
<1>5. QED  BY <1>4 DEF IInv, SinceBarrier, SinceInBatch

\* A step at the barrier.
LEMMA SinceAtBarrier ==
  ASSUME TypeOK', Control', barrier' = [routes |-> rnodes', occ |-> occ', exact |-> failedSinks' = {}],
         InBatch' => phase' = "route" /\ \A t \in Threads : netPos'[t] = 1 /\ pc'[t] = "net"
  PROVE  SinceBarrier'
<1>1. barrier'.routes = rnodes' /\ barrier'.occ = occ' /\ barrier'.exact = (failedSinks' = {})
  OBVIOUS
<1>2. barrier' = [routes |-> barrier'.routes, occ |-> barrier'.occ, exact |-> barrier'.exact]
  OBVIOUS
<1>3. ASSUME InBatch' PROVE \A d \in Conns : ~IsDone(d)'
  <2>1. \A t \in Threads : netPos'[t] = 1 /\ pc'[t] = "net" /\ phase' = "route"
    BY <1>3
  <2>2. ASSUME NEW t \in Threads, NEW k \in 1..Len(Work(t)')
        PROVE  ~(k < netPos'[t]) /\ pc'[t] # "endNet" /\ pc'[t] # "conn"
    BY <2>1
  <2>3. Routing'
    BY <1>3 DEF Routing
  <2>4. QED  BY <2>2, <2>3 DEF IsDone
<1>4. ASSUME InBatch'
      PROVE  /\ barrier'.routes \in [Conns -> Seq(Nodes)] /\ barrier'.exact \in BOOLEAN
             /\ \A c \in Conns : (IsDone(c) /\ Moved(c))' \/ rnodes'[c] = barrier'.routes[c]
             /\ failedSinks' # {} <=> ~barrier'.exact \/ \E c \in Conns : (IsDone(c) /\ Moved(c) /\ rnodes[c] = <<>>)'
             /\ Routing' => barrier'.occ = occ'
  <2>1. \A d \in Conns : ~IsDone(d)'
    BY <1>3, <1>4
  <2>2. rnodes' \in [Conns -> Seq(Nodes)]
    BY DEF TypeOK
  <2>3. QED  BY <1>1, <2>1, <2>2
<1>5. QED  BY <1>1, <1>2, <1>4 DEF SinceBarrier

LEMMA SinceRouted ==
  ASSUME IInv, NEW t \in Threads, KeepConnection(t) \/ RouteConnection(t), [Next]_vars
  PROVE  SinceBarrier'
<1>1. TypeOK /\ Control /\ SinceBarrier
  BY DEF IInv
<1>2. PICK c : c = Conn(t)
  OBVIOUS
<1>3. ~IsDone(c) /\ c \in Conns /\ \A d \in Conns : IsDone(d)' <=> (IsDone(d) \/ d = c)
  BY <1>1, <1>2, DoneAtConn
<1>4. /\ Routing /\ Routing' /\ InBatch /\ InBatch' /\ UNCHANGED <<barrier, occ>>
  BY DEF KeepConnection, RouteConnection, Routing, InBatch, loopVars, nodeVars, history
<1>5. SinceInBatch /\ rnodes[c] = barrier.routes[c] /\ barrier.occ = occ
  BY <1>1, <1>3, <1>4 DEF SinceBarrier, SinceInBatch
<1>6. ShouldRoute(c) <=> Moved(c)
  <2>1. RoutesArePaths(NetOf[c]) /\ isRouted[c] \in BOOLEAN
    BY <1>1, <1>3, ConnFacts DEF IInv, NetInv, TypeOK
  <2>2. QED  BY <1>3, <1>5, <2>1, ShouldIsMoved
<1>7. \A d \in Conns : Moved(d)' <=> Moved(d)
  BY <1>4, IgnoredKept DEF Moved
<1>8. SinceInBatch'
  <2>1. CASE KeepConnection(t)
    <3>1. UNCHANGED <<rnodes, failedSinks>> /\ ~Moved(c)
      BY <1>2, <1>6, <2>1 DEF KeepConnection, netVars, loopVars, history
    <3>2. QED  BY <1>3, <1>4, <1>5, <1>7, <3>1 DEF SinceInBatch
  <2>2. CASE RouteConnection(t)
    <3>1. PICK p : RoutedStep(t, c, p)
      BY <1>1, <1>2, <2>2, RoutedIs
    <3>2. Moved(c) /\ rnodes'[c] = p /\ \A d \in Conns \ {c} : rnodes'[d] = rnodes[d]
      BY <1>1, <1>3, <1>6, <3>1 DEF RoutedStep, TypeOK
    <3>3. failedSinks' # {} <=> (failedSinks # {} \/ p = <<>>)
      <4>1. failedSinks' = IF p = <<>> THEN failedSinks \cup {Sink[c]} ELSE failedSinks
        BY <3>1 DEF RoutedStep
      <4>2. QED  BY <4>1
    <3>4. (\E d \in Conns : (IsDone(d) /\ Moved(d) /\ rnodes[d] = <<>>)') <=>
            (\E d \in Conns : IsDone(d) /\ Moved(d) /\ rnodes[d] = <<>>) \/ p = <<>>
      BY <1>3, <1>7, <3>2
    <3>5. \A d \in Conns : (IsDone(d) /\ Moved(d))' \/ rnodes'[d] = barrier.routes[d]
      BY <1>3, <1>5, <1>7, <3>2 DEF SinceInBatch
    <3>6. QED  BY <1>4, <1>5, <3>3, <3>4, <3>5 DEF SinceInBatch
  <2>3. QED  BY <2>1, <2>2
<1>9. QED  BY <1>1, <1>4, <1>8 DEF SinceBarrier, SinceInBatch

LEMMA SinceNext ==
  ASSUME IInv, [Next]_vars
  PROVE  SinceBarrier'
<1>1. TypeOK /\ Control /\ SinceBarrier /\ TypeOK' /\ Control'
  <2>1. TypeOK' /\ Control'
    BY TypeNext, ControlNext
  <2>2. QED  BY <2>1 DEF IInv
<1>2. ASSUME NEW t \in Threads, BeginNet(t) \/ EndNet(t) \/ ApplyIncrements(t) \/ Decremented(t)
      PROVE  SinceBarrier'
  <2>1. InBatch /\ InBatch' /\ UNCHANGED <<rnodes, failedSinks, barrier>> /\ (Routing' => Routing /\ occ' = occ)
    BY <1>2 DEF BeginNet, EndNet, ApplyIncrements, Decremented, InBatch, Routing, netVars, nodeVars,
                loopVars, history
  <2>2. \A d \in Conns : IsDone(d)' <=> IsDone(d)
    BY <1>1, <1>2, DoneElsewhere
  <2>3. QED  BY <2>1, <2>2, SinceUnmoved
<1>3. CASE JoinRoute \/ JoinNets \/ \E t \in Threads : AssertPreDecrement(t) \/ UpdatePrices(t)
  <2>1. InBatch /\ InBatch' /\ UNCHANGED <<rnodes, failedSinks, barrier>> /\ (Routing' => Routing /\ occ' = occ)
    BY <1>3 DEF JoinRoute, JoinNets, AssertPreDecrement, UpdatePrices, InBatch, Routing, netVars, nodeVars,
                loopVars, history
  <2>2. \A d \in Conns : IsDone(d)' <=> IsDone(d)
    BY <1>1, <1>3, DoneBetween
  <2>3. QED  BY <2>1, <2>2, SinceUnmoved
<1>4. CASE JoinPrices
  <2>1. /\ barrier' = [routes |-> rnodes, occ |-> occ, exact |-> failedSinks = {}]
        /\ rnodes' = rnodes /\ occ' = occ /\ failedSinks' = failedSinks /\ phase' \in {"route", "labeled"}
        /\ \A t \in Threads : netPos'[t] = 1 /\ pc'[t] = "net"
    BY <1>4 DEF JoinPrices, netVars, nodeVars
  <2>2. QED  BY <1>1, <2>1, SinceAtBarrier DEF InBatch
<1>5. CASE KeepLabeled \/ AssertLabeledCount \/ EndIteration
  <2>1. /\ ~InBatch /\ UNCHANGED <<rnodes, occ, failedSinks, barrier, pc, netPos>>
        /\ phase' \in {"labeled", "labeledAborted", "route", "converged", "handedOver"}
    BY <1>5 DEF KeepLabeled, AssertLabeledCount, EndIteration, InBatch, netVars, nodeVars, history, threadVars,
                LabeledUnchanged
  <2>2. barrier' = [routes |-> rnodes', occ |-> occ', exact |-> failedSinks' = {}]
    BY <1>1, <2>1 DEF SinceBarrier
  <2>3. \A t \in Threads : netPos'[t] = 1 /\ pc'[t] = "net"
    BY <1>1, <2>1 DEF Control
  <2>4. QED  BY <1>1, <2>1, <2>2, <2>3, SinceAtBarrier DEF InBatch
<1>6. CASE RouteLabeled
  <2>1. PICK c, p : LabeledStep(c, p)
    BY <1>1, <1>6, LabeledIs
  <2>2. barrier' = [routes |-> rnodes', occ |-> occ', exact |-> failedSinks' = {}] /\ phase' = "labeled"
    BY <1>6, <2>1 DEF LabeledStep, RouteLabeled
  <2>3. QED  BY <1>1, <2>2, SinceAtBarrier DEF InBatch
<1>7. CASE UNCHANGED vars
  <2>1. /\ UNCHANGED <<rnodes, isRouted, failedSinks, occ, barrier, phase, batch, pc, netPos, connPos>>
    BY <1>7 DEF vars, netVars, nodeVars, loopVars, threadVars, history
  <2>2. Routing' = Routing /\ InBatch' = InBatch /\ \A t \in Threads : Work(t)' = Work(t) /\ Passed(t)' = Passed(t)
    BY <2>1 DEF Routing, InBatch, Work, Passed, Net
  <2>3. \A d \in Conns : (IsDone(d)' <=> IsDone(d)) /\ (Moved(d)' <=> Moved(d))
    BY <2>1, <2>2 DEF IsDone, IsAt, Moved, Ignored
  <2>4. QED  BY <1>1, <2>1, <2>2, <2>3 DEF SinceBarrier
<1>8. QED  BY <1>2, <1>3, <1>4, <1>5, <1>6, <1>7, SinceRouted, NextIs DEF Main, Working

-----------------------------------------------------------------------------
\* The invariant

LEMMA InitInv == Init => IInv
<1> SUFFICES ASSUME Init PROVE IInv
  OBVIOUS
<1>1. 0 \in Batches /\ 1 \in 1..MaxIter
  BY BatchAssumption, BoundsAssumption DEF Batches
<1>2. \A net \in Nets : SinksOf(net) \subseteq Nodes
  <2>1. \A net \in Nets : SinksOf(net) \subseteq Sinks /\ Sinks \subseteq Nodes
    BY NetConns
  <2>2. QED  BY <2>1
<1>3. \A net \in Nets : /\ DOMAIN users[net] = SinksOf(net)
                         /\ users[net] = [n \in DOMAIN users[net] |-> users[net][n]]
                         /\ \A n \in SinksOf(net) : users[net][n] = 1
  <2>1. users = [net \in Nets |-> [n \in SinksOf(net) |-> 1]]
    BY DEF Init, SinksOf
  <2>2. QED  BY <2>1
<1>4. ASSUME NEW net \in Nets
      PROVE  /\ IsUserMap(users[net], Nodes) /\ Used(users[net]) = SinksOf(net)
             /\ \A n \in DOMAIN users[net] : users[net][n] >= 1
  <2>1. PICK m, D : m = users[net] /\ D = SinksOf(net)
    OBVIOUS
  <2>2. DOMAIN m = D /\ m = [n \in DOMAIN m |-> m[n]] /\ D \subseteq Nodes /\ \A n \in D : m[n] = 1
    BY <1>2, <1>3, <2>1
  <2>3. IsUserMap(m, Nodes) /\ Used(m) = D /\ \A n \in DOMAIN m : m[n] >= 1
    BY <2>2 DEF IsUserMap, Used
  <2>4. QED  BY <2>1, <2>3
<1>5. None \in [Nodes -> Nat] /\ \A n \in Nodes : None[n] = 0
  BY DEF None
<1>6. TypeOK
  <2>1. rnodes \in [Conns -> Seq(Nodes)]
    BY EmptySeq DEF Init
  <2>2. isRouted \in [Conns -> BOOLEAN]
    <3>1. PICK marked : isRouted = [c \in Conns |-> c \in marked]
      BY DEF Init
    <3>2. \A c \in Conns : (c \in marked) \in BOOLEAN
      OBVIOUS
    <3>3. QED  BY <3>1, <3>2, Zenon
  <2>3. DOMAIN users = Nets /\ \A net \in Nets : IsUserMap(users[net], Nodes)
    BY <1>4 DEF Init
  <2>4. occ \in [Nodes -> Int] /\ priced \in [Nodes -> Int] /\ stamp \in [Nodes -> Int]
    BY DEF Init
  <2>5. toDec \in [Nets -> [Nodes -> Nat]] /\ toInc \in [Nets -> [Nodes -> Nat]]
    BY <1>5 DEF Init
  <2>6. occChange \in [Threads -> [Nodes -> [stamp : Int, change : Int]]] /\ usedBefore \in [Threads -> SUBSET Nodes]
    BY DEF Init
  <2>7. netPos \in [Threads -> Nat \ {0}] /\ \A t \in Threads : netPos[t] <= Len(Work(t)) + 1
    <3>1. \A t \in Threads : Len(Work(t)) \in Nat
      BY <1>1, WorkFacts DEF Init
    <3>2. QED  BY <3>1 DEF Init
  <2>8. labeledPos \in 1..(Len(Labeled) + 1)
    BY BatchAssumption, LenProperties DEF Init
  <2>9. pc \in [Threads -> {"net", "conn", "endNet", "decrement", "price"}] /\ connPos \in [Threads -> Nat \ {0}]
    BY DEF Init
  <2>10. phase = "route" /\ batch \in Batches /\ iter \in 1..MaxIter /\ failRouteNum \in Nat /\ failedSinks \subseteq Sinks
    BY <1>1 DEF Init
  <2>11. QED  BY <2>1, <2>2, <2>3, <2>4, <2>5, <2>6, <2>7, <2>8, <2>9, <2>10 DEF TypeOK
<1>7. Control
  BY DEF Init, Control, InBatch, Routing
<1>8. ASSUME NEW net \in Nets PROVE NetInv(net)
  <2>1. \A n : Count(users[net], n) = IF n \in SinksOf(net) THEN 1 ELSE 0
    BY <1>3 DEF Count
  <2>2. \A c \in Conns : rnodes[c] = <<>> /\ NodesOf(rnodes[c]) = {}
    BY DEF Init, NodesOf
  <2>3. RoutesArePaths(net)
    BY <2>2 DEF RoutesArePaths, ConnsOf
  <2>4. ~IsDeferred(net) /\ ~IsIncremented(net)
    <3>1. \A t \in Threads : \A k \in 1..Len(Work(t)) : ~Deferred(t, k) /\ ~Incremented(t, k)
      BY DEF Init, Deferred, Incremented, Routing
    <3>2. QED  BY <3>1 DEF IsDeferred, IsIncremented
  <2>5. \A n \in Nodes : Cardinality(ChargedOf(net, n)) = IF n \in SinksOf(net) THEN 1 ELSE 0
    <3>1. \A c \in Conns : Charge(c) = {Sink[c]}
      BY <2>2 DEF Charge, RipNodes, NodesOf
    <3>2. ASSUME NEW n \in Nodes PROVE Cardinality(ChargedOf(net, n)) = IF n \in SinksOf(net) THEN 1 ELSE 0
      <4>1. CASE n \in SinksOf(net)
        <5>1. PICK c \in ConnsOf(net) : n = Sink[c]
          BY <4>1 DEF SinksOf
        <5>2. \A d \in ConnsOf(net) : Sink[d] = n => d = c
          BY <5>1, InputAssumption DEF ConnsOf
        <5>3. ChargedOf(net, n) = {c}
          BY <3>1, <5>1, <5>2 DEF ChargedOf, ConnsOf
        <5>4. QED  BY <4>1, <5>3, FS_Singleton
      <4>2. CASE n \notin SinksOf(net)
        <5>1. ChargedOf(net, n) = {}
          BY <3>1, <4>2 DEF ChargedOf, ConnsOf, SinksOf
        <5>2. QED  BY <4>2, <5>1, FS_EmptySet
      <4>3. QED  BY <4>1, <4>2
    <3>3. QED  BY <3>2
  <2>6. Balance(net)
    <3>1. \A n : PendingInc(net, n) = 0 /\ PendingDec(net, n) = 0
      BY <2>4 DEF PendingInc, PendingDec
    <3>2. QED  BY <2>1, <2>5, <3>1 DEF Balance
  <2>7. GivesBackWhatCounts(net)
    BY <2>4 DEF GivesBackWhatCounts
  <2>8. KeysCount(net)
    BY <1>4 DEF KeysCount
  <2>9. QED  BY <2>3, <2>6, <2>7, <2>8 DEF NetInv
<1>9. \A t \in Threads : AddsWhatIsPassed(t)
  BY DEF Init, AddsWhatIsPassed
<1>10. OccupancyMatchesUsers
  <2>1. ASSUME NEW n \in Nodes
        PROVE  Cardinality({net \in Nets : n \in Used(users[net])}) = IF n \in Sinks THEN 1 ELSE 0
    <3>1. \A net \in Nets : n \in Used(users[net]) <=> n \in SinksOf(net)
      BY <1>4
    <3>2. CASE n \in Sinks
      <4>1. PICK c \in Conns : n = Sink[c]
        BY <3>2 DEF Sinks
      <4>2. \A net \in Nets : n \in SinksOf(net) <=> net = NetOf[c]
        BY <4>1, InputAssumption DEF SinksOf, ConnsOf
      <4>3. {net \in Nets : n \in Used(users[net])} = {NetOf[c]}
        BY <3>1, <4>1, <4>2, ConnFacts
      <4>4. QED  BY <3>2, <4>3, FS_Singleton
    <3>3. CASE n \notin Sinks
      <4>1. {net \in Nets : n \in Used(users[net])} = {}
        BY <3>1, <3>3 DEF SinksOf, Sinks, ConnsOf
      <4>2. QED  BY <3>3, <4>1, FS_EmptySet
    <3>4. QED  BY <3>2, <3>3
  <2>2. QED  BY <2>1 DEF Init, OccupancyMatchesUsers
<1>11. PricesFollow
  BY DEF Init, PricesFollow
<1>12. SinceBarrier
  <2>1. \A d \in Conns : ~IsDone(d)
    BY DEF Init, IsDone, Routing
  <2>2. /\ barrier = [routes |-> barrier.routes, occ |-> barrier.occ, exact |-> barrier.exact]
        /\ barrier.routes = rnodes /\ barrier.occ = occ /\ barrier.exact = (failedSinks = {}) /\ failedSinks = {}
    BY DEF Init
  <2>3. InBatch
    BY DEF Init, InBatch
  <2>4. QED  BY <1>6, <2>1, <2>2, <2>3 DEF SinceBarrier, TypeOK
<1>13. QED  BY <1>6, <1>7, <1>8, <1>9, <1>10, <1>11, <1>12 DEF IInv

LEMMA NextInv == IInv /\ [Next]_vars => IInv'
<1> SUFFICES ASSUME IInv, [Next]_vars PROVE IInv'
  OBVIOUS
<1>1. TypeOK' /\ Control' /\ PricesFollow' /\ SinceBarrier'
  BY TypeNext, ControlNext, PricesNext, SinceNext
<1>2. ASSUME NEW t \in Threads, NetStep(t)
      PROVE  /\ \A net \in Nets : NetInv(net)'
             /\ \A u \in Threads : AddsWhatIsPassed(u)'
             /\ OccupancyMatchesUsers'
  <2>1. LocalStep(t) /\ TypeOK /\ Control /\ OccupancyMatchesUsers
    BY <1>2, NetStepIsLocal DEF IInv
  <2>2. PICK here : here = Net(t)
    OBVIOUS
  <2>3. NetInv(here)' /\ AddsWhatIsPassed(t)'
    BY <1>2, <2>2, BeginNetInv, KeepNetInv, RouteNetInv, ApplyNetInv DEF NetStep
  <2>4. \A net \in Nets : NetInv(net)'
    <3>1. \A net \in Nets : net # here => NetInv(net)'
      BY <2>1, <2>2, OtherNetsInv
    <3>2. QED  BY <2>3, <3>1
  <2>5. \A u \in Threads : AddsWhatIsPassed(u)'
    BY <2>1, <2>3, OtherThreads
  <2>6. OccupancyMatchesUsers'
    <3>1. CASE ApplyIncrements(t) \/ Decremented(t)
      BY <3>1, ApplyOcc
    <3>2. CASE BeginNet(t) \/ KeepConnection(t) \/ RouteConnection(t) \/ EndNet(t)
      <4>1. UNCHANGED <<users, occ>>
        BY <3>2 DEF BeginNet, KeepConnection, RouteConnection, EndNet, netVars, nodeVars
      <4>2. OccupancyMatchesUsers /\ Nodes \ failedSinks' \subseteq Nodes \ failedSinks
        BY <2>1 DEF LocalStep
      <4>3. QED  BY <4>1, <4>2 DEF OccupancyMatchesUsers
    <3>3. QED  BY <1>2, <3>1, <3>2 DEF NetStep
  <2>7. QED  BY <2>4, <2>5, <2>6
<1>3. CASE RouteLabeled
  <2>1. \A t \in Threads : AddsWhatIsPassed(t)'
    <3>1. ~Routing'
      BY <1>3 DEF RouteLabeled, Routing
    <3>2. QED  BY <3>1 DEF AddsWhatIsPassed
  <2>2. QED  BY <1>1, <1>3, <2>1, LabeledNetInv, LabeledOcc DEF IInv
<1>4. CASE QuietStep
  BY <1>1, <1>4, QuietNetInv DEF IInv
<1>5. RouteLabeled \/ QuietStep \/ \E t \in Threads : NetStep(t)
  BY NextIs DEF Main, Working, QuietStep, NetStep
<1>6. QED  BY <1>1, <1>2, <1>3, <1>4, <1>5 DEF IInv

\* The invariant of the three rounds, for any batches, threads and paths: the
\* types, the balance of each net, the exactness of every occupancy, and what
\* the batch has changed since the barrier (stableFirstRouting.cpp:23-160).
THEOREM StableFirstInvariant == Spec => []IInv
BY InitInv, NextInv, PTL DEF Spec

-----------------------------------------------------------------------------
\* What holds at a barrier

LEMMA NothingPending ==
  ASSUME AtBarrier \/ ~InBatch, NEW net
  PROVE  ~IsDeferred(net) /\ ~IsIncremented(net)
<1>1. CASE phase = "route" /\ \A t \in Threads : netPos[t] = 1 /\ pc[t] = "net"
  <2>1. \A t \in Threads : \A k \in 1..Len(Work(t)) : ~Deferred(t, k) /\ ~Incremented(t, k)
    BY <1>1 DEF Deferred, Incremented
  <2>2. QED  BY <2>1 DEF IsDeferred, IsIncremented
<1>2. CASE phase \notin {"route", "batchAborted", "updateNets"}
  BY <1>2 DEF IsDeferred, IsIncremented, Deferred, Incremented, Routing
<1>3. QED  BY <1>1, <1>2 DEF AtBarrier, InBatch

\* There a net counts exactly the connections that charge a node.
LEMMA ExactAtBarrier ==
  ASSUME IInv, NEW net \in Nets, ~IsDeferred(net), ~IsIncremented(net), NEW n \in Nodes, n \notin failedSinks
  PROVE  /\ Count(users[net], n) = Cardinality(ChargedOf(net, n)) /\ Count(users[net], n) \in Nat
         /\ Count(users[net], n) >= 1 <=> ChargedOf(net, n) # {}
         /\ n \in Used(users[net]) <=> ChargedOf(net, n) # {}
<1>1. PendingInc(net, n) = 0 /\ PendingDec(net, n) = 0 /\ TypeOK /\ Balance(net)
  BY DEF PendingInc, PendingDec, IInv, NetInv
<1>2. IsUserMap(users[net], Nodes)
  BY <1>1 DEF TypeOK
<1>3. Count(users[net], n) + 0 = Cardinality(ChargedOf(net, n)) + 0
  BY <1>1 DEF Balance
<1>4. PICK A : A = ChargedOf(net, n)
  OBVIOUS
<1>5. Cardinality(A) \in Nat /\ (Cardinality(A) = 0 <=> A = {})
  BY <1>4, NetConns, FS_EmptySet
<1>6. Count(users[net], n) = Cardinality(A)
  BY <1>2, <1>3, <1>4, <1>5, MapFacts
<1>7. n \in Used(users[net]) <=> Count(users[net], n) >= 1
  BY <1>2, MapFacts
<1>8. QED  BY <1>4, <1>5, <1>6, <1>7

LEMMA CountsAreRoutes ==
  ASSUME IInv
  PROVE  UsersMatchRoutes
<1>1. SUFFICES ASSUME AtBarrier, NEW net \in Nets, NEW n \in Nodes \ failedSinks
               PROVE  Count(users[net], n) =
                        Cardinality({c \in ConnsOf(net) : n \in NodesOf(rnodes[c])})
                          + (IF \E c \in ConnsOf(net) : Sink[c] = n /\ rnodes[c] = <<>> THEN 1 ELSE 0)
  BY DEF UsersMatchRoutes
<1>2. PICK A, R : A = ChargedOf(net, n) /\ R = {c \in ConnsOf(net) : n \in NodesOf(rnodes[c])}
  OBVIOUS
<1>3. Count(users[net], n) = Cardinality(A)
  BY <1>1, <1>2, NothingPending, ExactAtBarrier
<1>4. ASSUME NEW c \in ConnsOf(net)
      PROVE  c \in A <=> c \in R \/ (rnodes[c] = <<>> /\ Sink[c] = n)
  BY <1>2, ChargeFacts DEF IInv, NetInv, ChargedOf
<1>5. \A c \in R : rnodes[c] # <<>>
  BY <1>2 DEF NodesOf
<1>6. A \subseteq ConnsOf(net) /\ R \subseteq ConnsOf(net) /\ IsFiniteSet(R) /\ Cardinality(R) \in Nat
  <2>1. A \subseteq ConnsOf(net) /\ R \subseteq ConnsOf(net)
    BY <1>2 DEF ChargedOf
  <2>2. QED  BY <2>1, NetConns, FS_Subset, FS_CardinalityType
<1>7. CASE \E c \in ConnsOf(net) : Sink[c] = n /\ rnodes[c] = <<>>
  <2>1. PICK c \in ConnsOf(net) : Sink[c] = n /\ rnodes[c] = <<>>
    BY <1>7
  <2>2. \A d \in ConnsOf(net) : Sink[d] = n => d = c
    BY <2>1, InputAssumption DEF ConnsOf
  <2>3. A = R \cup {c} /\ c \notin R
    BY <1>4, <1>5, <1>6, <2>1, <2>2
  <2>4. Cardinality(A) = Cardinality(R) + 1
    BY <1>6, <2>3, FS_AddElement
  <2>5. QED  BY <1>2, <1>3, <1>7, <2>4
<1>8. CASE ~\E c \in ConnsOf(net) : Sink[c] = n /\ rnodes[c] = <<>>
  <2>1. A = R
    BY <1>4, <1>6, <1>8
  <2>2. QED  BY <1>2, <1>3, <1>6, <1>8, <2>1
<1>9. QED  BY <1>7, <1>8

LEMMA OveruseIsCounted ==
  ASSUME IInv
  PROVE  NoHiddenOveruse
<1>1. SUFFICES ASSUME AtBarrier, NEW n \in Nodes \ failedSinks, NEW over,
                      over = {net \in Nets : \E c \in ConnsOf(net) : n \in NodesOf(rnodes[c])},
                      Cardinality(over) >= 2
               PROVE  occ[n] >= Cardinality(over)
  BY DEF NoHiddenOveruse
<1>2. PICK counting : counting = {net \in Nets : n \in Used(users[net])}
  OBVIOUS
<1>3. over \subseteq counting
  <2>1. ASSUME NEW net \in over PROVE net \in counting
    <3>1. net \in Nets /\ NetInv(net)
      BY <1>1 DEF IInv
    <3>2. PICK c \in ConnsOf(net) : n \in NodesOf(rnodes[c])
      BY <1>1
    <3>3. c \in ChargedOf(net, n)
      <4>1. NodesOf(<<>>) = {}
        BY DEF NodesOf
      <4>2. rnodes[c] # <<>>
        BY <3>2, <4>1
      <4>3. n \in Charge(c)
        BY <3>1, <3>2, <4>2, ChargeFacts DEF NetInv
      <4>4. QED  BY <4>3 DEF ChargedOf
    <3>4. n \in Used(users[net])
      BY <1>1, <3>1, <3>3, NothingPending, ExactAtBarrier
    <3>5. QED  BY <1>2, <3>1, <3>4
  <2>2. QED  BY <2>1
<1>4. IsFiniteSet(counting)
  BY <1>2, InputAssumption, FS_Subset
<1>5. Cardinality(over) <= Cardinality(counting)
  BY <1>3, <1>4, FS_Subset
<1>6. occ[n] = Cardinality(counting)
  BY <1>2 DEF IInv, OccupancyMatchesUsers
<1>7. QED  BY <1>5, <1>6

LEMMA PricesAreExact ==
  ASSUME IInv
  PROVE  PricesExactAtBarrier
BY DEF IInv, PricesFollow, PricesExactAtBarrier, AtBarrier

-----------------------------------------------------------------------------
\* The assertions

\* Without a failed search, what the next connection gives back is counted.
LEMMA RipUpCounts ==
  ASSUME IInv, NEW t \in Threads, failedSinks = {}, Routing, pc[t] = "conn"
  PROVE  PreDecrementAsserts(Conn(t))
<1>1. TypeOK /\ Control
  BY DEF IInv
<1>2. PICK c : c = Conn(t)
  OBVIOUS
<1>3. PICK net : net = Net(t)
  OBVIOUS
<1>4. /\ netPos[t] \in 1..Len(Work(t)) /\ net \in Nets /\ net = Work(t)[netPos[t]] /\ batch \in Batches
      /\ c \in ConnsOf(net) /\ NetOf[c] = net /\ c \notin Passed(t) /\ Passed(t) \subseteq ConnsOf(net)
  BY <1>1, <1>2, <1>3, AtConn, AtNet
<1>5. NetInv(net) /\ IsUserMap(users[net], Nodes)
  BY <1>1, <1>4 DEF IInv, TypeOK
<1>6. IsDeferred(net)
  <2>1. IsDeferred(net) <=> Deferred(t, netPos[t])
    BY <1>4, StatusAt
  <2>2. QED  BY <1>1, <2>1 DEF Deferred
<1>7. ASSUME NEW n \in Charge(c) PROVE PreRipped(c)[n] <= Count(users[net], n)
  <2>1. n \in Nodes
    BY <1>4, <1>5, ChargeFacts DEF NetInv
  <2>2. PreRipped(c)[n] = toDec[net][n] + 1
    BY <1>4, <2>1 DEF PreRipped, CountedOnce, Charge
  <2>3. PICK A, B : A = ChargedOf(net, n) /\ B = {d \in Passed(t) : n \in Charge(d)}
    OBVIOUS
  <2>4. Count(users[net], n) + toInc[net][n] = Cardinality(A) + toDec[net][n]
    BY <1>5, <1>6, <2>1, <2>3 DEF NetInv, Balance, PendingInc, PendingDec
  <2>5. B \cup {c} \subseteq A /\ c \notin B /\ A \subseteq ConnsOf(net)
    BY <1>4, <2>3 DEF ChargedOf
  <2>6. IsFiniteSet(A) /\ IsFiniteSet(B) /\ Cardinality(A) \in Nat /\ Cardinality(B) \in Nat
    BY <1>4, <2>5, NetConns, FS_Subset, FS_CardinalityType
  <2>7. Cardinality(B) + 1 <= Cardinality(A)
    <3>1. Cardinality(B \cup {c}) = Cardinality(B) + 1
      BY <2>5, <2>6, FS_AddElement
    <3>2. Cardinality(B \cup {c}) <= Cardinality(A)
      BY <2>5, <2>6, FS_Subset
    <3>3. QED  BY <3>1, <3>2
  <2>8. toInc[net][n] <= Cardinality(B)
    BY <1>3, <2>1, <2>3 DEF IInv, AddsWhatIsPassed
  <2>9. toInc[net][n] \in Nat /\ toDec[net][n] \in Nat /\ Count(users[net], n) \in Int
    BY <1>1, <1>4, <1>5, <2>1, MapFacts DEF TypeOK
  <2>10. QED  BY <2>2, <2>4, <2>6, <2>7, <2>8, <2>9
<1>8. QED  BY <1>2, <1>4, <1>7 DEF PreDecrementAsserts, Charge

\* Nor does a labeled net count less than nothing of a node it gives back.
LEMMA LabeledCountsAreNat ==
  ASSUME IInv, failedSinks = {}, phase = "labeled", labeledPos <= Len(Labeled)
  PROVE  \A p \in LabeledPaths(LabeledConn) : ~NegativeCount(LabeledConn, p)
<1>1. TypeOK
  BY DEF IInv
<1>2. PICK c : c = LabeledConn
  OBVIOUS
<1>3. labeledPos \in 1..Len(Labeled)
  BY <1>1, BatchAssumption, LenProperties DEF TypeOK
<1>4. c \in Conns /\ NetOf[c] \in Nets /\ c \in ConnsOf(NetOf[c])
  BY <1>2, <1>3, BatchAssumption, ElementOfSeq, ConnFacts DEF LabeledConn
<1>5. PICK net, u, S : net = NetOf[c] /\ u = users[net] /\ S = Charge(c)
  OBVIOUS
<1>6. IsUserMap(u, Nodes) /\ NetInv(net) /\ S \subseteq Nodes
  BY <1>1, <1>4, <1>5, ChargeFacts DEF IInv, TypeOK, NetInv
<1>7. \A x : Count(RippedUsers(c), x) = Count(u, x) - (IF x \in S THEN 1 ELSE 0)
  <2>1. PICK m : m = DecrementUsers(u, S)
    OBVIOUS
  <2>2. RippedUsers(c) = m
    BY <1>5, <2>1 DEF RippedUsers, Charge
  <2>3. \A x : Count(m, x) = Count(u, x) - (IF x \in S THEN 1 ELSE 0)
    BY <1>6, <2>1, TakeSet
  <2>4. QED  BY <2>2, <2>3
<1>8. ASSUME NEW n \in Nodes PROVE Count(u, n) - (IF n \in S THEN 1 ELSE 0) >= 0
  <2>1. ~IsDeferred(net) /\ ~IsIncremented(net)
    BY NothingPending DEF AtBarrier
  <2>2. Count(u, n) \in Nat /\ (Count(u, n) >= 1 <=> ChargedOf(net, n) # {})
    BY <1>4, <1>5, <2>1, ExactAtBarrier
  <2>3. n \in S => c \in ChargedOf(net, n)
    BY <1>4, <1>5 DEF ChargedOf
  <2>4. QED  BY <2>2, <2>3
<1>9. ASSUME NEW p \in LabeledPaths(c), NEW n \in NodesOf(p) PROVE ~(Count(RippedUsers(c), n) < 0)
  <2>1. n \in Nodes
    BY <1>4, ConnFacts DEF LabeledPaths
  <2>2. Count(u, n) \in Int
    BY <1>6, MapFacts
  <2>3. QED  BY <1>7, <1>8, <2>1, <2>2
<1>10. QED  BY <1>2, <1>9 DEF NegativeCount

LEMMA AssertionsNext ==
  ASSUME IInv, AssertionsHoldUntilFailure, [Next]_vars
  PROVE  AssertionsHoldUntilFailure'
<1>0. phase' # "commitAborted"
  <2>1. Control'
    BY ControlNext
  <2>2. QED  BY <2>1 DEF Control
<1>1. SUFFICES ASSUME failedSinks' = {} PROVE phase' \notin {"batchAborted", "labeledAborted"}
  BY <1>0 DEF AssertionsHoldUntilFailure, AssertionsHold
<1>2. failedSinks = {}
  <2>1. ASSUME NEW t \in Threads, Working(t) PROVE failedSinks \subseteq failedSinks'
    BY <2>1 DEF Working, BeginNet, KeepConnection, RouteConnection, AssertPreDecrement, EndNet,
                ApplyIncrements, Decremented, UpdatePrices, loopVars, history
  <2>2. ASSUME RouteLabeled PROVE failedSinks \subseteq failedSinks'
    <3>1. PICK c, p : LabeledStep(c, p)
      BY <2>2, LabeledIs DEF IInv
    <3>2. failedSinks' = IF p = <<>> THEN failedSinks \cup {Sink[c]} ELSE failedSinks
      BY <3>1 DEF LabeledStep, FailedWith
    <3>3. QED  BY <3>2
  <2>3. ASSUME Main, ~RouteLabeled PROVE failedSinks \subseteq failedSinks'
    BY <2>3 DEF Main, JoinRoute, JoinNets, JoinPrices, KeepLabeled, AssertLabeledCount, EndIteration, history
  <2>4. QED  BY <1>1, <2>1, <2>2, <2>3, NextIs DEF vars, loopVars, history
<1>3. phase \notin {"batchAborted", "labeledAborted"}
  BY <1>2 DEF AssertionsHoldUntilFailure, AssertionsHold
<1>4. ASSUME NEW t \in Threads, Working(t) PROVE phase' \notin {"batchAborted", "labeledAborted"}
  <2>1. ~AssertPreDecrement(t)
    BY <1>2, RipUpCounts DEF AssertPreDecrement, Routing
  <2>2. phase' = phase
    BY <1>4, <2>1 DEF Working, BeginNet, KeepConnection, RouteConnection, EndNet, ApplyIncrements,
                Decremented, UpdatePrices, loopVars
  <2>3. QED  BY <1>3, <2>2
<1>5. ASSUME Main PROVE phase' \notin {"batchAborted", "labeledAborted"}
  <2>1. ~AssertLabeledCount
    BY <1>2, LabeledCountsAreNat DEF AssertLabeledCount
  <2>2. QED  BY <1>3, <1>5, <2>1 DEF Main, JoinRoute, JoinNets, JoinPrices, KeepLabeled, RouteLabeled, EndIteration
<1>6. QED  BY <1>3, <1>4, <1>5, NextIs DEF vars, loopVars

-----------------------------------------------------------------------------
\* The properties

\* The occupancy of a node is the number of nets that count it after every
\* step, but for the sink of a failed search, whichever threads apply their
\* deferred changes to it in whatever order (connection.h:87-103, 126-141).
THEOREM OccupancyAlwaysMatches == Spec => []OccupancyMatchesUsers
<1>1. IInv => OccupancyMatchesUsers
  BY DEF IInv
<1>2. QED  BY <1>1, StableFirstInvariant, PTL

\* Each net counts at every barrier exactly the routes it has, but at the sinks
\* of failed searches: what updateNetsWorker adds and takes is what routeWorker
\* deferred.
THEOREM CountsMatchRoutesAtBarrier == Spec => []UsersMatchRoutes
<1>1. IInv => UsersMatchRoutes
  BY CountsAreRoutes
<1>2. QED  BY <1>1, StableFirstInvariant, PTL

\* Where the routes of several nets meet at a barrier, the occupancy counts
\* them all: only at the sink of a failed search can overuse be hidden.
THEOREM OveruseIsNeverHidden == Spec => []NoHiddenOveruse
<1>1. IInv => NoHiddenOveruse
  BY OveruseIsCounted
<1>2. QED  BY <1>1, StableFirstInvariant, PTL

\* The stamps of updateNetsWorker select every node that
\* updatePresentCongCostWorker must re-price (stableFirstRouting.cpp:129-137).
THEOREM PricesExactInEveryRound == Spec => []PricesExactAtBarrier
<1>1. IInv => PricesExactAtBarrier
  BY PricesAreExact
<1>2. QED  BY <1>1, StableFirstInvariant, PTL

\* The assertions of connection.h:84 and aStarRoute.cpp:675 hold as long as no
\* search has failed, and the one of connection.h:93 holds always, for any
\* batches, threads and interleavings.
THEOREM NoAssertionWithoutFailure == Spec => []AssertionsHoldUntilFailure
<1>1. Init => AssertionsHoldUntilFailure
  BY DEF Init, AssertionsHoldUntilFailure, AssertionsHold
<1>2. IInv /\ AssertionsHoldUntilFailure /\ [Next]_vars => AssertionsHoldUntilFailure'
  BY AssertionsNext
<1>3. QED  BY <1>1, <1>2, StableFirstInvariant, PTL DEF Spec

-----------------------------------------------------------------------------
\* Sums over the threads

\* Every set of numbers that is not empty has a least one.
LEMMA LeastNumber ==
  ASSUME NEW T, T \subseteq Nat, T # {}
  PROVE  \E m \in T : \A n \in T : m <= n
<1>1. PICK m \in T : \A n \in T : ~(<<n, m>> \in OpToRel(<, Nat))
  BY NatLessThanWellFounded, WFMin
<1>2. ASSUME NEW n \in T, n < m PROVE FALSE
  <2>1. <<n, m>> \in OpToRel(<, Nat)
    BY <1>2 DEF OpToRel
  <2>2. QED  BY <1>1, <2>1
<1>3. QED  BY <1>2

\* pick takes an element out of every set of elements of S but the empty one.
Picks(pick, S) == \A T \in (SUBSET S) \ {{}} : pick[T] \in T

\* g is the sum of w over the sets of F, element by element as pick has it.
Sums(g, F, w, pick) ==
  \A T \in F : g[T] = IF T = {} THEN 0 ELSE w[pick[T]] + g[T \ {pick[T]}]

\* The sets of at most n elements of S.
UpTo(S, n) == {T \in SUBSET S : Cardinality(T) <= n}

LEMMA SumsUpTo ==
  ASSUME NEW S, IsFiniteSet(S), NEW w \in [S -> Int], NEW pick, Picks(pick, S), NEW n \in Nat,
         NEW g \in [UpTo(S, n) -> Int], Sums(g, UpTo(S, n), w, pick)
  PROVE  \E h \in [UpTo(S, n + 1) -> Int] : Sums(h, UpTo(S, n + 1), w, pick)
<1> DEFINE h == [T \in UpTo(S, n + 1) |-> IF T = {} THEN 0 ELSE w[pick[T]] + g[T \ {pick[T]}]]
<1>1. ASSUME NEW T \in UpTo(S, n + 1), T # {}
      PROVE  pick[T] \in S /\ T \ {pick[T]} \in UpTo(S, n)
  <2>1. T \subseteq S /\ pick[T] \in T /\ Cardinality(T) <= n + 1
    BY <1>1 DEF UpTo, Picks
  <2>2. IsFiniteSet(T)
    BY <2>1, FS_Subset
  <2>3. Cardinality(T \ {pick[T]}) = Cardinality(T) - 1 /\ Cardinality(T) \in Nat
    BY <2>1, <2>2, FS_RemoveElement, FS_CardinalityType
  <2>4. Cardinality(T \ {pick[T]}) <= n
    BY <2>1, <2>3
  <2>5. QED  BY <2>1, <2>4 DEF UpTo
<1>2. h \in [UpTo(S, n + 1) -> Int]
  BY <1>1
<1>3. ASSUME NEW T \in UpTo(S, n) PROVE T \in UpTo(S, n + 1) /\ h[T] = g[T]
  <2>1. T \in SUBSET S /\ Cardinality(T) <= n
    BY DEF UpTo
  <2>2. Cardinality(T) \in Nat
    BY <2>1, FS_Subset, FS_CardinalityType
  <2>3. T \in UpTo(S, n + 1)
    BY <2>1, <2>2 DEF UpTo
  <2>4. g[T] = IF T = {} THEN 0 ELSE w[pick[T]] + g[T \ {pick[T]}]
    BY DEF Sums
  <2>5. QED  BY <2>3, <2>4
<1>4. ASSUME NEW T \in UpTo(S, n + 1)
      PROVE  h[T] = IF T = {} THEN 0 ELSE w[pick[T]] + h[T \ {pick[T]}]
  <2>1. CASE T = {}
    BY <2>1
  <2>2. CASE T # {}
    BY <2>2, <1>1, <1>3
  <2>3. QED  BY <2>1, <2>2
<1> HIDE DEF h
<1>5. Sums(h, UpTo(S, n + 1), w, pick)
  BY <1>4 DEF Sums
<1>6. QED  BY <1>2, <1>5

\* The sum exists: the fold is a function on the sets of elements of S.
LEMMA SumsExist ==
  ASSUME NEW S, IsFiniteSet(S), NEW w \in [S -> Int], NEW pick, Picks(pick, S)
  PROVE  \E g \in [SUBSET S -> Int] : Sums(g, SUBSET S, w, pick)
<1> DEFINE Has(n) == \E g \in [UpTo(S, n) -> Int] : Sums(g, UpTo(S, n), w, pick)
           Lacks == {n \in Nat : ~Has(n)}
<1>1. Has(0)
  <2>1. UpTo(S, 0) = {{}}
    <3>1. ASSUME NEW T \in SUBSET S PROVE Cardinality(T) <= 0 <=> T = {}
      BY FS_Subset, FS_CardinalityType, FS_EmptySet
    <3>2. {} \in SUBSET S
      OBVIOUS
    <3>3. QED  BY <3>1, <3>2 DEF UpTo
  <2> DEFINE g == [T \in {{}} |-> 0]
  <2>2. g \in [UpTo(S, 0) -> Int] /\ Sums(g, UpTo(S, 0), w, pick)
    BY <2>1 DEF Sums
  <2>3. QED  BY <2>2
<1>2. ASSUME NEW n \in Nat, Has(n) PROVE Has(n + 1)
  <2>1. PICK g \in [UpTo(S, n) -> Int] : Sums(g, UpTo(S, n), w, pick)
    BY <1>2
  <2>2. QED  BY <2>1, SumsUpTo
<1> HIDE DEF Has
<1>3. Lacks = {}
  <2>1. SUFFICES ASSUME Lacks # {} PROVE FALSE
    OBVIOUS
  <2>2. PICK m \in Lacks : \A n \in Lacks : m <= n
    BY <2>1, LeastNumber
  <2>3. m # 0 /\ m \in Nat /\ ~Has(m)
    BY <1>1
  <2>4. m - 1 \in Nat /\ ~(m - 1 \in Lacks)
    BY <2>2, <2>3
  <2>5. Has(m - 1)
    BY <2>4
  <2>6. Has((m - 1) + 1)
    BY <2>4, <2>5, <1>2
  <2>7. (m - 1) + 1 = m
    BY <2>3
  <2>8. QED  BY <2>3, <2>6, <2>7
<1>4. Cardinality(S) \in Nat
  BY FS_CardinalityType
<1>5. Has(Cardinality(S))
  BY <1>3, <1>4
<1>6. UpTo(S, Cardinality(S)) = SUBSET S
  <2>1. \A T \in SUBSET S : Cardinality(T) <= Cardinality(S)
    BY FS_Subset
  <2>2. QED  BY <2>1 DEF UpTo
<1>7. QED  BY <1>5, <1>6 DEF Has

\* What fails of no set without failing of a smaller one never fails.
LEMMA NoneFails ==
  ASSUME NEW S, IsFiniteSet(S), NEW Fails, Fails \subseteq SUBSET S,
         \A T \in Fails : \E x \in T : T \ {x} \in Fails
  PROVE  Fails = {}
<1> DEFINE Sizes == {Cardinality(T) : T \in Fails}
<1>1. \A T \in SUBSET S : IsFiniteSet(T) /\ Cardinality(T) \in Nat
  BY FS_Subset, FS_CardinalityType
<1>2. SUFFICES ASSUME Fails # {} PROVE FALSE
  OBVIOUS
<1>3. Sizes \subseteq Nat /\ Sizes # {}
  BY <1>1, <1>2
<1>4. PICK m \in Sizes : \A n \in Sizes : m <= n
  BY <1>3, LeastNumber
<1>5. PICK T \in Fails : m = Cardinality(T)
  OBVIOUS
<1>6. PICK x \in T : T \ {x} \in Fails
  OBVIOUS
<1>7. Cardinality(T \ {x}) = Cardinality(T) - 1
  BY <1>1, <1>6, FS_RemoveElement
<1>8. m <= Cardinality(T \ {x})
  BY <1>4, <1>6
<1>9. QED  BY <1>3, <1>5, <1>7, <1>8

\* A sum of numbers is a number, and a sum of zeros is 0.
LEMMA SumsAreNumbers ==
  ASSUME NEW S, IsFiniteSet(S), NEW w \in [S -> Int], NEW pick, Picks(pick, S),
         NEW g, Sums(g, SUBSET S, w, pick)
  PROVE  /\ \A T \in SUBSET S : g[T] \in Int
         /\ (\A x \in S : w[x] = 0) => g[S] = 0
<1> DEFINE Fails == {T \in SUBSET S : g[T] \notin Int}
           Differ == {T \in SUBSET S : g[T] # 0}
<1>1. ASSUME NEW T \in SUBSET S, T # {}
      PROVE  pick[T] \in T /\ pick[T] \in S /\ T \ {pick[T]} \in SUBSET S /\ g[T] = w[pick[T]] + g[T \ {pick[T]}]
  BY <1>1 DEF Picks, Sums
<1>2. g[{}] = 0 /\ {} \notin Fails /\ {} \notin Differ
  <2>1. g[{}] = 0
    BY DEF Sums
  <2>2. QED  BY <2>1
<1>3. Fails = {}
  <2>1. ASSUME NEW T \in Fails PROVE \E x \in T : T \ {x} \in Fails
    <3>1. T # {}
      BY <1>2
    <3>2. PICK x : x = pick[T]
      OBVIOUS
    <3>3. x \in T /\ w[x] \in Int /\ T \ {x} \in SUBSET S /\ g[T] = w[x] + g[T \ {x}]
      BY <1>1, <3>1, <3>2
    <3>4. g[T \ {x}] \notin Int
      BY <3>3
    <3>5. QED  BY <3>3, <3>4
  <2>2. QED  BY <2>1, NoneFails
<1>4. ASSUME \A x \in S : w[x] = 0 PROVE Differ = {}
  <2>1. ASSUME NEW T \in Differ PROVE \E x \in T : T \ {x} \in Differ
    <3>1. T # {}
      BY <1>2
    <3>2. PICK x : x = pick[T]
      OBVIOUS
    <3>3. x \in T /\ w[x] = 0 /\ T \ {x} \in SUBSET S /\ g[T] = w[x] + g[T \ {x}]
      BY <1>1, <1>4, <3>1, <3>2
    <3>4. g[T \ {x}] # 0
      BY <3>3
    <3>5. QED  BY <3>3, <3>4
  <2>2. QED  BY <2>1, NoneFails
<1>5. QED  BY <1>3, <1>4

\* A sum moves with each of its terms.
LEMMA SumsMove ==
  ASSUME NEW S, IsFiniteSet(S), NEW w \in [S -> Int], NEW v \in [S -> Int], NEW pick, Picks(pick, S),
         NEW g, Sums(g, SUBSET S, w, pick), NEW h, Sums(h, SUBSET S, v, pick),
         NEW x \in S, NEW d \in Int, v[x] = w[x] + d, \A y \in S \ {x} : v[y] = w[y]
  PROVE  h[S] = g[S] + d
<1> DEFINE e(T) == IF x \in T THEN d ELSE 0
           Fails == {T \in SUBSET S : g[T] \in Int /\ h[T] # g[T] + e(T)}
<1>1. \A T \in SUBSET S : g[T] \in Int
  BY SumsAreNumbers
<1>2. ASSUME NEW T \in Fails PROVE \E y \in T : T \ {y} \in Fails
  <2>1. T # {}
    <3>1. g[{}] = 0 /\ h[{}] = 0 /\ e({}) = 0
      BY DEF Sums
    <3>2. T \in SUBSET S /\ h[T] # g[T] + e(T)
      OBVIOUS
    <3>3. SUFFICES ASSUME T = {} PROVE FALSE
      OBVIOUS
    <3> HIDE DEF e
    <3>4. h[{}] # g[{}] + e({})
      BY <3>2, <3>3
    <3>5. QED  BY <3>1, <3>4
  <2>2. PICK y : y = pick[T]
    OBVIOUS
  <2>3. PICK U : U = T \ {y}
    OBVIOUS
  <2>4. y \in T /\ y \in S /\ U \in SUBSET S /\ g[T] = w[y] + g[U] /\ h[T] = v[y] + h[U]
    BY <2>1, <2>2, <2>3 DEF Picks, Sums
  <2>5. g[U] \in Int /\ g[T] \in Int /\ w[y] \in Int /\ h[T] # g[T] + e(T)
    BY <1>1, <2>4
  <2>6. e(T) + w[y] = e(U) + v[y]
    BY <2>3, <2>4, <2>5
  <2>7. h[U] # g[U] + e(U)
    <3>1. SUFFICES ASSUME h[U] = g[U] + e(U) PROVE FALSE
      OBVIOUS
    <3>2. e(T) \in Int /\ e(U) \in Int /\ v[y] \in Int
      BY <2>4
    <3> HIDE DEF e
    <3>3. h[T] = g[T] + e(T)
      BY <2>4, <2>5, <2>6, <3>1, <3>2
    <3>4. QED  BY <2>5, <3>3
  <2>8. QED  BY <2>3, <2>4, <2>5, <2>7
<1>3. Fails = {}
  BY <1>2, NoneFails
<1>4. QED  BY <1>1, <1>3

-----------------------------------------------------------------------------
\* What the workers predict

AnyThread == [T \in (SUBSET Threads) \ {{}} |-> CHOOSE t \in T : TRUE]

\* Predicted(n) is the fold that sums up the changes of the threads.
LEMMA PredictedFolds ==
  ASSUME NEW n
  PROVE  \E fold : /\ fold = CHOOSE i : i = [U \in SUBSET Threads |-> IF U = {} THEN 0
                        ELSE Change(CHOOSE t \in U : TRUE, n) + i[U \ {CHOOSE t \in U : TRUE}]]
                   /\ Predicted(n) = fold[Threads]
BY DEF Predicted, MapThenSumSet, MapThenFoldSet

LEMMA PredictedSums ==
  ASSUME NEW n, NEW w \in [Threads -> Int], \A t \in Threads : w[t] = Change(t, n)
  PROVE  \E g : Sums(g, SUBSET Threads, w, AnyThread) /\ Predicted(n) = g[Threads]
<1>1. Picks(AnyThread, Threads) /\ IsFiniteSet(Threads)
  BY InputAssumption DEF Picks, AnyThread
<1>2. PICK g \in [SUBSET Threads -> Int] : Sums(g, SUBSET Threads, w, AnyThread)
  BY <1>1, SumsExist
<1> DEFINE F(i) == [U \in SUBSET Threads |-> IF U = {} THEN 0
                      ELSE Change(CHOOSE t \in U : TRUE, n) + i[U \ {CHOOSE t \in U : TRUE}]]
<1>3. ASSUME NEW i, NEW U \in SUBSET Threads
      PROVE  F(i)[U] = IF U = {} THEN 0 ELSE w[AnyThread[U]] + i[U \ {AnyThread[U]}]
  <2>1. CASE U = {}
    BY <2>1
  <2>2. CASE U # {}
    <3>1. PICK t : t = CHOOSE u \in U : TRUE
      OBVIOUS
    <3>2. t \in U /\ AnyThread[U] = t /\ t \in Threads
      BY <2>2, <3>1 DEF AnyThread
    <3>3. F(i)[U] = Change(t, n) + i[U \ {t}]
      BY <2>2, <3>1
    <3>4. QED  BY <2>2, <3>2, <3>3
  <2>3. QED  BY <2>1, <2>2
<1>4. PICK fold : fold = (CHOOSE i : i = F(i)) /\ Predicted(n) = fold[Threads]
  BY PredictedFolds
<1>5. g = F(g)
  <2>1. ASSUME NEW U \in SUBSET Threads PROVE g[U] = F(g)[U]
    BY <1>2, <1>3 DEF Sums
  <2> DEFINE h == F(g)
  <2>2. h = [U \in SUBSET Threads |-> h[U]]
    OBVIOUS
  <2>3. \A U \in SUBSET Threads : g[U] = h[U]
    BY <2>1
  <2> HIDE DEF h, F
  <2>4. g = h
    BY <2>2, <2>3
  <2>5. QED  BY <2>4 DEF h
<1>6. fold = F(fold)
  <2>1. \E i : i = F(i)
    BY <1>5
  <2>2. QED  BY <1>4, <2>1, Zenon
<1>7. Sums(fold, SUBSET Threads, w, AnyThread)
  <2>1. ASSUME NEW U \in SUBSET Threads
        PROVE  fold[U] = IF U = {} THEN 0 ELSE w[AnyThread[U]] + fold[U \ {AnyThread[U]}]
    <3>1. fold[U] = F(fold)[U]
      BY <1>6
    <3> HIDE DEF F
    <3>2. QED  BY <1>3, <3>1
  <2>2. QED  BY <2>1 DEF Sums
<1>8. QED  BY <1>4, <1>7

\* The same of the next state.
LEMMA PredictedSumsNext ==
  ASSUME NEW n, NEW w
  PROVE  w \in [Threads -> Int] /\ (\A t \in Threads : w[t] = Change(t, n))' =>
           \E g : Sums(g, SUBSET Threads, w, AnyThread) /\ Predicted(n)' = g[Threads]
<1>1. w \in [Threads -> Int] /\ (\A t \in Threads : w[t] = Change(t, n)) =>
        \E g : Sums(g, SUBSET Threads, w, AnyThread) /\ Predicted(n) = g[Threads]
  BY PredictedSums
<1>2. (w \in [Threads -> Int] /\ (\A t \in Threads : w[t] = Change(t, n)) =>
        \E g : Sums(g, SUBSET Threads, w, AnyThread) /\ Predicted(n) = g[Threads])'
  BY <1>1, PTL
<1>3. QED  BY <1>2

\* A record that one thread adds is predicted.
LEMMA PredictedMoves ==
  ASSUME NEW n, \A t \in Threads : Change(t, n) \in Int, NEW u \in Threads, NEW d \in Int,
         Change(u, n)' = Change(u, n) + d, \A t \in Threads \ {u} : Change(t, n)' = Change(t, n)
  PROVE  Predicted(n) \in Int /\ Predicted(n)' = Predicted(n) + d
<1>1. PICK w : w = [t \in Threads |-> Change(t, n)]
  OBVIOUS
<1>2. PICK v : v = [t \in Threads |-> Change(t, n)']
  OBVIOUS
<1>3. w \in [Threads -> Int] /\ \A t \in Threads : w[t] = Change(t, n)
  BY <1>1
<1>4. \A t \in Threads : v[t] = Change(t, n)'
  BY <1>2
<1>5. v[u] = w[u] + d /\ (\A t \in Threads \ {u} : v[t] = w[t])
  BY <1>3, <1>4
<1>6. v \in [Threads -> Int]
  <2>1. \A t \in Threads : v[t] \in Int
    BY <1>3, <1>5
  <2>2. QED  BY <1>2, <2>1
<1>7. PICK g : Sums(g, SUBSET Threads, w, AnyThread) /\ Predicted(n) = g[Threads]
  BY <1>3, PredictedSums
<1>8. PICK h : Sums(h, SUBSET Threads, v, AnyThread) /\ Predicted(n)' = h[Threads]
  BY <1>4, <1>6, PredictedSumsNext
<1>9. Picks(AnyThread, Threads) /\ IsFiniteSet(Threads)
  BY InputAssumption DEF Picks, AnyThread
<1>10. h[Threads] = g[Threads] + d
  BY <1>3, <1>5, <1>6, <1>7, <1>8, <1>9, SumsMove
<1>11. g[Threads] \in Int
  BY <1>3, <1>7, <1>9, SumsAreNumbers
<1>12. QED  BY <1>7, <1>8, <1>10, <1>11

\* Without a record nothing is predicted.
LEMMA NothingPredicted ==
  ASSUME NEW n, \A t \in Threads : Change(t, n) = 0
  PROVE  Predicted(n) = 0
<1>1. PICK w : w = [t \in Threads |-> 0]
  OBVIOUS
<1>2. w \in [Threads -> Int] /\ \A t \in Threads : w[t] = Change(t, n) /\ w[t] = 0
  BY <1>1
<1>3. PICK g : Sums(g, SUBSET Threads, w, AnyThread) /\ Predicted(n) = g[Threads]
  BY <1>2, PredictedSums
<1>4. Picks(AnyThread, Threads) /\ IsFiniteSet(Threads)
  BY InputAssumption DEF Picks, AnyThread
<1>5. QED  BY <1>2, <1>3, <1>4, SumsAreNumbers
-----------------------------------------------------------------------------
\* The records of a batch

\* The workers have recorded what the batch changes of the net.
IsRecorded(net) ==
  \E t \in Threads : \E k \in 1..Len(Work(t)) : IsAt(net, t, k) /\ (~Routing \/ k < netPos[t])

\* The nets that charge a node: by their routes if they are recorded, and by
\* their routes at the barrier if not.
BarrierCharge(c) == NodesOf(IF barrier.routes[c] = <<>> THEN <<Sink[c]>> ELSE barrier.routes[c])
Charges(net, n) == \E c \in ConnsOf(net) : n \in (IF IsRecorded(net) THEN Charge(c) ELSE BarrierCharge(c))
Charging(n) == {net \in Nets : Charges(net, n)}

\* No record is from a batch to come.
StampsPast ==
  barrier.occ \in [Nodes -> Int] /\ \A t \in Threads : \A n \in Nodes : occChange[t][n].stamp <= currentBatchStamp

\* A worker compares its net with the routes it had at the barrier.
ComparesWithBarrier ==
  Routing => \A t \in Threads : pc[t] # "net" =>
    usedBefore[t] = UNION {NodesOf(barrier.routes[c]) : c \in ConnsOf(Net(t))}

\* The records cover the change of the nets that have been recorded.
RecordsCover ==
  InBatch /\ failedSinks = {} => \A n \in Nodes \ {Sink[c] : c \in Ignored} :
    Cardinality(Charging(n)) - barrier.occ[n] <= Predicted(n)

CommitInv == StampsPast /\ ComparesWithBarrier /\ RecordsCover

\* The stamps grow with every batch.
LEMMA StampGrows ==
  ASSUME TypeOK, [Next]_vars
  PROVE  /\ currentBatchStamp \in Int /\ currentBatchStamp' \in Int /\ currentBatchStamp <= currentBatchStamp'
         /\ (JoinPrices \/ EndIteration) /\ phase' = "route" => currentBatchStamp < currentBatchStamp'
         /\ ~JoinPrices /\ ~EndIteration => currentBatchStamp' = currentBatchStamp
<1>1. NumBatches \in Nat \ {0} /\ iter \in Nat /\ batch \in 0..(NumBatches - 1)
  BY BatchAssumption, BoundsAssumption DEF TypeOK, Batches
<1>2. PICK i, b : i = iter /\ b = batch
  OBVIOUS
<1>3. PICK m : m = i * NumBatches
  OBVIOUS
<1>4. m \in Int /\ (i + 1) * NumBatches = m + NumBatches /\ currentBatchStamp = m + b
  BY <1>1, <1>2, <1>3 DEF currentBatchStamp
<1>5. CASE iter' = iter /\ batch' = batch /\ ~(JoinPrices /\ phase' = "route") /\ ~(EndIteration /\ phase' = "route")
  <2>1. currentBatchStamp' = currentBatchStamp
    BY <1>5 DEF currentBatchStamp
  <2>2. QED  BY <1>1, <1>2, <1>4, <1>5, <2>1
<1>6. CASE JoinPrices /\ phase' = "route"
  <2>1. iter' = i /\ batch' = b + 1
    BY <1>2, <1>6 DEF JoinPrices
  <2>2. currentBatchStamp' = m + (b + 1)
    BY <1>3, <2>1 DEF currentBatchStamp
  <2>3. QED  BY <1>1, <1>2, <1>4, <1>6, <2>2
<1>7. CASE EndIteration /\ phase' = "route"
  <2>1. iter' = i + 1 /\ batch' = 0
    BY <1>2, <1>7 DEF EndIteration
  <2>2. currentBatchStamp' = (m + NumBatches) + 0
    BY <1>4, <2>1 DEF currentBatchStamp
  <2>3. QED  BY <1>1, <1>2, <1>4, <1>7, <2>2
<1>8. CASE ~JoinPrices /\ ~EndIteration
  <2>1. iter' = iter /\ batch' = batch
    BY <1>8 DEF Next, Main, Worker, BeginNet, KeepConnection, RouteConnection, AssertPreDecrement, EndNet,
                ApplyIncrements, ApplyDecrements, UpdatePrices, JoinRoute, JoinNets, KeepLabeled, RouteLabeled,
                AssertLabeledCount, LabeledUnchanged, vars, loopVars
  <2>2. QED  BY <1>5, <1>8, <2>1
<1>9. CASE (JoinPrices \/ EndIteration) /\ phase' # "route"
  <2>1. iter' = iter /\ batch' = batch
    BY <1>9 DEF JoinPrices, EndIteration
  <2>2. QED  BY <1>5, <1>9, <2>1
<1>10. QED  BY <1>6, <1>7, <1>8, <1>9

\* What EndNet adds to the record of a node.
Recorded(t, n) == IF Arrivals(t, n) > 0 THEN Arrivals(t, n) ELSE IF Left(t, n) THEN -1 ELSE 0

LEMMA EndNetRecords ==
  ASSUME TypeOK, Control, NEW t \in Threads, EndNet(t), NEW n \in Nodes
  PROVE  /\ Arrivals(t, n) \in Nat /\ Recorded(t, n) \in Int
         /\ \A u \in Threads : Change(u, n) \in Int
         /\ Change(t, n)' = Change(t, n) + Recorded(t, n)
         /\ \A u \in Threads \ {t} : Change(u, n)' = Change(u, n)
         /\ \A u \in Threads : occChange'[u][n].stamp \in {occChange[u][n].stamp, currentBatchStamp}
<1>1. Arrivals(t, n) \in Nat
  <2>1. Net(t) \in Nets
    BY AtNet DEF EndNet, Control, Routing
  <2>2. {c \in ConnsOf(Net(t)) : n \in NodesOf(rnodes[c])} \subseteq ConnsOf(Net(t)) /\ IsFiniteSet(ConnsOf(Net(t)))
    BY <2>1, NetConns
  <2>3. QED  BY <2>2, FS_Subset, FS_CardinalityType DEF Arrivals
<1>2. \A u \in Threads : /\ occChange[u][n] \in [stamp : Int, change : Int]
                         /\ Change(u, n) \in Int
  BY DEF TypeOK, Change
<1>3. currentBatchStamp' = currentBatchStamp
  BY DEF EndNet, loopVars, currentBatchStamp
<1>4. \A u \in Threads \ {t} : occChange'[u] = occChange[u]
  BY DEF EndNet, TypeOK
<1>5. occChange'[t][n] = IF Arrivals(t, n) > 0 THEN Stamped(occChange[t][n], Arrivals(t, n))
                         ELSE IF Left(t, n) THEN Stamped(occChange[t][n], -1)
                         ELSE occChange[t][n]
  BY DEF EndNet, TypeOK
<1>6. PICK r \in [stamp : Int, change : Int] : r = occChange[t][n]
  BY <1>2
<1>7. PICK a \in Nat : a = Arrivals(t, n)
  BY <1>1
<1>8. PICK s : s = currentBatchStamp
  OBVIOUS
<1>9. \A d : Stamped(r, d).stamp = s /\ Stamped(r, d).change = d + (IF r.stamp = s THEN r.change ELSE 0)
  BY <1>8 DEF Stamped
<1>10. Change(t, n) = (IF r.stamp = s THEN r.change ELSE 0) /\ r.change \in Int
  BY <1>6, <1>8 DEF Change
<1>11. Change(t, n)' = IF occChange'[t][n].stamp = s THEN occChange'[t][n].change ELSE 0
  BY <1>3, <1>8 DEF Change
<1>12. \A u \in Threads \ {t} : Change(u, n)' = Change(u, n)
  BY <1>3, <1>4 DEF Change
<1>13. CASE a > 0
  <2>1. occChange'[t][n] = Stamped(r, a) /\ Recorded(t, n) = a
    BY <1>5, <1>6, <1>7, <1>13 DEF Recorded
  <2>2. Change(t, n)' = a + Change(t, n) /\ occChange'[t][n].stamp = s
    BY <1>9, <1>10, <1>11, <2>1
  <2>3. QED  BY <1>1, <1>2, <1>4, <1>8, <1>12, <2>1, <2>2
<1>14. CASE ~(a > 0) /\ Left(t, n)
  <2>1. occChange'[t][n] = Stamped(r, -1) /\ Recorded(t, n) = -1
    BY <1>5, <1>6, <1>7, <1>14 DEF Recorded
  <2>2. Change(t, n)' = -1 + Change(t, n) /\ occChange'[t][n].stamp = s
    BY <1>9, <1>10, <1>11, <2>1
  <2>3. QED  BY <1>1, <1>2, <1>4, <1>8, <1>12, <2>1, <2>2
<1>15. CASE ~(a > 0) /\ ~Left(t, n)
  <2>1. occChange'[t][n] = r /\ Recorded(t, n) = 0
    BY <1>5, <1>6, <1>7, <1>15 DEF Recorded
  <2>2. Change(t, n)' = Change(t, n)
    BY <1>10, <1>11, <2>1
  <2>3. QED  BY <1>1, <1>2, <1>4, <1>6, <1>12, <2>1, <2>2
<1>16. QED  BY <1>13, <1>14, <1>15

LEMMA StampsNext ==
  ASSUME IInv, StampsPast, [Next]_vars
  PROVE  StampsPast'
<1>1. /\ TypeOK /\ TypeOK' /\ Control /\ currentBatchStamp \in Int /\ currentBatchStamp' \in Int
      /\ currentBatchStamp <= currentBatchStamp'
  <2>1. TypeOK'
    BY TypeNext
  <2>2. TypeOK /\ Control
    BY DEF IInv
  <2>3. QED  BY <2>1, <2>2, StampGrows
<1>2. barrier'.occ \in [Nodes -> Int]
  <2>1. CASE UNCHANGED barrier
    BY <2>1 DEF StampsPast
  <2>2. CASE JoinPrices
    BY <1>1, <2>2 DEF JoinPrices, TypeOK
  <2>3. CASE RouteLabeled
    <3>1. PICK c, p : LabeledStep(c, p)
      BY <1>1, <2>3, LabeledIs
    <3>2. barrier'.occ = occ'
      BY <3>1 DEF LabeledStep
    <3>3. QED  BY <1>1, <3>2 DEF TypeOK
  <2>4. UNCHANGED barrier \/ JoinPrices \/ RouteLabeled
    BY NextIs DEF Main, Working, BeginNet, KeepConnection, RouteConnection, AssertPreDecrement, EndNet,
           ApplyIncrements, Decremented, UpdatePrices, JoinRoute, JoinNets, KeepLabeled,
           AssertLabeledCount, EndIteration, vars, loopVars, history
  <2>5. QED  BY <2>1, <2>2, <2>3, <2>4
<1>3. ASSUME NEW t \in Threads, NEW n \in Nodes PROVE occChange'[t][n].stamp <= currentBatchStamp'
  <2>1. occChange[t][n].stamp \in Int /\ occChange[t][n].stamp <= currentBatchStamp
    BY <1>1 DEF TypeOK, StampsPast
  <2>2. CASE UNCHANGED occChange
    BY <1>1, <2>1, <2>2
  <2>3. CASE \E u \in Threads : EndNet(u)
    <3>1. occChange'[t][n].stamp \in {occChange[t][n].stamp, currentBatchStamp}
      BY <1>1, <2>3, EndNetRecords
    <3>2. QED  BY <1>1, <2>1, <3>1
  <2>4. UNCHANGED occChange \/ \E u \in Threads : EndNet(u)
    BY NextIs DEF Main, Working, BeginNet, KeepConnection, RouteConnection, AssertPreDecrement,
           ApplyIncrements, Decremented, UpdatePrices, JoinRoute, JoinNets, JoinPrices, KeepLabeled,
           RouteLabeled, AssertLabeledCount, LabeledUnchanged, EndIteration, vars, deferred
  <2>5. QED  BY <2>2, <2>3, <2>4
<1>4. QED  BY <1>2, <1>3 DEF StampsPast

LEMMA ComparesNext ==
  ASSUME IInv, ComparesWithBarrier, [Next]_vars
  PROVE  ComparesWithBarrier'
<1>1. TypeOK /\ Control /\ SinceBarrier
  BY DEF IInv
<1>2. SUFFICES ASSUME Routing', NEW u \in Threads, pc'[u] # "net"
               PROVE  usedBefore'[u] = UNION {NodesOf(barrier'.routes[c]) : c \in ConnsOf(Net(u)')}
  BY DEF ComparesWithBarrier, ConnsOf
<1>3. ASSUME Routing, UNCHANGED barrier, usedBefore'[u] = usedBefore[u], Net(u)' = Net(u), pc[u] # "net"
      PROVE  usedBefore'[u] = UNION {NodesOf(barrier'.routes[c]) : c \in ConnsOf(Net(u)')}
  BY <1>3 DEF ComparesWithBarrier
<1>4. ASSUME NEW t \in Threads, BeginNet(t)
      PROVE  usedBefore'[u] = UNION {NodesOf(barrier'.routes[c]) : c \in ConnsOf(Net(u)')}
  <2>1. /\ Routing /\ InBatch /\ pc[t] = "net" /\ netPos[t] <= Len(Work(t)) /\ UNCHANGED <<barrier, netPos, batch>>
        /\ usedBefore' = [usedBefore EXCEPT ![t] = UNION {NodesOf(rnodes[c]) : c \in ConnsOf(Net(t))}]
        /\ pc' = [pc EXCEPT ![t] = "conn"]
    BY <1>4 DEF BeginNet, Routing, InBatch, loopVars, history
  <2>2. Net(u)' = Net(u)
    BY <2>1 DEF Net, Work
  <2>3. CASE u # t
    <3>1. usedBefore'[u] = usedBefore[u] /\ pc[u] # "net"
      BY <1>1, <1>2, <2>1, <2>3 DEF TypeOK
    <3>2. QED  BY <1>3, <2>1, <2>2, <3>1
  <2>4. CASE u = t
    <3>1. usedBefore'[t] = UNION {NodesOf(rnodes[c]) : c \in ConnsOf(Net(t))}
      BY <1>1, <2>1 DEF TypeOK
    <3>2. PICK k : k = netPos[t]
      OBVIOUS
    <3>3. PICK net : net = Net(t)
      OBVIOUS
    <3>4. k \in 1..Len(Work(t)) /\ net = Work(t)[k] /\ batch \in Batches /\ k \in Nat
      BY <1>1, <2>1, <3>2, <3>3, AtNet DEF Net, TypeOK
    <3>5. \A c \in ConnsOf(net) : ~IsDone(c)
      <4>1. \A c \in ConnsOf(net) : IsDone(c) <=>
              \/ ~Routing \/ k < netPos[t]
              \/ k = netPos[t] /\ (pc[t] = "endNet" \/ (pc[t] = "conn" /\ c \in Passed(t)))
        BY <3>4, StatusAt
      <4>2. QED  BY <2>1, <3>2, <3>4, <4>1
    <3>6. \A c \in ConnsOf(net) : rnodes[c] = barrier.routes[c]
      BY <1>1, <2>1, <3>5 DEF SinceBarrier, ConnsOf
    <3>7. QED  BY <2>1, <2>2, <2>4, <3>1, <3>3, <3>6
  <2>5. QED  BY <2>3, <2>4
<1>5. ASSUME NEW t \in Threads, KeepConnection(t) \/ RouteConnection(t) \/ AssertPreDecrement(t) \/ EndNet(t)
      PROVE  usedBefore'[u] = UNION {NodesOf(barrier'.routes[c]) : c \in ConnsOf(Net(u)')}
  <2>1. Routing /\ UNCHANGED <<barrier, batch, usedBefore>>
    BY <1>5 DEF KeepConnection, RouteConnection, AssertPreDecrement, EndNet, Routing, loopVars, history, deferred
  <2>2. pc[u] # "net" /\ netPos'[u] = netPos[u]
    <3>1. CASE EndNet(t)
      BY <1>1, <1>2, <3>1 DEF EndNet, TypeOK
    <3>2. CASE KeepConnection(t) \/ RouteConnection(t)
      <4>1. AdvanceConn(t) /\ pc[t] = "conn"
        BY <3>2 DEF KeepConnection, RouteConnection
      <4>2. QED  BY <1>1, <1>2, <4>1 DEF AdvanceConn, TypeOK
    <3>3. CASE AssertPreDecrement(t)
      BY <1>2, <3>3 DEF AssertPreDecrement, threadVars
    <3>4. QED  BY <1>5, <3>1, <3>2, <3>3
  <2>3. Net(u)' = Net(u)
    BY <2>1, <2>2 DEF Net, Work
  <2>4. QED  BY <1>3, <2>1, <2>2, <2>3
<1>6. CASE JoinPrices \/ EndIteration
  <2>1. pc'[u] = "net"
    BY <1>1, <1>6 DEF JoinPrices, EndIteration, threadVars, Control, InBatch
  <2>2. QED  BY <1>2, <2>1
<1>7. CASE UNCHANGED vars
  <2>1. Routing /\ UNCHANGED <<barrier, usedBefore, pc, batch, netPos>>
    BY <1>2, <1>7 DEF vars, loopVars, history, deferred, threadVars, Routing
  <2>2. Net(u)' = Net(u)
    BY <2>1 DEF Net, Work
  <2>3. QED  BY <1>2, <1>3, <2>1, <2>2
<1>8. ~(\/ JoinRoute \/ JoinNets \/ KeepLabeled \/ RouteLabeled \/ AssertLabeledCount
        \/ \E t \in Threads : ApplyIncrements(t) \/ Decremented(t) \/ UpdatePrices(t))
  BY <1>2 DEF JoinRoute, JoinNets, KeepLabeled, RouteLabeled, AssertLabeledCount, ApplyIncrements,
              Decremented, UpdatePrices, loopVars, Routing
<1>9. QED  BY <1>4, <1>5, <1>6, <1>7, <1>8, NextIs DEF Main, Working

\* A net that is recorded is so because of its place.
LEMMA RecordedAt ==
  ASSUME batch \in Batches, NEW t \in Threads, NEW k \in 1..Len(Work(t)), NEW net, net = Work(t)[k]
  PROVE  IsRecorded(net) <=> ~Routing \/ k < netPos[t]
<1>1. \A u \in Threads : \A j \in 1..Len(Work(u)) : IsAt(net, u, j) <=> u = t /\ j = k
  BY WorkFacts DEF IsAt
<1>2. QED  BY <1>1 DEF IsRecorded

\* Routes and records of the other nets stay.
LEMMA OtherCharges ==
  ASSUME TypeOK, NEW t \in Threads, LocalStep(t), NEW net \in Nets, net # Net(t), NEW n
  PROVE  Charges(net, n)' <=> Charges(net, n)
<1>1. /\ batch \in Batches /\ \A u \in Threads : Work(u)' = Work(u) /\ Len(Work(u)) \in Nat
      /\ netPos[t] \in Nat /\ Routing' = Routing /\ barrier' = barrier
  BY WorkFacts DEF TypeOK, LocalStep, Work, Routing
<1>2. ~IsAt(net, t, netPos[t])
  BY DEF IsAt, Net
<1>3. ASSUME NEW u \in Threads, NEW j \in 1..Len(Work(u)), IsAt(net, u, j)
      PROVE  j < netPos'[u] <=> j < netPos[u]
  <2>1. CASE u # t
    BY <2>1 DEF LocalStep
  <2>2. CASE u = t
    <3>1. j # netPos[t] /\ j \in Nat
      BY <1>2, <1>3, <2>2
    <3>2. netPos'[t] = netPos[t] \/ netPos'[t] = netPos[t] + 1
      BY DEF LocalStep
    <3>3. QED  BY <1>1, <2>2, <3>1, <3>2
  <2>3. QED  BY <2>1, <2>2
<1>4. \A u \in Threads : \A j \in 1..Len(Work(u)) : IsAt(net, u, j)' <=> IsAt(net, u, j)
  BY <1>1 DEF IsAt
<1>5. IsRecorded(net)' <=> IsRecorded(net)
  BY <1>1, <1>3, <1>4 DEF IsRecorded
<1>6. \A c \in ConnsOf(net) : Charge(c)' = Charge(c)
  BY OtherNets
<1>7. \A c : BarrierCharge(c)' = BarrierCharge(c)
  BY <1>1 DEF BarrierCharge
<1>8. QED  BY <1>5, <1>6, <1>7 DEF Charges, ConnsOf

\* A step that changes what one net charges and what one thread has recorded.
LEMMA CoverMoves ==
  ASSUME NEW n \in Nodes, NEW u \in Threads, NEW d \in Int, NEW here,
         Cardinality(Charging(n)) - barrier.occ[n] <= Predicted(n),
         barrier.occ[n] \in Int, barrier' = barrier, \A t \in Threads : Change(t, n) \in Int,
         Change(u, n)' = Change(u, n) + d, \A t \in Threads \ {u} : Change(t, n)' = Change(t, n),
         \A net \in Nets : net # here => (Charges(net, n)' <=> Charges(net, n)),
         d >= -1, here \in Nets /\ Charges(here, n)' /\ ~Charges(here, n) => d >= 1,
         d < 0 => Charges(here, n) /\ ~Charges(here, n)' /\ here \in Nets
  PROVE  Cardinality(Charging(n))' - barrier'.occ[n] <= Predicted(n)'
<1>1. Predicted(n) \in Int /\ Predicted(n)' = Predicted(n) + d
  BY PredictedMoves
<1>2. PICK A : A = Charging(n)
  OBVIOUS
<1>3. PICK B : B = Charging(n)'
  OBVIOUS
<1>4. /\ A \subseteq Nets /\ B \subseteq Nets /\ \A net \in Nets : net # here => (net \in A <=> net \in B)
      /\ here \in A <=> here \in Nets /\ Charges(here, n)
      /\ here \in B <=> here \in Nets /\ Charges(here, n)'
  BY <1>2, <1>3 DEF Charging
<1>5. \A y : y # here => (y \in A <=> y \in B)
  BY <1>4
<1>6. /\ Cardinality(A) \in Nat /\ Cardinality(B) \in Nat
      /\ Cardinality(B) + (IF here \in A THEN 1 ELSE 0) = Cardinality(A) + (IF here \in B THEN 1 ELSE 0)
  <2>1. IsFiniteSet(Nets)
    BY InputAssumption
  <2>2. QED  BY <1>4, <1>5, <2>1, OneChanges
<1>7. Cardinality(B) <= Cardinality(A) + d
  <2>1. CASE here \in B /\ here \notin A
    BY <1>4, <1>6, <2>1
  <2>2. CASE here \in A /\ here \notin B
    BY <1>4, <1>6, <2>2
  <2>3. CASE here \in A <=> here \in B
    BY <1>4, <1>6, <2>3
  <2>4. QED  BY <2>1, <2>2, <2>3
<1>8. PICK b, p \in Int : b = barrier.occ[n] /\ p = Predicted(n)
  BY <1>1
<1>9. b \in Int /\ Cardinality(A) - b <= p
  BY <1>2, <1>8
<1>10. Cardinality(B) - b <= p + d
  BY <1>6, <1>7, <1>8, <1>9
<1>11. Cardinality(Charging(n))' = Cardinality(B)
  BY <1>3
<1>12. QED  BY <1>1, <1>8, <1>10, <1>11

\* Where nothing is pending, the occupancy is the number of nets that charge a node.
LEMMA ChargingIsCounted ==
  ASSUME IInv, InBatch, failedSinks = {}, NEW n \in Nodes, \A net \in Nets : ~IsDeferred(net) /\ ~IsIncremented(net),
         \A net \in Nets : ~IsRecorded(net) => \A c \in ConnsOf(net) : ~IsDone(c)
  PROVE  occ[n] = Cardinality(Charging(n)) /\ occ[n] \in Nat
<1>1. SinceBarrier /\ OccupancyMatchesUsers
  BY DEF IInv
<1>2. ASSUME NEW net \in Nets PROVE n \in Used(users[net]) <=> Charges(net, n)
  <2>1. n \in Used(users[net]) <=> ChargedOf(net, n) # {}
    BY ExactAtBarrier
  <2>2. CASE IsRecorded(net)
    BY <2>1, <2>2 DEF Charges, ChargedOf
  <2>3. CASE ~IsRecorded(net)
    <3>1. \A c \in ConnsOf(net) : rnodes[c] = barrier.routes[c]
      BY <1>1, <2>3 DEF SinceBarrier, ConnsOf
    <3>2. \A c \in ConnsOf(net) : BarrierCharge(c) = Charge(c)
      BY <3>1 DEF BarrierCharge, Charge, RipNodes
    <3>3. QED  BY <2>1, <2>3, <3>2 DEF Charges, ChargedOf
  <2>4. QED  BY <2>2, <2>3
<1>3. Charging(n) = {net \in Nets : n \in Used(users[net])}
  BY <1>2 DEF Charging
<1>4. Cardinality(Charging(n)) \in Nat
  <2>1. Charging(n) \subseteq Nets
    BY DEF Charging
  <2>2. QED  BY <2>1, InputAssumption, FS_Subset, FS_CardinalityType
<1>5. QED  BY <1>1, <1>3, <1>4 DEF OccupancyMatchesUsers

\* A batch starts without records.
LEMMA CoverAtStart ==
  IInv /\ StampsPast /\ phase = "route" /\ (\A t \in Threads : netPos[t] = 1 /\ pc[t] = "net")
    /\ (\A t \in Threads : \A n \in Nodes : occChange[t][n].stamp # currentBatchStamp) => RecordsCover
<1> SUFFICES ASSUME IInv, StampsPast, phase = "route", \A t \in Threads : netPos[t] = 1 /\ pc[t] = "net",
                    \A t \in Threads : \A n \in Nodes : occChange[t][n].stamp # currentBatchStamp,
                    failedSinks = {}, NEW n \in Nodes
             PROVE  Cardinality(Charging(n)) - barrier.occ[n] <= Predicted(n)
  BY DEF RecordsCover
<1>1. InBatch /\ Routing /\ AtBarrier /\ SinceBarrier
  BY DEF InBatch, Routing, AtBarrier, IInv
<1>2. \A t \in Threads : Change(t, n) = 0
  BY DEF Change
<1>3. \A c \in Conns : ~IsDone(c)
  <2>1. ASSUME NEW t \in Threads, NEW k \in 1..Len(Work(t))
        PROVE  ~(k < netPos[t]) /\ pc[t] # "endNet" /\ pc[t] # "conn"
    OBVIOUS
  <2>2. QED  BY <1>1, <2>1 DEF IsDone
<1>4. occ[n] = Cardinality(Charging(n)) /\ occ[n] \in Nat
  BY <1>1, <1>3, NothingPending, ChargingIsCounted DEF ConnsOf
<1>5. Predicted(n) = 0
  BY <1>2, NothingPredicted
<1>6. barrier.occ[n] = occ[n]
  BY <1>1 DEF SinceBarrier
<1>7. QED  BY <1>4, <1>5, <1>6

\* EndNet records at least what the net changes.
LEMMA CoverEndNet ==
  ASSUME IInv, CommitInv, NEW t \in Threads, EndNet(t), Ignored' = Ignored
  PROVE  RecordsCover'
<1>1. /\ TypeOK /\ Control /\ SinceBarrier /\ phase = "route" /\ pc[t] = "endNet" /\ Routing /\ InBatch
      /\ UNCHANGED <<rnodes, barrier, failedSinks>> /\ LocalStep(t) /\ Routing'
  BY NetStepIsLocal DEF IInv, EndNet, NetStep, Routing, InBatch, netVars, loopVars, history
<1>2. SUFFICES ASSUME failedSinks = {}, NEW n \in Nodes \ {Sink[c] : c \in Ignored}
               PROVE  Cardinality(Charging(n))' - barrier'.occ[n] <= Predicted(n)'
  BY <1>1 DEF RecordsCover
<1>3. PICK here : here = Net(t)
  OBVIOUS
<1>4. PICK k : k = netPos[t]
  OBVIOUS
<1>5. /\ k \in 1..Len(Work(t)) /\ here = Work(t)[k] /\ here \in Nets /\ batch \in Batches /\ k \in Nat
      /\ NetInv(here)
  BY <1>1, <1>3, <1>4, AtNet DEF Control, Net, TypeOK, IInv
<1>6. ~IsRecorded(here)
  BY <1>1, <1>4, <1>5, RecordedAt
<1>7. IsRecorded(here)'
  <2>1. Work(t)' = Work(t) /\ netPos'[t] = k + 1
    BY <1>1, <1>4 DEF EndNet, TypeOK, loopVars, Work
  <2>2. k < netPos'[t]
    BY <1>5, <2>1
  <2>3. IsAt(here, t, k)'
    BY <1>5, <2>1 DEF IsAt
  <2>4. QED  BY <1>5, <2>1, <2>2, <2>3 DEF IsRecorded
<1>8. \A c \in ConnsOf(here) : IsDone(c)
  <2>1. \A c \in ConnsOf(here) : IsDone(c) <=>
          \/ ~Routing \/ k < netPos[t]
          \/ k = netPos[t] /\ (pc[t] = "endNet" \/ (pc[t] = "conn" /\ c \in Passed(t)))
    BY <1>5, StatusAt
  <2>2. QED  BY <1>1, <1>4, <2>1
\* All connections have a route now, but those that charge only ignored sinks.
<1>9. \A c \in ConnsOf(here) : n \in Charge(c) <=> n \in NodesOf(rnodes[c])
  <2>1. ASSUME NEW c \in ConnsOf(here), rnodes[c] = <<>> PROVE n \notin Charge(c) /\ n \notin NodesOf(rnodes[c])
    <3>1. c \in Conns /\ IsDone(c) /\ Charge(c) = {Sink[c]} /\ NodesOf(rnodes[c]) = {}
      BY <1>5, <1>8, <2>1, ChargeFacts DEF NetInv
    <3>2. c \in Ignored
      <4>1. SUFFICES ASSUME c \notin Ignored PROVE FALSE
        OBVIOUS
      <4>2. ~(IsDone(c) /\ Moved(c) /\ rnodes[c] = <<>>)
        BY <1>1, <1>2, <3>1 DEF SinceBarrier
      <4>3. barrier.routes[c] = <<>>
        BY <1>1, <2>1, <3>1, <4>2 DEF SinceBarrier
      <4>4. QED  BY <2>1, <3>1, <4>1, <4>2, <4>3 DEF Moved
    <3>3. QED  BY <1>2, <3>1, <3>2
  <2>2. ASSUME NEW c \in ConnsOf(here), rnodes[c] # <<>> PROVE Charge(c) = NodesOf(rnodes[c])
    BY <1>5, <2>2, ChargeFacts DEF NetInv
  <2>3. QED  BY <2>1, <2>2
<1>10. Charges(here, n)' <=> \E c \in ConnsOf(here) : n \in NodesOf(rnodes[c])
  <2>1. \A c : Charge(c)' = Charge(c)
    BY <1>1 DEF Charge, RipNodes
  <2>2. QED  BY <1>7, <1>9, <2>1 DEF Charges, ConnsOf
<1>11. n \in usedBefore[t] => Charges(here, n)
  <2>1. SUFFICES ASSUME n \in usedBefore[t] PROVE Charges(here, n)
    OBVIOUS
  <2>2. usedBefore[t] = UNION {NodesOf(barrier.routes[c]) : c \in ConnsOf(here)}
    BY <1>1, <1>3 DEF CommitInv, ComparesWithBarrier
  <2>3. PICK c \in ConnsOf(here) : n \in NodesOf(barrier.routes[c])
    BY <2>1, <2>2
  <2>4. barrier.routes[c] # <<>>
    <3>1. NodesOf(<<>>) = {}
      BY DEF NodesOf
    <3>2. QED  BY <2>3, <3>1
  <2>5. n \in BarrierCharge(c)
    BY <2>3, <2>4 DEF BarrierCharge
  <2>6. QED  BY <1>6, <2>5 DEF Charges
<1>12. PICK a : a = Arrivals(t, n)
  OBVIOUS
<1>13. a \in Nat /\ (a > 0 <=> n \notin usedBefore[t] /\ \E c \in ConnsOf(here) : n \in NodesOf(rnodes[c]))
  <2>1. PICK come : come = {c \in ConnsOf(here) : n \in NodesOf(rnodes[c])}
    OBVIOUS
  <2>2. IsFiniteSet(come) /\ Cardinality(come) \in Nat /\ (Cardinality(come) = 0 <=> come = {})
    <3>1. come \subseteq ConnsOf(here) /\ IsFiniteSet(ConnsOf(here))
      BY <1>5, <2>1, NetConns
    <3>2. QED  BY <3>1, FS_Subset, FS_CardinalityType, FS_EmptySet
  <2>3. a = IF n \in usedBefore[t] THEN 0 ELSE Cardinality(come)
    BY <1>3, <1>12, <2>1 DEF Arrivals
  <2>4. come = {} <=> ~\E c \in ConnsOf(here) : n \in NodesOf(rnodes[c])
    BY <2>1
  <2>5. QED  BY <2>2, <2>3, <2>4
<1>14. Left(t, n) <=> n \in usedBefore[t] /\ ~\E c \in ConnsOf(here) : n \in NodesOf(rnodes[c])
  BY <1>3 DEF Left
<1>15. PICK d : d = Recorded(t, n)
  OBVIOUS
<1>16. d = IF a > 0 THEN a ELSE IF Left(t, n) THEN -1 ELSE 0
  BY <1>12, <1>15 DEF Recorded
<1>17. /\ d \in Int /\ \A u \in Threads : Change(u, n) \in Int
       /\ Change(t, n)' = Change(t, n) + d /\ \A u \in Threads \ {t} : Change(u, n)' = Change(u, n)
  BY <1>1, <1>2, <1>15, EndNetRecords
<1>18. \A net \in Nets : net # here => (Charges(net, n)' <=> Charges(net, n))
  BY <1>1, <1>3, OtherCharges
<1>19. /\ d >= -1
       /\ Charges(here, n)' /\ ~Charges(here, n) => d >= 1
       /\ d < 0 => Charges(here, n) /\ ~Charges(here, n)' /\ here \in Nets
  BY <1>5, <1>10, <1>11, <1>13, <1>14, <1>16
<1>20. Cardinality(Charging(n)) - barrier.occ[n] <= Predicted(n) /\ barrier.occ[n] \in Int
  BY <1>1, <1>2 DEF CommitInv, RecordsCover, StampsPast
<1>21. n \in Nodes /\ barrier' = barrier
  BY <1>1
<1>22. QED  BY <1>17, <1>18, <1>19, <1>20, <1>21, CoverMoves

\* A step in a batch that neither records nor changes what a recorded net charges.
LEMMA CoverKept ==
  ASSUME IInv, CommitInv, [Next]_vars, InBatch, UNCHANGED <<batch, iter, occChange, barrier>>,
         failedSinks \subseteq failedSinks',
         \A net \in Nets : \A n \in Nodes : Charges(net, n)' <=> Charges(net, n)
  PROVE  RecordsCover'
<1>1. Ignored' = Ignored
  BY IgnoredKept
<1>2. SUFFICES ASSUME failedSinks = {}, NEW n \in Nodes \ {Sink[c] : c \in Ignored}
               PROVE  Cardinality(Charging(n))' - barrier'.occ[n] <= Predicted(n)'
  BY <1>1 DEF RecordsCover
<1>3. currentBatchStamp' = currentBatchStamp
  BY DEF currentBatchStamp
<1>4. \A u \in Threads : Change(u, n)' = Change(u, n) /\ Change(u, n) \in Int
  BY <1>2, <1>3 DEF Change, IInv, TypeOK
<1>5. PICK t \in Threads : t = NodeOwner[n]
  BY <1>2, InputAssumption
<1>6. PICK d \in Int : d = 0
  OBVIOUS
<1>7. Change(t, n)' = Change(t, n) + d /\ d >= -1 /\ ~(d < 0)
  BY <1>4, <1>6
<1>8. Cardinality(Charging(n)) - barrier.occ[n] <= Predicted(n) /\ barrier.occ[n] \in Int /\ n \in Nodes
  BY <1>2 DEF CommitInv, RecordsCover, StampsPast
<1>9. PICK here : here \notin Nets
  <2>1. {x \in Nets : x \notin x} \notin Nets
    OBVIOUS
  <2>2. QED  BY <2>1
<1>10. barrier' = barrier /\ (\A u \in Threads \ {t} : Change(u, n)' = Change(u, n)) /\ \A u \in Threads : Change(u, n) \in Int
  BY <1>4
<1>11. \A net \in Nets : net # here => (Charges(net, n)' <=> Charges(net, n))
  BY <1>8
<1>12. here \in Nets /\ Charges(here, n)' /\ ~Charges(here, n) => d >= 1
  BY <1>9
<1>13. d < 0 => Charges(here, n) /\ ~Charges(here, n)' /\ here \in Nets
  BY <1>7
<1>14. QED  BY <1>7, <1>8, <1>10, <1>11, <1>12, <1>13, CoverMoves

LEMMA CoverNext ==
  ASSUME IInv, CommitInv, [Next]_vars
  PROVE  RecordsCover'
<1>1. TypeOK /\ Control /\ IInv' /\ Ignored' = Ignored /\ StampsPast'
  BY NextInv, IgnoredKept, StampsNext DEF IInv, CommitInv
<1>2. ASSUME NEW t \in Threads, NetStep(t) PROVE RecordsCover'
  <2>1. LocalStep(t) /\ InBatch /\ UNCHANGED <<batch, iter, barrier>> /\ (failedSinks \subseteq failedSinks') /\ Routing' = Routing
    BY <1>1, <1>2, NetStepIsLocal DEF LocalStep, NetStep, BeginNet, KeepConnection, RouteConnection, EndNet,
              ApplyIncrements, Decremented, InBatch, Routing
  <2>2. CASE EndNet(t)
    BY <1>1, <2>2, CoverEndNet
  <2>3. CASE ~EndNet(t)
    <3>1. UNCHANGED occChange
      BY <1>2, <2>3 DEF NetStep, BeginNet, KeepConnection, RouteConnection, ApplyIncrements, Decremented, deferred
    <3>2. PICK here : here = Net(t)
      OBVIOUS
    <3>3. PICK k : k = netPos[t]
      OBVIOUS
    <3>4. /\ k \in 1..Len(Work(t)) /\ here = Work(t)[k] /\ here \in Nets /\ batch \in Batches /\ k \in Nat
          /\ Work(t)' = Work(t)
      BY <1>1, <2>1, <3>2, <3>3, AtNet DEF LocalStep, Net, TypeOK, Work
    <3>5. IsRecorded(here) <=> ~Routing
      BY <3>3, <3>4, RecordedAt
    <3>6. IsRecorded(here)' <=> ~Routing
      <4>1. IsAt(here, t, k)'
        BY <3>4 DEF IsAt
      <4>2. CASE ~Routing
        BY <2>1, <3>4, <4>1, <4>2 DEF IsRecorded
      <4>3. CASE Routing
        <5>1. netPos' = netPos
          BY <1>2, <2>3, <4>3 DEF NetStep, BeginNet, KeepConnection, RouteConnection, AdvanceConn,
                                  ApplyIncrements, Decremented, Routing
        <5>2. \A u \in Threads : Work(u)' = Work(u)
          BY <2>1 DEF Work
        <5>3. IsRecorded(here)' <=> IsRecorded(here)
          BY <2>1, <5>1, <5>2 DEF IsRecorded, IsAt
        <5>4. QED  BY <3>5, <5>3
      <4>4. QED  BY <4>2, <4>3
    <3>7. ASSUME NEW n \in Nodes PROVE Charges(here, n)' <=> Charges(here, n)
      <4>1. CASE Routing
        <5>1. \A c : BarrierCharge(c)' = BarrierCharge(c)
          BY <2>1 DEF BarrierCharge
        <5>2. QED  BY <3>5, <3>6, <4>1, <5>1 DEF Charges, ConnsOf
      <4>2. CASE ~Routing
        <5>1. UNCHANGED rnodes
          BY <1>2, <2>3, <4>2 DEF NetStep, BeginNet, KeepConnection, RouteConnection, ApplyIncrements,
                                  Decremented, Routing
        <5>2. \A c : Charge(c)' = Charge(c)
          BY <5>1 DEF Charge, RipNodes
        <5>3. QED  BY <3>5, <3>6, <4>2, <5>2 DEF Charges, ConnsOf
      <4>3. QED  BY <4>1, <4>2
    <3>8. \A net \in Nets : \A n \in Nodes : Charges(net, n)' <=> Charges(net, n)
      BY <1>1, <2>1, <3>2, <3>7, OtherCharges
    <3>9. QED  BY <2>1, <3>1, <3>8, CoverKept
  <2>4. QED  BY <2>2, <2>3
<1>3. CASE JoinRoute \/ JoinNets \/ UNCHANGED vars \/ \E t \in Threads : AssertPreDecrement(t) \/ UpdatePrices(t)
  <2>1. UNCHANGED <<batch, iter, occChange, barrier, rnodes, failedSinks>>
    BY <1>3 DEF JoinRoute, JoinNets, AssertPreDecrement, UpdatePrices, vars, loopVars, history, deferred, netVars
  <2>2. SUFFICES ASSUME InBatch' PROVE RecordsCover'
    BY DEF RecordsCover
  <2>3. InBatch
    BY <1>3, <2>2 DEF JoinRoute, JoinNets, AssertPreDecrement, UpdatePrices, vars, loopVars, InBatch
  <2>4. \A u \in Threads : Work(u)' = Work(u) /\ Len(Work(u)) \in Nat /\ netPos[u] \in Nat
    BY <1>1, <2>1, WorkFacts DEF Work, TypeOK
  <2>5. ASSUME NEW net \in Nets PROVE IsRecorded(net)' <=> IsRecorded(net)
    <3>1. CASE JoinRoute
      <4>1. ~Routing' /\ \A t \in Threads : netPos[t] > Len(Work(t))
        BY <3>1 DEF JoinRoute, WorkersDone, Routing
      <4>2. \A t \in Threads : \A k \in 1..Len(Work(t)) : k < netPos[t]
        BY <2>4, <4>1
      <4>3. QED  BY <2>4, <4>1, <4>2 DEF IsRecorded, IsAt
    <3>2. CASE ~JoinRoute
      <4>1. Routing' = Routing /\ UNCHANGED netPos
        BY <1>3, <3>2 DEF JoinNets, AssertPreDecrement, UpdatePrices, vars, loopVars, threadVars, Routing
      <4>2. QED  BY <2>4, <4>1 DEF IsRecorded, IsAt
    <3>3. QED  BY <3>1, <3>2
  <2>6. \A c : Charge(c)' = Charge(c) /\ BarrierCharge(c)' = BarrierCharge(c)
    BY <2>1 DEF Charge, RipNodes, BarrierCharge
  <2>7. \A net \in Nets : \A n \in Nodes : Charges(net, n)' <=> Charges(net, n)
    BY <2>5, <2>6 DEF Charges, ConnsOf
  <2>8. QED  BY <2>1, <2>3, <2>7, CoverKept
<1>4. CASE JoinPrices \/ EndIteration
  <2>1. SUFFICES ASSUME phase' = "route" PROVE RecordsCover'
    BY <1>4 DEF JoinPrices, EndIteration, RecordsCover, InBatch
  <2>2. \A t \in Threads : netPos'[t] = 1 /\ pc'[t] = "net"
    BY <1>1, <1>4 DEF JoinPrices, EndIteration, threadVars, Control, InBatch
  <2>3. currentBatchStamp < currentBatchStamp' /\ currentBatchStamp \in Int /\ currentBatchStamp' \in Int
    BY <1>1, <1>4, <2>1, StampGrows
  <2>4. \A t \in Threads : \A n \in Nodes : occChange'[t][n].stamp # currentBatchStamp'
    <3>1. occChange' = occChange
      BY <1>4 DEF JoinPrices, EndIteration, deferred
    <3>2. \A t \in Threads : \A n \in Nodes :
            occChange[t][n].stamp \in Int /\ occChange[t][n].stamp <= currentBatchStamp
      BY <1>1 DEF CommitInv, StampsPast, TypeOK
    <3>3. QED  BY <2>3, <3>1, <3>2
  <2>5. (IInv /\ StampsPast /\ phase = "route" /\ (\A t \in Threads : netPos[t] = 1 /\ pc[t] = "net")
          /\ (\A t \in Threads : \A n \in Nodes : occChange[t][n].stamp # currentBatchStamp) => RecordsCover)'
    BY CoverAtStart, PTL
  <2>6. QED  BY <1>1, <2>1, <2>2, <2>4, <2>5
<1>5. CASE KeepLabeled \/ RouteLabeled \/ AssertLabeledCount
  BY <1>5 DEF KeepLabeled, RouteLabeled, AssertLabeledCount, RecordsCover, InBatch
<1>6. QED  BY <1>2, <1>3, <1>4, <1>5, NextIs DEF Main, Working, NetStep

LEMMA CommitInit == Init => CommitInv
<1> SUFFICES ASSUME Init PROVE CommitInv
  OBVIOUS
<1>1. IInv /\ phase = "route" /\ (\A t \in Threads : netPos[t] = 1 /\ pc[t] = "net") /\ TypeOK
  BY InitInv DEF Init, IInv
<1>2. currentBatchStamp \in Int /\ currentBatchStamp > -1
  <2>1. iter = 1 /\ batch = 0 /\ NumBatches \in Nat \ {0}
    BY BatchAssumption DEF Init
  <2>2. currentBatchStamp = 1 * NumBatches + 0
    BY <2>1 DEF currentBatchStamp
  <2>3. QED  BY <2>1, <2>2
<1>3. \A t \in Threads : \A n \in Nodes : occChange[t][n].stamp = -1
  BY DEF Init
<1>4. barrier.occ \in [Nodes -> Int]
  <2>1. barrier.occ = occ
    BY DEF Init
  <2>2. QED  BY <1>1, <2>1 DEF TypeOK
<1>5. StampsPast
  BY <1>2, <1>3, <1>4 DEF StampsPast
<1>6. ComparesWithBarrier
  BY <1>1 DEF ComparesWithBarrier
<1>7. RecordsCover
  <2>1. \A t \in Threads : \A n \in Nodes : occChange[t][n].stamp # currentBatchStamp
    BY <1>2, <1>3
  <2>2. QED  BY <1>1, <1>5, <2>1, CoverAtStart
<1>8. QED  BY <1>5, <1>6, <1>7 DEF CommitInv

LEMMA CommitNext == IInv /\ CommitInv /\ [Next]_vars => CommitInv'
BY StampsNext, ComparesNext, CoverNext DEF CommitInv

LEMMA CommitIsCovered ==
  ASSUME IInv, CommitInv
  PROVE  OccChangeCoversCommit
<1> SUFFICES ASSUME Committed, failedSinks = {}, NEW n \in Nodes \ {Sink[c] : c \in Ignored}
             PROVE  occ[n] - barrier.occ[n] <= Predicted(n)
  BY DEF OccChangeCoversCommit
<1>1. phase = "updatePrices" /\ InBatch /\ ~Routing
  BY DEF Committed, InBatch, Routing
<1>2. \A net \in Nets : ~IsDeferred(net) /\ ~IsIncremented(net)
  BY <1>1 DEF IsDeferred, IsIncremented, Deferred, Incremented
<1>3. \A net \in Nets : ~IsRecorded(net) => \A c \in ConnsOf(net) : ~IsDone(c)
  BY <1>1 DEF IsRecorded, IsDone, ConnsOf
<1>4. occ[n] = Cardinality(Charging(n))
  BY <1>1, <1>2, <1>3, ChargingIsCounted
<1>5. Cardinality(Charging(n)) - barrier.occ[n] <= Predicted(n)
  BY <1>1 DEF CommitInv, RecordsCover
<1>6. QED  BY <1>4, <1>5

\* What the workers record for getNodeCost (routeNode.h:196-220,
\* stableFirstRouting.cpp:84-110) covers what the batch then commits, for any
\* batches and threads: no node gains more nets than the sum of the changes
\* that the threads have recorded for it.  The invariant relates the records to
\* the nets that have been recorded so far, one EndNet at a time.
THEOREM RecordsCoverTheCommit == Spec => []OccChangeCoversCommit
<1>1. IInv /\ CommitInv => OccChangeCoversCommit
  BY CommitIsCovered
<1>2. QED  BY <1>1, CommitInit, CommitNext, StableFirstInvariant, PTL DEF Spec

-----------------------------------------------------------------------------
\* The atomic commit of a batch

\* The instance of FiniteSets that BatchCommit extends is the same.
LEMMA SameCardinality == \A S : Commits!Cardinality(S) = Cardinality(S)
BY DEF Commits!Cardinality, Cardinality

\* Exact counts make the occupancies those of the routes.
LEMMA OccIsOccupancy ==
  IInv /\ failedSinks = {} /\ (AtBarrier \/ ~InBatch \/ phase = "updatePrices") => occ = Commits!OccupancyOf(rnodes)
<1> SUFFICES ASSUME IInv, failedSinks = {}, AtBarrier \/ ~InBatch \/ phase = "updatePrices"
             PROVE  occ = Commits!OccupancyOf(rnodes)
  OBVIOUS
<1>1. \A net \in Nets : ~IsDeferred(net) /\ ~IsIncremented(net)
  <2>1. CASE phase = "updatePrices"
    BY <2>1 DEF IsDeferred, IsIncremented, Deferred, Incremented, Routing
  <2>2. QED  BY <2>1, NothingPending
<1>2. ASSUME NEW n \in Nodes
      PROVE  occ[n] = Cardinality({net \in Nets : \E c \in Conns :
                NetOf[c] = net /\ (n \in Commits!Visited(rnodes[c]) \/ (rnodes[c] = <<>> /\ Sink[c] = n))})
  <2>1. ASSUME NEW net \in Nets
        PROVE  n \in Used(users[net]) <=>
                 \E c \in Conns : NetOf[c] = net /\
                   (n \in Commits!Visited(rnodes[c]) \/ (rnodes[c] = <<>> /\ Sink[c] = n))
    <3>1. n \in Used(users[net]) <=> ChargedOf(net, n) # {}
      BY <1>1, ExactAtBarrier
    <3>2. ASSUME NEW c \in ConnsOf(net)
          PROVE  n \in Charge(c) <=> n \in Commits!Visited(rnodes[c]) \/ (rnodes[c] = <<>> /\ Sink[c] = n)
      <4>1. Commits!Visited(rnodes[c]) = NodesOf(rnodes[c])
        BY DEF Commits!Visited, NodesOf
      <4>2. QED  BY <4>1, ChargeFacts DEF IInv, NetInv
    <3>3. QED  BY <3>1, <3>2 DEF ChargedOf, ConnsOf
  <2>2. PICK A, B : A = {net \in Nets : n \in Used(users[net])} /\ B = {net \in Nets : \E c \in Conns :
                NetOf[c] = net /\ (n \in Commits!Visited(rnodes[c]) \/ (rnodes[c] = <<>> /\ Sink[c] = n))}
    OBVIOUS
  <2>3. A = B
    BY <2>1, <2>2
  <2>4. QED  BY <2>2, <2>3 DEF IInv, OccupancyMatchesUsers
<1>3. occ = [n \in Nodes |-> occ[n]]
  BY DEF IInv, TypeOK
<1>4. PICK f : f = Commits!OccupancyOf(rnodes)
  OBVIOUS
<1>5. f = [n \in Nodes |-> f[n]] /\ \A n \in Nodes : f[n] = Cardinality({net \in Nets : \E c \in Conns :
                NetOf[c] = net /\ (n \in Commits!Visited(rnodes[c]) \/ (rnodes[c] = <<>> /\ Sink[c] = n))})
  BY <1>4, SameCardinality DEF Commits!OccupancyOf
<1>6. \A n \in Nodes : occ[n] = f[n]
  BY <1>2, <1>5
<1>7. QED  BY <1>3, <1>4, <1>5, <1>6

LEMMA OccIsOccupancyNext ==
  (IInv /\ failedSinks = {} /\ (AtBarrier \/ ~InBatch \/ phase = "updatePrices"))' =>
    occ' = Commits!OccupancyOf(rnodes)'
<1>1. IInv /\ failedSinks = {} /\ (AtBarrier \/ ~InBatch \/ phase = "updatePrices") => occ = Commits!OccupancyOf(rnodes)
  BY OccIsOccupancy
<1>2. (IInv /\ failedSinks = {} /\ (AtBarrier \/ ~InBatch \/ phase = "updatePrices") => occ = Commits!OccupancyOf(rnodes))'
  BY <1>1, PTL
<1>3. QED  BY <1>2

\* The batch to commit next, as the refinement mapping names it.
NextBatch == IF InBatch THEN batch ELSE NumBatches

\* Steps that the abstract specification does not see.
LEMMA StutterMaps ==
  ASSUME UNCHANGED barrier, Ignored' = Ignored, NextBatch' = NextBatch
  PROVE  UNCHANGED Commits!commitVars
BY DEF Commits!commitVars, Ignored, NextBatch, InBatch

LEMMA InitMaps == Init => Commits!CommitInit
<1> SUFFICES ASSUME Init PROVE Commits!CommitInit
  OBVIOUS
<1>1. IInv /\ failedSinks = {} /\ AtBarrier
  BY InitInv DEF Init, AtBarrier
<1>2. occ = Commits!OccupancyOf(rnodes)
  BY <1>1, OccIsOccupancy
<1>3. /\ barrier.routes = rnodes /\ barrier.occ = occ /\ barrier.exact = TRUE
      /\ rnodes = [c \in Conns |-> <<>>] /\ phase = "route" /\ batch = 0
  BY DEF Init
<1>4. barrier.occ = Commits!OccupancyOf(barrier.routes)
  BY <1>2, <1>3
<1>5. Ignored \subseteq Conns
  BY DEF Ignored
<1>6. QED  BY <1>3, <1>4, <1>5 DEF Commits!CommitInit

LEMMA CommitMaps ==
  ASSUME IInv, IInv', JoinPrices, Ignored' = Ignored
  PROVE  Commits!Commit
<1>1. /\ phase = "updatePrices" /\ barrier' = [routes |-> rnodes, occ |-> occ, exact |-> failedSinks = {}]
      /\ rnodes' = rnodes /\ failedSinks' = failedSinks /\ occ' = occ /\ batch \in Batches
      /\ InBatch /\ ~Routing
  BY DEF JoinPrices, netVars, nodeVars, IInv, TypeOK, InBatch, Routing
<1>2. barrier'.routes = rnodes /\ barrier'.occ = occ /\ barrier'.exact = (failedSinks = {})
  BY <1>1
<1>3. PICK C : C = BatchConns[batch]
  OBVIOUS
<1>4. \A c \in Conns : c \in C <=> IsDone(c)
  <2>1. \A c \in Conns : IsDone(c) <=> \E t \in Threads : \E k \in 1..Len(Work(t)) : Work(t)[k] = NetOf[c]
    BY <1>1 DEF IsDone, IsAt
  <2>2. \A c \in Conns : c \in C <=> \E t \in Threads : NetOf[c] \in NodesOf(BatchNets[batch][t])
    <3>1. C = UNION {ConnsOf(net) : net \in UNION {NodesOf(BatchNets[batch][t]) : t \in Threads}}
      BY <1>1, <1>3 DEF BatchConns
    <3>2. QED  BY <3>1 DEF ConnsOf
  <2>3. QED  BY <2>1, <2>2 DEF Work, NodesOf
<1>5. C \subseteq Conns
  BY <1>1, <1>3 DEF BatchConns, ConnsOf
<1>6. SinceInBatch
  BY <1>1 DEF IInv, SinceBarrier, SinceInBatch
<1>7. PICK moved : moved = {c \in C : Moved(c)}
  OBVIOUS
<1>8. \A c \in moved : rnodes[c] \in Paths[c] \cup {<<>>}
  <2>1. \A c \in Conns : RoutesArePaths(NetOf[c]) /\ c \in ConnsOf(NetOf[c])
    BY ConnFacts DEF IInv, NetInv
  <2>2. QED  BY <1>5, <1>7, <2>1 DEF RoutesArePaths
<1>9. \A c \in Conns \ moved : rnodes[c] = barrier.routes[c]
  BY <1>4, <1>6, <1>7 DEF SinceInBatch
<1>10. failedSinks = {} <=> barrier.exact /\ \A c \in moved : rnodes[c] # <<>>
  BY <1>1, <1>4, <1>5, <1>6, <1>7 DEF SinceInBatch
<1>11. barrier'.exact = (barrier.exact /\ \A c \in moved : rnodes[c] # <<>>)
  <2>1. barrier.exact \in BOOLEAN
    BY <1>6 DEF SinceInBatch
  <2>2. QED  BY <1>1, <1>2, <1>10, <2>1
<1>12. failedSinks = {} => occ = Commits!OccupancyOf(rnodes)
  BY <1>1, OccIsOccupancy
<1>13. DOMAIN rnodes = Conns
  BY DEF IInv, TypeOK
<1>14. \A c \in Conns : Commits!MustReroute(c) <=> Moved(c)
  BY DEF Commits!MustReroute, Commits!Visited, Moved, NodesOf, Ignored
<1>15. {c \in C : Commits!MustReroute(c)} = moved
  BY <1>5, <1>7, <1>14
<1>16. Commits!Reroute(C)
  <2>1. barrier'.exact => barrier'.occ = Commits!OccupancyOf(barrier'.routes)
    BY <1>1, <1>2, <1>12
  <2>2. DOMAIN barrier'.routes = Conns
    BY <1>2, <1>13
  <2>3. \A c \in moved : barrier'.routes[c] \in Paths[c] \cup {<<>>}
    BY <1>2, <1>8
  <2>4. \A c \in Conns \ moved : barrier'.routes[c] = barrier.routes[c]
    BY <1>2, <1>9
  <2>5. barrier'.exact = (barrier.exact /\ \A c \in moved : barrier'.routes[c] # <<>>)
    BY <1>2, <1>11
  <2>6. QED  BY <1>15, <2>1, <2>2, <2>3, <2>4, <2>5 DEF Commits!Reroute, Ignored
<1>17. NextBatch = batch /\ NextBatch < NumBatches /\ NextBatch' = NextBatch + 1
  <2>1. NextBatch = batch /\ batch < NumBatches /\ batch \in Int /\ NumBatches \in Int
    BY <1>1, BatchAssumption DEF NextBatch, Batches
  <2>2. CASE batch + 1 < NumBatches
    BY <2>1, <2>2 DEF JoinPrices, NextBatch, InBatch
  <2>3. CASE ~(batch + 1 < NumBatches)
    <3>1. batch + 1 = NumBatches /\ phase' = "labeled"
      BY <2>1, <2>3 DEF JoinPrices
    <3>2. QED  BY <2>1, <3>1 DEF NextBatch, InBatch
  <2>4. QED  BY <2>1, <2>2, <2>3
<1>18. QED  BY <1>3, <1>16, <1>17 DEF Commits!Commit, NextBatch, InBatch

LEMMA RerouteMaps ==
  ASSUME IInv, IInv', RouteLabeled, Ignored' = Ignored
  PROVE  Commits!RerouteLabeled
<1>1. PICK c, p : c = LabeledConn /\ LabeledStep(c, p)
  BY LabeledIs DEF IInv
<1>2. c \in Conns /\ p \in Paths[c] \cup {<<>>} /\ TypeOK
  BY <1>1 DEF LabeledStep, IInv
<1>3. /\ rnodes' = [rnodes EXCEPT ![c] = p]
      /\ failedSinks' = IF p = <<>> THEN failedSinks \cup {Sink[c]} ELSE failedSinks
      /\ barrier' = [routes |-> rnodes', occ |-> occ', exact |-> failedSinks' = {}]
  BY <1>1 DEF LabeledStep, FailedWith
<1>4. ShouldRoute(c) /\ phase = "labeled" /\ phase' = "labeled"
  BY <1>1 DEF RouteLabeled
<1>5. barrier = [routes |-> rnodes, occ |-> occ, exact |-> failedSinks = {}]
  BY <1>4 DEF IInv, SinceBarrier, InBatch
<1>6. barrier.routes = rnodes /\ barrier.occ = occ /\ barrier.exact = (failedSinks = {})
  BY <1>5
<1>7. barrier'.routes = rnodes' /\ barrier'.occ = occ' /\ barrier'.exact = (failedSinks' = {})
  BY <1>3
<1>8. Moved(c)
  <2>1. RoutesArePaths(NetOf[c]) /\ isRouted[c] \in BOOLEAN
    BY <1>2, ConnFacts DEF IInv, NetInv, TypeOK
  <2>2. QED  BY <1>2, <1>4, <1>6, <2>1, ShouldIsMoved
<1>9. Commits!MustReroute(c)
  BY <1>8 DEF Commits!MustReroute, Commits!Visited, Moved, NodesOf, Ignored
<1>10. {d \in {c} : Commits!MustReroute(d)} = {c}
  BY <1>9
<1>11. Commits!Reroute({c})
  <2>1. barrier'.exact => barrier'.occ = Commits!OccupancyOf(barrier'.routes)
    <3>1. failedSinks' = {} => occ' = Commits!OccupancyOf(rnodes)'
      BY <1>4, OccIsOccupancyNext DEF InBatch
    <3>2. Commits!OccupancyOf(rnodes)' = Commits!OccupancyOf(rnodes')
      BY DEF Commits!OccupancyOf, Commits!Visited
    <3>3. QED  BY <1>7, <3>1, <3>2
  <2>2. DOMAIN barrier'.routes = Conns /\ barrier'.routes[c] = p
    BY <1>2, <1>3, <1>7 DEF TypeOK
  <2>3. \A d \in Conns \ {c} : barrier'.routes[d] = barrier.routes[d]
    BY <1>2, <1>3, <1>6, <1>7 DEF TypeOK
  <2>4. barrier'.exact = (barrier.exact /\ \A d \in {c} : barrier'.routes[d] # <<>>)
    <3>1. (\A d \in {c} : barrier'.routes[d] # <<>>) <=> p # <<>>
      BY <2>2
    <3>2. failedSinks' = {} <=> failedSinks = {} /\ p # <<>>
      BY <1>3
    <3>3. barrier.exact \in BOOLEAN /\ barrier'.exact \in BOOLEAN
      BY <1>6, <1>7
    <3>4. barrier'.exact <=> barrier.exact /\ \A d \in {c} : barrier'.routes[d] # <<>>
      BY <1>6, <1>7, <3>1, <3>2
    <3>5. QED  BY <3>3, <3>4
  <2>5. QED  BY <1>2, <1>10, <2>1, <2>2, <2>3, <2>4 DEF Commits!Reroute, Ignored
<1>12. QED  BY <1>2, <1>4, <1>11 DEF Commits!RerouteLabeled

LEMMA NextMaps ==
  ASSUME IInv, IInv', [Next]_vars
  PROVE  [Commits!Commit \/ Commits!RerouteLabeled \/ Commits!NextIteration]_Commits!commitVars
<1>1. Ignored' = Ignored
  BY IgnoredKept
<1>2. CASE JoinPrices
  BY <1>1, <1>2, CommitMaps
<1>3. CASE RouteLabeled
  BY <1>1, <1>3, RerouteMaps
<1>4. CASE EndIteration
  <2>1. UNCHANGED barrier /\ phase = "labeled"
    BY <1>4 DEF EndIteration, history
  <2>2. CASE phase' \in {"converged", "handedOver"}
    <3>1. NextBatch' = NextBatch
      BY <2>1, <2>2 DEF NextBatch, InBatch
    <3>2. QED  BY <1>1, <2>1, <3>1, StutterMaps
  <2>3. CASE phase' = "route" /\ batch' = 0
    BY <1>1, <2>1, <2>3 DEF Commits!NextIteration, Ignored
  <2>4. QED  BY <1>4, <2>2, <2>3 DEF EndIteration
<1>5. CASE \/ JoinRoute \/ JoinNets \/ KeepLabeled \/ AssertLabeledCount \/ UNCHANGED vars
           \/ \E t \in Threads : Working(t)
  <2>1. UNCHANGED <<barrier, batch>> /\ InBatch' = InBatch
    <3>1. CASE JoinRoute \/ JoinNets \/ KeepLabeled \/ AssertLabeledCount
      BY <3>1 DEF JoinRoute, JoinNets, KeepLabeled, AssertLabeledCount, LabeledUnchanged, history, InBatch
    <3>2. CASE UNCHANGED vars
      BY <3>2 DEF vars, loopVars, history, InBatch
    <3>3. ASSUME NEW t \in Threads, Working(t) PROVE UNCHANGED <<barrier, batch>> /\ InBatch' = InBatch
      BY <3>3 DEF Working, BeginNet, KeepConnection, RouteConnection, AssertPreDecrement, EndNet, ApplyIncrements,
                  Decremented, UpdatePrices, loopVars, history, InBatch
    <3>4. QED  BY <1>5, <3>1, <3>2, <3>3
  <2>2. NextBatch' = NextBatch
    BY <2>1 DEF NextBatch
  <2>3. QED  BY <1>1, <2>1, <2>2, StutterMaps
<1>6. QED  BY <1>2, <1>3, <1>4, <1>5, NextIs DEF Main

\* The three rounds of a batch, with their deferred changes and their threads,
\* implement the atomic re-routing of the batch against the last barrier
\* ("stable": the result does not depend on how the threads interleave).
THEOREM RoundsImplementBatchCommit == Spec => ImplementsBatchCommit
<1>1. Init => Commits!CommitInit
  BY InitMaps
<1>2. IInv /\ IInv' /\ [Next]_vars =>
        [Commits!Commit \/ Commits!RerouteLabeled \/ Commits!NextIteration]_Commits!commitVars
  BY NextMaps
<1>3. QED  BY <1>1, <1>2, StableFirstInvariant, PTL DEF Spec, ImplementsBatchCommit, Commits!CommitSpec

=============================================================================
