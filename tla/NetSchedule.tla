----------------------------- MODULE NetSchedule ----------------------------
(***************************************************************************)
(* Which thread routes which net (partition() of                           *)
(* src/src/route/aStarRoute.cpp), from the boxes that the nets get from    *)
(* their pins.  In stable-first mode the largest nets are labeled, to be   *)
(* routed on their own, and the others are clustered and cut into batches; *)
(* in runtime-first mode regions of the device are bisected and the nets   *)
(* of each level dealt out to the threads.                                 *)
(*                                                                         *)
(* The users of a net have no lock: the routers rely on every net being on *)
(* one thread.  Which cluster suits a net best is left open, as is the     *)
(* order among equals.                                                     *)
(***************************************************************************)
EXTENDS NetBoxes

CONSTANTS
  Nets,
  Inputs,        \* what input may be
  NetsPerBatch   \* the 256 nets of a batch and thread

ASSUME ScheduleAssumption ==
  /\ IsFiniteSet(Nets) /\ NetsPerBatch \in Nat \ {0}
  /\ \A in \in Inputs :
       /\ in.numThread \in Nat \ {0} /\ in.isRuntimeFirst \in BOOLEAN
       /\ DOMAIN in.net = Nets
       /\ \A n \in Nets : in.net[n].source \in Tile /\ in.net[n].sinks \in Seq(Tile)

VARIABLES
  input,       \* numThread, isRuntimeFirst and the pins of the nets
  connBox, netBox,  \* the boxes of the connections and of the nets
  pc,          \* the step of the partition, "done" or "aborted"
  labeled,     \* labeledNetIds
  queue, levels, level,   \* regions to cut, regions of each level, level at hand
  toPlace, partitionFanout,
  netIdsForThreads,
  netIdBatchesForThreads,
  tid          \* the thread whose batches are cut next

regionVars == <<queue, levels, level, toPlace, partitionFanout>>
vars == <<input, connBox, netBox, pc, labeled, regionVars, netIdsForThreads, netIdBatchesForThreads, tid>>

Threads == 1..input.numThread
Net(n) == input.net[n]
\* The number of connections of the nets of S.
Size(S) == FoldSet(LAMBDA n, sum : sum + Len(Net(n).sinks), 0, S)
Connected == {n \in Nets : Net(n).sinks # <<>>}
\* The area that labelNets compares, and that of getArea().
Tiles(n) == (netBox[n].x.hi - netBox[n].x.lo + 1) * (netBox[n].y.hi - netBox[n].y.lo + 1)
getArea(n) == (netBox[n].x.hi - netBox[n].x.lo) * (netBox[n].y.hi - netBox[n].y.lo)

\* The region that is cut first.
Device == [x |-> [lo |-> -1, hi |-> Layout.x - 1], y |-> [lo |-> 0, hi |-> Layout.y]]

\* One, and one more for each power of two below the number of threads.
NumLevels == 1 + Cardinality({k \in 0..input.numThread : 2^k < input.numThread})
Levels == 0..(NumLevels - 1)

Init ==
  /\ input \in Inputs
  /\ connBox = [n \in Connected |->
                  [k \in DOMAIN Net(n).sinks |-> ConnectionBox(Net(n), k)]]
  /\ netBox = [n \in Connected |-> NetBox(Net(n), connBox[n])]
  /\ pc = "widen"
  /\ labeled = {}
  /\ queue = <<[box |-> Device, level |-> 0, nets |-> Connected]>>
  /\ levels = [l \in Levels |-> <<>>]
  /\ level = 0
  /\ toPlace = {} /\ partitionFanout = [t \in Threads |-> 0]
  /\ netIdsForThreads = [t \in Threads |-> {}]
  /\ netIdBatchesForThreads = <<>>
  /\ tid = 1

\* Before the nets are scheduled their boxes get the margins.
updateIndirectConnectionBBox ==
  /\ pc = "widen"
  /\ connBox' = [n \in Connected |->
                   [k \in DOMAIN connBox[n] |-> WidenedBox(connBox[n][k])]]
  /\ netBox' = [n \in Connected |-> NetBox(Net(n), connBox'[n])]
  /\ pc' = IF input.isRuntimeFirst THEN "cut" ELSE "label"
  /\ UNCHANGED <<input, labeled, regionVars, netIdsForThreads, netIdBatchesForThreads, tid>>

-----------------------------------------------------------------------------
(* Stable-first: labelNets, kmeansBasedPartition.                          *)

\* Label the nets from the largest area down, all of one area together, as
\* long as they hold less than half of the connections.
LabelNets ==
  /\ pc = "label"
  /\ labeled' = {n \in Connected :
       2 * Size({m \in Connected : Tiles(m) >= Tiles(n)}) < Size(Nets)}
  /\ pc' = "cluster"
  /\ UNCHANGED <<input, connBox, netBox, regionVars, netIdsForThreads, netIdBatchesForThreads, tid>>

\* Slip: the labeled nets are clustered too.
AllNets == Nets

netIdsToPartition == Nets \ labeled

\* kmeans gives each net the thread of some cluster; the batches are empty.
Cluster ==
  /\ pc = "cluster"
  /\ \E labels \in [netIdsToPartition -> Threads] :
       netIdsForThreads' =
         [t \in Threads |-> {n \in netIdsToPartition : labels[n] = t}]
  /\ netIdBatchesForThreads' =
       [b \in 1..(Cardinality(Nets \ labeled) \div (NetsPerBatch * input.numThread)) |->
          [t \in Threads |-> {}]]
  /\ pc' = "batch"
  /\ UNCHANGED <<input, connBox, netBox, labeled, regionVars, tid>>

numBatches == Len(netIdBatchesForThreads)

\* Slip: a batch takes as many nets as there are batches.
BatchByCount(i, nets) == i \div numBatches

\* The batch of the net in place i, both counted from 0.
BatchId(i, nets) == (i * numBatches) \div Cardinality(nets)

\* Cut the nets of a thread, sorted by angle, into the batches.
CutBatches ==
  /\ pc = "batch" /\ tid \in Threads
  /\ LET nets == netIdsForThreads[tid]
         last == Cardinality(nets) - 1
     IN  IF \E i \in 0..last : BatchId(i, nets) >= numBatches
         THEN pc' = "aborted" /\ UNCHANGED <<netIdBatchesForThreads, tid>>
         ELSE /\ \E order \in SetToSeqs(nets) :
                   netIdBatchesForThreads' =
                     [b \in 1..numBatches |-> [netIdBatchesForThreads[b] EXCEPT ![tid] =
                        {order[i + 1] : i \in {j \in 0..last : BatchId(j, nets) = b - 1}}]]
              /\ tid' = tid + 1 /\ UNCHANGED pc
  /\ UNCHANGED <<input, connBox, netBox, labeled, regionVars, netIdsForThreads>>

EndBatches ==
  /\ pc = "batch" /\ tid \notin Threads
  /\ pc' = "done"
  /\ UNCHANGED <<input, connBox, netBox, labeled, regionVars, netIdsForThreads, netIdBatchesForThreads, tid>>

-----------------------------------------------------------------------------
(* Runtime-first: regionBasedPartition, inLevelRePartition.                *)

Within(a, b) == b.lo <= a.lo /\ a.hi <= b.hi

\* Slip: the net need not start in the region.
EndsIn(box, n) == \A a \in Axes : netBox[n][a].hi <= box[a].hi

isContainsNet(box, n) == \A a \in Axes : Within(netBox[n][a], box[a])

Clamp(v, a) == IF v < a.lo THEN a.lo ELSE IF v > a.hi THEN a.hi ELSE v
Before(r, axis, p) == Size({n \in r.nets : Clamp(Center(Net(n))[axis], r.box[axis]) <= p})
After(r, axis, p) == Size(r.nets) - Before(r, axis, p)
Abs(v) == IF v < 0 THEN -v ELSE v

\* The cuts that leave centers on both sides, and the first of best balance (one cut).
Cuts(r) ==
  {c \in UNION {{a} \X (r.box[a].lo .. r.box[a].hi - 1) : a \in Axes} :
     /\ Before(r, c[1], c[2]) # Before(r, c[1], r.box[c[1]].hi - 1)
     /\ After(r, c[1], c[2]) # After(r, c[1], r.box[c[1]].lo)}
Imbalance(r, c) == Abs(Before(r, c[1], c[2]) - After(r, c[1], c[2]))
IsBefore(c, d) == IF c[1] = d[1] THEN c[2] <= d[2] ELSE c[1] = "x"
BestCuts(r) ==
  LET cuts == Cuts(r)
      score == [c \in cuts |-> Imbalance(r, c)]
  IN  {c \in cuts : \A d \in cuts :
         \/ score[c] < score[d]
         \/ score[c] = score[d] /\ IsBefore(c, d)}

Lower(box, c) == [box EXCEPT ![c[1]].hi = c[2]]
Upper(box, c) == [box EXCEPT ![c[1]].lo = c[2]]
Child(r, box, nets) == [box |-> box, level |-> r.level + 1, nets |-> nets]

AppendTo(l, r) == levels' = [levels EXCEPT ![l] = Append(@, r)]

\* Cut a region in two; the nets that fit in neither half stay with it.
CutRegion ==
  /\ pc = "cut" /\ queue # <<>>
  /\ LET r == Head(queue) IN
       IF r.level + 1 \in Levels /\ Cuts(r) # {}
       THEN \E c \in BestCuts(r) :
              LET left == {n \in r.nets : isContainsNet(Lower(r.box, c), n)}
                  right == {n \in r.nets \ left : isContainsNet(Upper(r.box, c), n)}
              IN  /\ AppendTo(r.level, [r EXCEPT !.nets = @ \ (left \cup right)])
                  /\ queue' = Tail(queue) \o
                       <<Child(r, Lower(r.box, c), left), Child(r, Upper(r.box, c), right)>>
       ELSE AppendTo(r.level, r) /\ queue' = Tail(queue)
  /\ UNCHANGED <<input, connBox, netBox, pc, labeled, level, toPlace, partitionFanout,
                 netIdsForThreads, netIdBatchesForThreads, tid>>

EndCuts ==
  /\ pc = "cut" /\ queue = <<>>
  /\ pc' = "assign"
  /\ UNCHANGED <<input, connBox, netBox, labeled, regionVars, netIdsForThreads, netIdBatchesForThreads, tid>>

NetsOf(l) == UNION {levels[l][j].nets : j \in DOMAIN levels[l]}

\* A level with a region for every thread is dealt out in turn.
DealLevel ==
  /\ pc = "assign" /\ level \in Levels /\ Len(levels[level]) >= input.numThread
  /\ netIdsForThreads' = [t \in Threads |-> netIdsForThreads[t] \cup
       UNION {levels[level][j].nets : j \in {k \in DOMAIN levels[level] :
                                               (k - 1) % input.numThread = t - 1}}]
  /\ level' = level + 1
  /\ UNCHANGED <<input, connBox, netBox, pc, labeled, queue, levels, toPlace, partitionFanout,
                 netIdBatchesForThreads, tid>>

\* The nets of other levels are placed one by one.
StartLevel ==
  /\ pc = "assign" /\ level \in Levels /\ Len(levels[level]) < input.numThread
  /\ toPlace' = NetsOf(level)
  /\ partitionFanout' = [t \in Threads |-> 0]
  /\ pc' = "place"
  /\ UNCHANGED <<input, connBox, netBox, labeled, queue, levels, level, netIdsForThreads,
                 netIdBatchesForThreads, tid>>

upperBoundNetNum(l) == (Size(NetsOf(l)) * 105) \div (100 * input.numThread)

\* Slip: any thread but the fullest has room.
NotTheFullest(n) ==
  {t \in Threads : \E s \in Threads : partitionFanout[t] < partitionFanout[s]}

HasRoom(n) == {t \in Threads : partitionFanout[t] + Size({n}) <= upperBoundNetNum(level)}

\* The box of a level.  Its upper bound in y is taken from the bounds in x, as in the code.
levelBox(l) ==
  LET bounds(a) == {levels[l][j].box[a] : j \in DOMAIN levels[l]}
      xMax == Greatest({b.hi : b \in bounds("x")})
  IN  [x |-> [lo |-> Least({b.lo : b \in bounds("x")}), hi |-> xMax],
       y |-> [lo |-> Least({b.lo : b \in bounds("y")}), hi |-> xMax]]

\* Half of v, rounded to zero, and the two halves of a box along its longer side.
Half(v) == IF v < 0 THEN -(-v \div 2) ELSE v \div 2
Halves(b) ==
  LET a == IF b.x.hi - b.x.lo >= b.y.hi - b.y.lo THEN "x" ELSE "y"
      middle == Half(b[a].lo + b[a].hi)
  IN  <<[b EXCEPT ![a].hi = middle], [b EXCEPT ![a].lo = middle]>>

\* One piece of the level for every thread: the first of the queue is cut until there are enough.
levelBoxPieces(l) ==
  FoldLeft(LAMBDA pieces, i : Tail(pieces) \o Halves(Head(pieces)),
           <<levelBox(l)>>, [i \in 1..(input.numThread - 1) |-> i])

\* The tiles that a net's box and a piece have in common, if they overlap in both directions.
Overlap(n, b) ==
  LET Width(a) == Least({netBox[n][a].hi, b[a].hi}) - Greatest({netBox[n][a].lo, b[a].lo})
  IN  IF \A a \in Axes : (netBox[n][a].lo - b[a].hi) * (netBox[n][a].hi - b[a].lo) < 0
      THEN Width("x") * Width("y") ELSE 0
\* Twice the distance of the centers.
Distance(n, b) ==
  LET Apart(a) == Abs(2 * Center(Net(n))[a] - (b[a].lo + b[a].hi)) IN Apart("x") + Apart("y")
overlapCompare(n, a, b) ==
  \/ Overlap(n, a) > Overlap(n, b)
  \/ Overlap(n, a) = Overlap(n, b) /\ Distance(n, a) < Distance(n, b)

\* The threads with room whose piece suits the net best.
Preferred(n) ==
  LET pieces == levelBoxPieces(level)
  IN  {t \in HasRoom(n) : \A s \in HasRoom(n) : ~overlapCompare(n, pieces[s], pieces[t])}

\* The largest net goes to the best thread with room, and to none if there is none.
PlaceNet ==
  /\ pc = "place"
  /\ \E n \in toPlace :
       /\ \A m \in toPlace : getArea(m) <= getArea(n)
       /\ toPlace' = toPlace \ {n}
       /\ IF HasRoom(n) = {}
          THEN UNCHANGED <<netIdsForThreads, partitionFanout>>
          ELSE \E t \in Preferred(n) :
                 /\ netIdsForThreads' = [netIdsForThreads EXCEPT ![t] = @ \cup {n}]
                 /\ partitionFanout' = [partitionFanout EXCEPT ![t] = @ + Size({n})]
  /\ UNCHANGED <<input, connBox, netBox, pc, labeled, queue, levels, level, netIdBatchesForThreads, tid>>

EndLevel ==
  /\ pc = "place" /\ toPlace = {}
  /\ level' = level + 1
  /\ pc' = "assign"
  /\ UNCHANGED <<input, connBox, netBox, labeled, queue, levels, toPlace, partitionFanout,
                 netIdsForThreads, netIdBatchesForThreads, tid>>

EndAssign ==
  /\ pc = "assign" /\ level \notin Levels
  /\ pc' = "done"
  /\ UNCHANGED <<input, connBox, netBox, labeled, regionVars, netIdsForThreads, netIdBatchesForThreads, tid>>

Next ==
  \/ updateIndirectConnectionBBox
  \/ LabelNets \/ Cluster \/ CutBatches \/ EndBatches
  \/ CutRegion \/ EndCuts \/ DealLevel \/ StartLevel \/ PlaceNet \/ EndLevel \/ EndAssign

Spec == Init /\ [][Next]_vars

-----------------------------------------------------------------------------

\* The search of a connection may enter the tiles of both of its pins, also at
\* the border of the device, and the box of its net, which the schedules
\* compare, covers all that it may enter (aStarRoute.cpp:382-412, 650-655,
\* netlist.cpp:455-479).
PinsInReach ==
  pc # "widen" =>
    \A n \in Connected : \A k \in DOMAIN connBox[n] :
      /\ isAccessible(Net(n).source, connBox[n][k])
      /\ isAccessible(Net(n).sinks[k], connBox[n][k])
      /\ \A a \in Axes : Within(connBox[n][k][a], netBox[n][a])

\* No two threads ever get one net, nor does a thread get a labeled net: the
\* routers update the users of a net without a lock (connection.h:59-76,
\* runtimeFirstRouting.cpp:43-49, stableFirstRouting.cpp:24-26).
OneThreadPerNet ==
  /\ \A s, t \in Threads : s # t => netIdsForThreads[s] \cap netIdsForThreads[t] = {}
  /\ \A t \in Threads : netIdsForThreads[t] \cap labeled = {}

\* Every net is labeled or in one batch of one thread, whatever the clusters,
\* and the batches of a thread differ by at most one net
\* (stableFirstRouting.cpp:155-199).
BatchesComplete ==
  pc = "done" /\ ~input.isRuntimeFirst =>
    /\ \A n \in Nets \ labeled :
         Cardinality({p \in (1..numBatches) \X Threads :
                        n \in netIdBatchesForThreads[p[1]][p[2]]}) = 1
    /\ \A a, b \in 1..numBatches : \A t \in Threads :
         Cardinality(netIdBatchesForThreads[a][t]) <= Cardinality(netIdBatchesForThreads[b][t]) + 1

\* The queue and the levels, and the places of the regions in them.
Lanes == {-1} \cup Levels
Lane(l) == IF l = -1 THEN queue ELSE levels[l]
Places == UNION {{l} \X DOMAIN Lane(l) : l \in Lanes}
Region(p) == Lane(p[1])[p[2]]
ShareInner(a, b) == a.lo < b.hi /\ b.lo < a.hi

\* The cuts keep every net in one region, and the nets of two regions of one
\* level share no inner tile, so that dealing regions to threads keeps these
\* apart (runtimeFirstRouting.cpp:150-199).
RegionsApart ==
  pc = "cut" =>
    /\ UNION {Region(p).nets : p \in Places} = Connected
    /\ \A p, q \in Places : p # q =>
         \A n \in Region(p).nets, m \in Region(q).nets :
           /\ n # m
           /\ Region(p).level = Region(q).level =>
                \E a \in Axes : ~ShareInner(netBox[n][a], netBox[m][a])

\* A net that no thread gets is one of a level with too few regions, and it did
\* not fit beside the nets of that level on any thread
\* (runtimeFirstRouting.cpp:369-375).
LeftOutOnlyWithoutRoom ==
  pc = "done" /\ input.isRuntimeFirst =>
    \A n \in Connected \ UNION {netIdsForThreads[t] : t \in Threads} :
      \E l \in Levels :
        /\ n \in NetsOf(l) /\ Len(levels[l]) < input.numThread
        /\ \A t \in Threads :
             Size({n} \cup (netIdsForThreads[t] \cap NetsOf(l))) > upperBoundNetNum(l)

\* stableFirstRouting.cpp:197 assert_t(batchId < numBatches)
BatchIdInRange == pc # "aborted"

=============================================================================
