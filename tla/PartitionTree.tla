---------------------------- MODULE PartitionTree ---------------------------
(***************************************************************************)
(* The recursive partitioning ternary tree of the connections (RPTT,       *)
(* src/src/route/partitionTree.cpp) and the routing of its leaves          *)
(* (routePartitionTree, src/src/route/aStarRoute.cpp).  The leaves of one  *)
(* level are routed concurrently, without locks and with one shared        *)
(* NodeInfo array, so no two of them may come near the same node.          *)
(*                                                                         *)
(* A box is a pair of closed intervals.  The router enters only nodes      *)
(* whose tile is strictly inside the box of the connection.                *)
(***************************************************************************)
EXTENDS Integers, Sequences, FiniteSets, FiniteSetsExt

CONSTANTS
  Conns,
  Boxes,       \* the bounding boxes that the connections may have
  NumThreads

Axes == {"x", "y"}

\* lo < hi: updateIndirectConnectionBBox widens every box by a margin.
ASSUME BoxesAssumption ==
  \A b \in Boxes : \A a \in Axes :
    b[a].lo \in Int /\ b[a].hi \in Int /\ b[a].lo < b[a].hi
ASSUME SizesAssumption == IsFiniteSet(Conns) /\ Conns # {} /\ NumThreads \in Nat \ {0}

VARIABLES
  box,         \* box[c]: the bounding box of connection c
  pending,     \* the tree nodes that buildTree has yet to split
  leaves,      \* the tree nodes without a cutline
  levels,      \* scheduledTreeNodes
  phase,       \* "build", "schedule", "route" or "done"
  level,       \* the level that is routed
  running,     \* its leaves that are being routed
  finished     \* the leaves that are routed

treeVars == <<pending, leaves>>
routeVars == <<level, running, finished>>
vars == <<box, treeVars, levels, phase, routeVars>>

\* The union of the boxes of a set of connections (UnionWith, Update); the
\* box of no connection is invalid.
NoBox == [a \in Axes |-> [lo |-> 1, hi |-> 0]]
BoxOf(C) ==
  IF C = {} THEN NoBox
  ELSE [a \in Axes |-> [lo |-> Min({box[c][a].lo : c \in C}),
                        hi |-> Max({box[c][a].hi : c \in C})]]

Init ==
  /\ box \in [Conns -> Boxes]
  /\ pending = {[conns |-> Conns, bbox |-> BoxOf(Conns)]}
  /\ leaves = {} /\ levels = <<>> /\ phase = "build"
  /\ level = 1 /\ running = {} /\ finished = {}

-----------------------------------------------------------------------------
\* buildTree

\* xTotalBefore and xTotalAfter at a cutline (yTotalBefore, yTotalAfter)
Before(node, a, pos) == Cardinality({c \in node.conns : box[c][a].lo <= pos})
After(node, a, pos) == Cardinality({c \in node.conns : box[c][a].hi > pos})

\* Slip: a cutline may leave all connections on its right.
OneSidedCutlines(node) ==
  UNION {{[axis |-> a, pos |-> p] : p \in
            {q \in node.bbox[a].lo..(node.bbox[a].hi - 1) :
               Before(node, a, q) # Before(node, a, node.bbox[a].hi - 1)}} : a \in Axes}

\* The cutlines with connections on either side.
Cutlines(node) ==
  UNION {{[axis |-> a, pos |-> p] : p \in
            {q \in node.bbox[a].lo..(node.bbox[a].hi - 1) :
               /\ Before(node, a, q) # Before(node, a, node.bbox[a].hi - 1)
               /\ After(node, a, q) # After(node, a, node.bbox[a].lo)}} : a \in Axes}

\* balanceScore is Difference / Larger.
Difference(node, cut) ==
  LET d == Before(node, cut.axis, cut.pos) - After(node, cut.axis, cut.pos)
  IN  IF d < 0 THEN -d ELSE d
Larger(node, cut) ==
  Max({Before(node, cut.axis, cut.pos), After(node, cut.axis, cut.pos)})
Balance(node, cut, other) == Difference(node, cut) * Larger(node, other)

\* The first cutline of the best score, x before y and low before high.
IsFirst(cut, other) ==
  \/ cut.axis = "x" /\ other.axis = "y"
  \/ cut.axis = other.axis /\ cut.pos <= other.pos
IsBest(node, cut) ==
  \A other \in Cutlines(node) :
    \/ Balance(node, cut, other) < Balance(node, other, cut)
    \/ Balance(node, cut, other) = Balance(node, other, cut) /\ IsFirst(cut, other)

\* Slip: a connection over the cutline goes to the left.
LeftOrAcross(node, cut) == {c \in node.conns : box[c][cut.axis].lo <= cut.pos}

LeftConns(node, cut) == {c \in node.conns : box[c][cut.axis].hi <= cut.pos}
RightConns(node, cut) ==
  {c \in node.conns \ LeftConns(node, cut) : box[c][cut.axis].lo >= cut.pos}

\* Slip: the connections on the right are kept in the middle as well.
MiddleAndRight(node, cut) == node.conns \ LeftConns(node, cut)

MiddleConns(node, cut) == (node.conns \ LeftConns(node, cut)) \ RightConns(node, cut)

Children(node, cut) ==
  {[conns |-> LeftConns(node, cut), bbox |-> [node.bbox EXCEPT ![cut.axis].hi = cut.pos]],
   [conns |-> RightConns(node, cut), bbox |-> [node.bbox EXCEPT ![cut.axis].lo = cut.pos]],
   [conns |-> MiddleConns(node, cut), bbox |-> BoxOf(MiddleConns(node, cut))]}

Split(node) ==
  /\ phase = "build"
  /\ \E cut \in Cutlines(node) :
       /\ IsBest(node, cut)
       /\ pending' = (pending \ {node}) \cup Children(node, cut)
  /\ UNCHANGED <<box, leaves, levels, phase, routeVars>>

KeepWhole(node) ==
  /\ phase = "build"
  /\ Cutlines(node) = {}
  /\ pending' = pending \ {node}
  /\ leaves' = leaves \cup {node}
  /\ UNCHANGED <<box, levels, phase, routeVars>>

Built ==
  /\ phase = "build" /\ pending = {}
  /\ phase' = "schedule"
  /\ UNCHANGED <<box, treeVars, levels, routeVars>>

-----------------------------------------------------------------------------
\* schedule

\* HasStrictIntersectWith
StrictlyIntersect(b1, b2) ==
  \A a \in Axes : Max({b1[a].lo, b2[a].lo}) < Min({b1[a].hi, b2[a].hi})

\* Slip: leaves without a common connection count as free of conflict.
FitsIfDisjoint(leaf, lvl) == \A other \in lvl : leaf.conns \cap other.conns = {}

Fits(leaf, lvl) == \A other \in lvl : ~StrictlyIntersect(leaf.bbox, other.bbox)

Scheduled == UNION {levels[i] : i \in 1..Len(levels)}

\* The next leaf in the order of falling connection numbers (std::sort leaves
\* the order of equal ones open) goes to the first level where it fits.
Schedule(leaf) ==
  /\ phase = "schedule"
  /\ leaf \notin Scheduled
  /\ \A other \in leaves \ Scheduled :
       Cardinality(other.conns) <= Cardinality(leaf.conns)
  /\ \/ \E i \in 1..Len(levels) :
          /\ Fits(leaf, levels[i])
          /\ \A j \in 1..(i - 1) : ~Fits(leaf, levels[j])
          /\ levels' = [levels EXCEPT ![i] = @ \cup {leaf}]
     \/ /\ \A i \in 1..Len(levels) : ~Fits(leaf, levels[i])
        /\ levels' = Append(levels, {leaf})
  /\ UNCHANGED <<box, treeVars, phase, routeVars>>

AllScheduled ==
  /\ phase = "schedule" /\ leaves = Scheduled
  /\ phase' = "route"
  /\ UNCHANGED <<box, treeVars, levels, routeVars>>

-----------------------------------------------------------------------------
\* routePartitionTree: one runJobsMT call per level.

StartLeaf(leaf) ==
  /\ phase = "route"
  /\ leaf \in levels[level] \ (running \cup finished)
  /\ Cardinality(running) < NumThreads
  /\ running' = running \cup {leaf}
  /\ UNCHANGED <<box, treeVars, levels, phase, level, finished>>

FinishLeaf(leaf) ==
  /\ phase = "route"
  /\ leaf \in running
  /\ running' = running \ {leaf}
  /\ finished' = finished \cup {leaf}
  /\ UNCHANGED <<box, treeVars, levels, phase, level>>

\* Slip: the last level is left out.
MoreThanOneLevel == level + 1 < Len(levels)

MoreLevels == level < Len(levels)

EndLevel ==
  /\ phase = "route" /\ levels[level] \subseteq finished
  /\ IF MoreLevels THEN level' = level + 1 /\ UNCHANGED phase
                   ELSE phase' = "done" /\ UNCHANGED level
  /\ UNCHANGED <<box, treeVars, levels, running, finished>>

Next ==
  \/ \E node \in pending : Split(node) \/ KeepWhole(node)
  \/ Built
  \/ \E leaf \in leaves : Schedule(leaf) \/ StartLeaf(leaf) \/ FinishLeaf(leaf)
  \/ AllScheduled
  \/ EndLevel

Spec == Init /\ [][Next]_vars
FairSpec == Spec /\ WF_vars(Next)

-----------------------------------------------------------------------------

IsTreeNode(node) ==
  /\ node.conns \subseteq Conns
  /\ \A a \in Axes : node.bbox[a].lo \in Int /\ node.bbox[a].hi \in Int

TypeOK ==
  /\ box \in [Conns -> Boxes]
  /\ \A node \in pending \cup leaves : IsTreeNode(node)
  /\ levels \in Seq(SUBSET leaves)
  /\ phase \in {"build", "schedule", "route", "done"}
  /\ level \in Nat
  /\ running \subseteq leaves /\ Cardinality(running) <= NumThreads
  /\ finished \subseteq leaves

\* The tree loses and doubles no connection (the assertion of getLeafNodes,
\* partitionTree.cpp:201-203): each is in exactly one leaf or unsplit node.
EachConnOnce ==
  \A c \in Conns : \E node \in pending \cup leaves :
    /\ c \in node.conns
    /\ \A other \in pending \cup leaves : c \in other.conns => other = node

\* The box of a tree node contains the boxes of its connections, so that
\* comparing the boxes of two leaves says something about their connections.
NodeCoversConns ==
  \A node \in pending \cup leaves : \A c \in node.conns : \A a \in Axes :
    node.bbox[a].lo <= box[c][a].lo /\ box[c][a].hi <= node.bbox[a].hi

\* Two leaves that are routed at the same time have no connections whose
\* boxes share a tile strictly inside both: their searches and rip-ups touch
\* different nodes, and therefore different nets and NodeInfo records.
InteriorsMeet(c, d) == \A a \in Axes : \E p \in
  (box[c][a].lo + 1)..(box[c][a].hi - 1) : box[d][a].lo < p /\ p < box[d][a].hi
NoConcurrentSharing ==
  \A leaf, other \in running : leaf # other =>
    \A c \in leaf.conns, d \in other.conns : ~InteriorsMeet(c, d)

\* A routed tree has routed every connection.
DoneMeansAllRouted ==
  phase = "done" => \A c \in Conns : \E leaf \in finished : c \in leaf.conns

\* Splitting, scheduling and routing come to an end: every cut leaves
\* connections on both sides, so the recursion of buildTree is finite.
TreeIsRouted == <>(phase = "done")

=============================================================================
