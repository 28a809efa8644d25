------------------------- MODULE PartitionTreeProofs ------------------------
(***************************************************************************)
(* Whatever the boxes of the connections, the tree keeps every connection  *)
(* once, its nodes cover their connections, leaves that are routed at the  *)
(* same time have no tile in common, and a routed tree is routed whole.    *)
(*                                                                         *)
(* What makes these inductive is that no node with connections is pending  *)
(* and a leaf at once (NodesApart), that two leaves of a level do not      *)
(* intersect (LevelsApart), and that the running leaves are all of the     *)
(* level at hand, below which everything is finished (RoutedInOrder).      *)
(***************************************************************************)
EXTENDS PartitionTree, TLAPS, FiniteSetTheorems, NaturalsInduction, WellFoundedInduction,
        SequenceTheorems

Bounds == [lo : Int, hi : Int]

ProperNode(node) == node.conns \subseteq Conns /\ node.bbox \in [Axes -> Bounds]

NodesApart == \A node \in pending \cap leaves : node.conns = {}

LevelsApart ==
  \A i \in 1..Len(levels) : \A leaf, other \in levels[i] :
    leaf # other => ~StrictlyIntersect(leaf.bbox, other.bbox)

PhasesInOrder ==
  /\ phase # "build" => pending = {}
  /\ phase \in {"route", "done"} => leaves = Scheduled

RoutedInOrder ==
  /\ phase \in {"build", "schedule"} => running = {} /\ level = 1
  /\ phase \in {"route", "done"} => level \in 1..Len(levels) /\ running \subseteq levels[level]
  /\ running \cap finished = {}
  /\ \A i \in 1..Len(levels) : i < level \/ phase = "done" => levels[i] \subseteq finished

\* The parts of the invariant that speak only of the nodes and their boxes.
TreeInv ==
  /\ box \in [Conns -> Boxes] /\ \A node \in pending \cup leaves : ProperNode(node)
  /\ EachConnOnce /\ NodeCoversConns /\ NodesApart

\* The parts that speak of the levels and of what has been routed.
ScheduleInv ==
  /\ levels \in Seq(SUBSET leaves)
  /\ phase \in {"build", "schedule", "route", "done"}
  /\ level \in Nat \ {0}
  /\ running \subseteq leaves /\ IsFiniteSet(running) /\ Cardinality(running) <= NumThreads
  /\ finished \subseteq leaves
  /\ LevelsApart /\ PhasesInOrder /\ RoutedInOrder

IInv == TreeInv /\ ScheduleInv

-----------------------------------------------------------------------------

\* A finite set of integers with a member has a least and a greatest one.
LEMMA HasMin ==
  ASSUME NEW S \in SUBSET Int, IsFiniteSet(S), S # {}
  PROVE  Min(S) \in S /\ \A x \in S : Min(S) <= x
<1> DEFINE T == {U \in SUBSET S : U # {} /\ ~ \E m \in U : \A x \in U : m <= x}
<1>1. SUFFICES ASSUME T # {} PROVE FALSE
  <2>1. \E m \in S : \A x \in S : m <= x
    BY <1>1
  <2>2. QED  BY <2>1 DEF Min
<1>2. IsWellFoundedOn(StrictSubsetOrdering(S), SUBSET S)
  BY FS_StrictSubsetOrderingWellFounded, FS_FiniteSubsetsOfFinite
<1>3. PICK U \in T : \A V \in T : <<V, U>> \notin StrictSubsetOrdering(S)
  <2>1. T \subseteq SUBSET S
    OBVIOUS
  <2> HIDE DEF T
  <2>2. QED  BY <1>1, <1>2, <2>1, WFMin
<1>4. PICK u \in U : TRUE
  OBVIOUS
<1> DEFINE V == {x \in U : x < u}
<1>5. V # {}
  BY <1>3
<1>6. V \in SUBSET S /\ V \subseteq U /\ V # U
  <2>1. u \in Int /\ u \notin V
    OBVIOUS
  <2>2. QED  BY <1>4, <2>1
<1>7. V \notin T
  <2>1. <<V, U>> \in StrictSubsetOrdering(S)
    BY <1>6 DEF StrictSubsetOrdering
  <2>2. QED  BY <1>3, <2>1
<1>8. PICK m \in V : \A x \in V : m <= x
  BY <1>5, <1>6, <1>7
<1>9. \A x \in U : m <= x
  BY <1>8
<1>10. QED  BY <1>3, <1>8, <1>9

LEMMA HasMax ==
  ASSUME NEW S \in SUBSET Int, IsFiniteSet(S), S # {}
  PROVE  Max(S) \in S /\ \A x \in S : x <= Max(S)
<1> DEFINE T == {U \in SUBSET S : U # {} /\ ~ \E m \in U : \A x \in U : m >= x}
<1>1. SUFFICES ASSUME T # {} PROVE FALSE
  <2>1. \E m \in S : \A x \in S : m >= x
    BY <1>1
  <2>2. QED  BY <2>1 DEF Max
<1>2. IsWellFoundedOn(StrictSubsetOrdering(S), SUBSET S)
  BY FS_StrictSubsetOrderingWellFounded, FS_FiniteSubsetsOfFinite
<1>3. PICK U \in T : \A V \in T : <<V, U>> \notin StrictSubsetOrdering(S)
  <2>1. T \subseteq SUBSET S
    OBVIOUS
  <2> HIDE DEF T
  <2>2. QED  BY <1>1, <1>2, <2>1, WFMin
<1>4. PICK u \in U : TRUE
  OBVIOUS
<1> DEFINE V == {x \in U : x > u}
<1>5. V # {}
  BY <1>3
<1>6. V \in SUBSET S /\ V \subseteq U /\ V # U
  <2>1. u \in Int /\ u \notin V
    OBVIOUS
  <2>2. QED  BY <1>4, <2>1
<1>7. V \notin T
  <2>1. <<V, U>> \in StrictSubsetOrdering(S)
    BY <1>6 DEF StrictSubsetOrdering
  <2>2. QED  BY <1>3, <2>1
<1>8. PICK m \in V : \A x \in V : m >= x
  BY <1>5, <1>6, <1>7
<1>9. \A x \in U : m >= x
  BY <1>8
<1>10. QED  BY <1>3, <1>8, <1>9

\* The union of the boxes of connections is a box and contains each of them.
LEMMA BoxOfCovers ==
  ASSUME box \in [Conns -> Boxes], NEW C \in SUBSET Conns
  PROVE  /\ BoxOf(C) \in [Axes -> Bounds]
         /\ \A c \in C : \A a \in Axes :
              BoxOf(C)[a].lo <= box[c][a].lo /\ box[c][a].hi <= BoxOf(C)[a].hi
<1>1. CASE C = {}
  BY <1>1 DEF BoxOf, NoBox, Bounds
<1>2. CASE C # {}
  <2>1. ASSUME NEW a \in Axes
        PROVE  LET lows == {box[c][a].lo : c \in C}  highs == {box[c][a].hi : c \in C}
               IN  /\ Min(lows) \in Int /\ Max(highs) \in Int
                   /\ \A c \in C : Min(lows) <= box[c][a].lo /\ box[c][a].hi <= Max(highs)
    <3> DEFINE lows == {box[c][a].lo : c \in C}
               highs == {box[c][a].hi : c \in C}
               low == [c \in C |-> box[c][a].lo]
               high == [c \in C |-> box[c][a].hi]
    <3>1. IsFiniteSet(C)
      BY SizesAssumption, FS_Subset
    <3>2. lows \in SUBSET Int /\ highs \in SUBSET Int /\ lows # {} /\ highs # {}
      BY <1>2, BoxesAssumption
    <3>3. low \in Surjection(C, lows) /\ high \in Surjection(C, highs)
      BY DEF Surjection
    <3>4. IsFiniteSet(lows) /\ IsFiniteSet(highs)
      BY <3>1, <3>3, FS_Surjection
    <3>5. Min(lows) \in lows /\ \A x \in lows : Min(lows) <= x
      BY <3>2, <3>4, HasMin
    <3>6. Max(highs) \in highs /\ \A x \in highs : x <= Max(highs)
      BY <3>2, <3>4, HasMax
    <3>7. QED  BY <3>2, <3>5, <3>6
  <2>2. BoxOf(C) = [a \in Axes |-> [lo |-> Min({box[c][a].lo : c \in C}),
                                    hi |-> Max({box[c][a].hi : c \in C})]]
    BY <1>2 DEF BoxOf
  <2>3. \A a \in Axes : /\ BoxOf(C)[a].lo = Min({box[c][a].lo : c \in C})
                       /\ BoxOf(C)[a].hi = Max({box[c][a].hi : c \in C})
    BY <2>2
  <2>4. BoxOf(C) \in [Axes -> Bounds]
    BY <2>1, <2>2 DEF Bounds
  <2>5. QED  BY <2>1, <2>3, <2>4
<1>3. QED  BY <1>1, <1>2

\* Strict intersection is about the four bounds on each axis, in any order.
LEMMA StrictIntersection ==
  ASSUME NEW b1 \in [Axes -> Bounds], NEW b2 \in [Axes -> Bounds]
  PROVE  /\ StrictlyIntersect(b1, b2) <=>
              \A a \in Axes : /\ b1[a].lo < b1[a].hi /\ b1[a].lo < b2[a].hi
                             /\ b2[a].lo < b1[a].hi /\ b2[a].lo < b2[a].hi
         /\ StrictlyIntersect(b1, b2) <=> StrictlyIntersect(b2, b1)
<1>1. \A x, y \in Int : /\ Max({x, y}) = IF x >= y THEN x ELSE y
                        /\ Min({x, y}) = IF x <= y THEN x ELSE y
  <2> SUFFICES ASSUME NEW x \in Int, NEW y \in Int
               PROVE  /\ Max({x, y}) = IF x >= y THEN x ELSE y
                      /\ Min({x, y}) = IF x <= y THEN x ELSE y
    OBVIOUS
  <2>1. IsFiniteSet({x, y})
    <3>1. IsFiniteSet({x})
      BY FS_Singleton
    <3>2. IsFiniteSet({x} \cup {y})
      BY <3>1, FS_AddElement
    <3>3. {x, y} = {x} \cup {y}
      OBVIOUS
    <3>4. QED  BY <3>2, <3>3
  <2>2. Max({x, y}) \in {x, y} /\ \A z \in {x, y} : z <= Max({x, y})
    BY <2>1, HasMax
  <2>3. Min({x, y}) \in {x, y} /\ \A z \in {x, y} : Min({x, y}) <= z
    BY <2>1, HasMin
  <2>4. QED  BY <2>2, <2>3
<1>2. \A c1, c2 \in [Axes -> Bounds] :
        StrictlyIntersect(c1, c2) <=>
          \A a \in Axes : /\ c1[a].lo < c1[a].hi /\ c1[a].lo < c2[a].hi
                         /\ c2[a].lo < c1[a].hi /\ c2[a].lo < c2[a].hi
  <2> SUFFICES ASSUME NEW c1 \in [Axes -> Bounds], NEW c2 \in [Axes -> Bounds], NEW a \in Axes
               PROVE  Max({c1[a].lo, c2[a].lo}) < Min({c1[a].hi, c2[a].hi}) <=>
                        /\ c1[a].lo < c1[a].hi /\ c1[a].lo < c2[a].hi
                        /\ c2[a].lo < c1[a].hi /\ c2[a].lo < c2[a].hi
    BY DEF StrictlyIntersect
  <2>1. c1[a].lo \in Int /\ c1[a].hi \in Int /\ c2[a].lo \in Int /\ c2[a].hi \in Int
    BY DEF Bounds
  <2> DEFINE l1 == c1[a].lo  l2 == c2[a].lo  h1 == c1[a].hi  h2 == c2[a].hi
  <2>2. /\ Max({l1, l2}) = IF l1 >= l2 THEN l1 ELSE l2
        /\ Min({h1, h2}) = IF h1 <= h2 THEN h1 ELSE h2
    BY <1>1, <2>1
  <2> HIDE DEF l1, l2, h1, h2
  <2>3. Max({l1, l2}) < Min({h1, h2}) <=> l1 < h1 /\ l1 < h2 /\ l2 < h1 /\ l2 < h2
    BY <2>1, <2>2 DEF l1, l2, h1, h2
  <2>4. QED  BY <2>3 DEF l1, l2, h1, h2
<1>3. QED  BY <1>2

-----------------------------------------------------------------------------

\* A cut deals the connections out to the three children.
LEMMA SplitTreeInv ==
  ASSUME TreeInv, NEW node \in pending, Split(node)
  PROVE  TreeInv'
<1> USE DEF TreeInv
<1>1. PICK cut \in Cutlines(node) : pending' = (pending \ {node}) \cup Children(node, cut)
  BY DEF Split
<1>2. box' = box /\ leaves' = leaves
  BY DEF Split
<1>3. cut.axis \in Axes /\ cut.pos \in Int
  <2>1. \A a \in Axes : node.bbox[a].lo \in Int /\ node.bbox[a].hi \in Int
    BY DEF ProperNode, Bounds
  <2>2. QED  BY <2>1 DEF Cutlines
<1> DEFINE left == LeftConns(node, cut)
           right == RightConns(node, cut)
           middle == MiddleConns(node, cut)
           leftNode == [conns |-> left, bbox |-> [node.bbox EXCEPT ![cut.axis].hi = cut.pos]]
           rightNode == [conns |-> right, bbox |-> [node.bbox EXCEPT ![cut.axis].lo = cut.pos]]
           middleNode == [conns |-> middle, bbox |-> BoxOf(middle)]
<1>4. Children(node, cut) = {leftNode, rightNode, middleNode}
  BY DEF Children
<1>5. /\ left \cup right \cup middle = node.conns
      /\ left \cap right = {} /\ left \cap middle = {} /\ right \cap middle = {}
  BY DEF LeftConns, RightConns, MiddleConns
<1>6. /\ \A c \in left : box[c][cut.axis].hi <= cut.pos
      /\ \A c \in right : box[c][cut.axis].lo >= cut.pos
  BY DEF LeftConns, RightConns
<1>7. node.conns \subseteq Conns /\ node.bbox \in [Axes -> Bounds]
  BY DEF ProperNode
<1>8. BoxOf(middle) \in [Axes -> Bounds]
  BY <1>5, <1>7, BoxOfCovers
<1>9. /\ \A a \in Axes : /\ leftNode.bbox[a].lo = node.bbox[a].lo
                        /\ leftNode.bbox[a].hi = IF a = cut.axis THEN cut.pos ELSE node.bbox[a].hi
      /\ \A a \in Axes : /\ rightNode.bbox[a].hi = node.bbox[a].hi
                        /\ rightNode.bbox[a].lo = IF a = cut.axis THEN cut.pos ELSE node.bbox[a].lo
      /\ leftNode.bbox \in [Axes -> Bounds] /\ rightNode.bbox \in [Axes -> Bounds]
  BY <1>3, <1>7 DEF Bounds
<1> HIDE DEF left, right, middle
<1>10. \A other \in pending' \cup leaves' : ProperNode(other)
  <2>1. ProperNode(leftNode) /\ ProperNode(rightNode) /\ ProperNode(middleNode)
    BY <1>5, <1>7, <1>8, <1>9 DEF ProperNode
  <2>2. QED  BY <1>1, <1>2, <1>4, <2>1
<1>11. \A c \in node.conns : \A other \in (pending \ {node}) \cup leaves : c \notin other.conns
  <2> SUFFICES ASSUME NEW c \in node.conns, NEW other \in pending \cup leaves, c \in other.conns
               PROVE  other = node /\ node \notin leaves
    OBVIOUS
  <2>1. other = node
    BY <1>7 DEF EachConnOnce
  <2>2. QED  BY <2>1 DEF NodesApart
<1>12. EachConnOnce'
  <2> SUFFICES ASSUME NEW c \in Conns
               PROVE  \E n \in pending' \cup leaves' :
                        /\ c \in n.conns
                        /\ \A other \in pending' \cup leaves' : c \in other.conns => other = n
    BY DEF EachConnOnce
  <2>1. CASE c \in node.conns
    <3>1. PICK child \in Children(node, cut) :
            /\ c \in child.conns
            /\ \A other \in Children(node, cut) : c \in other.conns => other = child
      <4>1. CASE c \in left
        BY <1>4, <1>5, <4>1
      <4>2. CASE c \in right
        BY <1>4, <1>5, <4>2
      <4>3. CASE c \in middle
        BY <1>4, <1>5, <4>3
      <4>4. QED  BY <1>5, <2>1, <4>1, <4>2, <4>3
    <3>2. QED  BY <1>1, <1>2, <1>11, <2>1, <3>1
  <2>2. CASE c \notin node.conns
    <3>1. PICK n \in pending \cup leaves :
            c \in n.conns /\ \A other \in pending \cup leaves : c \in other.conns => other = n
      BY DEF EachConnOnce
    <3>2. \A child \in Children(node, cut) : c \notin child.conns
      BY <1>4, <1>5, <2>2
    <3>3. n \in pending' \cup leaves'
      BY <1>1, <1>2, <2>2, <3>1
    <3>4. QED  BY <1>1, <1>2, <3>1, <3>2, <3>3
  <2>3. QED  BY <2>1, <2>2
<1>13. NodeCoversConns'
  <2>1. \A c \in node.conns : \A a \in Axes :
          node.bbox[a].lo <= box[c][a].lo /\ box[c][a].hi <= node.bbox[a].hi
    BY DEF NodeCoversConns
  <2>2. \A c \in left : \A a \in Axes :
          leftNode.bbox[a].lo <= box[c][a].lo /\ box[c][a].hi <= leftNode.bbox[a].hi
    BY <1>5, <1>6, <1>9, <2>1
  <2>3. \A c \in right : \A a \in Axes :
          rightNode.bbox[a].lo <= box[c][a].lo /\ box[c][a].hi <= rightNode.bbox[a].hi
    <3>1. \A c \in right : box[c][cut.axis].lo \in Int
      BY <1>3, <1>5, <1>7, BoxesAssumption
    <3>2. QED  BY <1>3, <1>5, <1>6, <1>9, <2>1, <3>1
  <2>4. \A c \in middle : \A a \in Axes :
          middleNode.bbox[a].lo <= box[c][a].lo /\ box[c][a].hi <= middleNode.bbox[a].hi
    BY <1>5, <1>7, BoxOfCovers
  <2>5. \A child \in Children(node, cut) : \A c \in child.conns : \A a \in Axes :
          child.bbox[a].lo <= box[c][a].lo /\ box[c][a].hi <= child.bbox[a].hi
    <3>1. leftNode.conns = left /\ rightNode.conns = right /\ middleNode.conns = middle
      OBVIOUS
    <3> HIDE DEF leftNode, rightNode, middleNode
    <3>2. QED  BY <1>4, <2>2, <2>3, <2>4, <3>1
  <2>6. QED  BY <1>1, <1>2, <2>5 DEF NodeCoversConns
<1>14. NodesApart'
  <2> SUFFICES ASSUME NEW child \in Children(node, cut), child \in leaves, NEW c \in child.conns
               PROVE  FALSE
    BY <1>1, <1>2, <1>10 DEF NodesApart, ProperNode
  <2>1. c \in node.conns
    BY <1>4, <1>5
  <2>2. QED  BY <1>11, <2>1
<1>15. QED  BY <1>2, <1>10, <1>12, <1>13, <1>14

\* A node without a cutline only changes its set.
LEMMA KeepWholeTreeInv ==
  ASSUME TreeInv, NEW node \in pending, KeepWhole(node)
  PROVE  TreeInv'
<1>1. /\ pending' = pending \ {node} /\ leaves' = leaves \cup {node} /\ box' = box
      /\ pending' \cup leaves' = pending \cup leaves
  BY DEF KeepWhole
<1>2. EachConnOnce' /\ NodeCoversConns'
  BY <1>1 DEF TreeInv, EachConnOnce, NodeCoversConns
<1>3. NodesApart'
  BY <1>1 DEF TreeInv, NodesApart
<1>4. QED  BY <1>1, <1>2, <1>3 DEF TreeInv

\* What the tree promises does not depend on how it is scheduled and routed.
LEMMA TreeInvKept == TreeInv /\ UNCHANGED <<box, treeVars>> => TreeInv'
  BY DEF TreeInv, treeVars, EachConnOnce, NodeCoversConns, NodesApart

-----------------------------------------------------------------------------

LEMMA InitIInv == Init => IInv
<1> SUFFICES ASSUME Init PROVE IInv
  OBVIOUS
<1> USE DEF Init
<1> DEFINE root == [conns |-> Conns, bbox |-> BoxOf(Conns)]
<1>1. /\ BoxOf(Conns) \in [Axes -> Bounds]
      /\ \A c \in Conns : \A a \in Axes :
           BoxOf(Conns)[a].lo <= box[c][a].lo /\ box[c][a].hi <= BoxOf(Conns)[a].hi
  BY BoxOfCovers
<1>2. ProperNode(root)
  BY <1>1 DEF ProperNode
<1>3. TreeInv
  BY <1>1, <1>2 DEF TreeInv, EachConnOnce, NodeCoversConns, NodesApart
<1>4. ScheduleInv
  <2>1. levels \in Seq(SUBSET leaves) /\ Len(levels) = 0
    BY EmptySeq
  <2>2. IsFiniteSet(running) /\ Cardinality(running) <= NumThreads
    BY FS_EmptySet, SizesAssumption
  <2>3. LevelsApart /\ PhasesInOrder /\ RoutedInOrder
    BY <2>1 DEF LevelsApart, PhasesInOrder, RoutedInOrder
  <2>4. QED  BY <2>1, <2>2, <2>3 DEF ScheduleInv
<1>5. QED  BY <1>3, <1>4 DEF IInv

\* While the tree is built nothing is scheduled or routed.
LEMMA BuildIInv ==
  ASSUME IInv, NEW node \in pending, Split(node) \/ KeepWhole(node)
  PROVE  IInv'
<1>1. TreeInv'
  BY SplitTreeInv, KeepWholeTreeInv DEF IInv
<1>2. /\ phase = "build" /\ leaves \subseteq leaves'
      /\ UNCHANGED <<levels, phase, level, running, finished>>
  BY DEF Split, KeepWhole, routeVars
<1>3. ScheduleInv
  BY DEF IInv
<1>4. levels' \in Seq(SUBSET leaves')
  <2>1. SUBSET leaves \subseteq SUBSET leaves'
    BY <1>2
  <2>2. QED  BY <1>2, <1>3, <2>1, SeqMonotonic DEF ScheduleInv
<1>5. LevelsApart' /\ PhasesInOrder' /\ RoutedInOrder'
  BY <1>2, <1>3 DEF ScheduleInv, LevelsApart, PhasesInOrder, RoutedInOrder
<1>6. ScheduleInv'
  BY <1>2, <1>3, <1>4, <1>5 DEF ScheduleInv
<1>7. QED  BY <1>1, <1>6 DEF IInv

\* A leaf joins a level only when it intersects none of its leaves.
LEMMA ScheduleIInv ==
  ASSUME IInv, NEW leaf \in leaves, Schedule(leaf)
  PROVE  IInv'
<1>1. /\ phase = "schedule" /\ UNCHANGED <<box, treeVars, phase, level, running, finished>>
      /\ leaves' = leaves /\ pending' = pending
  BY DEF Schedule, routeVars, treeVars
<1>2. TreeInv' /\ TreeInv /\ ScheduleInv
  BY <1>1, TreeInvKept DEF IInv
<1>3. levels \in Seq(SUBSET leaves) /\ Len(levels) \in Nat
  BY <1>2, LenProperties DEF ScheduleInv
<1>4. \A other \in leaves : ProperNode(other)
  BY <1>2 DEF TreeInv
<1>5. ASSUME NEW i \in 1..Len(levels), Fits(leaf, levels[i])
      PROVE  \A one, other \in levels[i] \cup {leaf} :
               one # other => ~StrictlyIntersect(one.bbox, other.bbox)
  <2>1. levels[i] \subseteq leaves
    BY <1>3, ElementOfSeq
  <2>2. \A other \in levels[i] : /\ ~StrictlyIntersect(leaf.bbox, other.bbox)
                               /\ ~StrictlyIntersect(other.bbox, leaf.bbox)
    BY <1>4, <1>5, <2>1, StrictIntersection DEF Fits, ProperNode
  <2>3. QED  BY <1>2, <2>2 DEF ScheduleInv, LevelsApart
<1>6. levels' \in Seq(SUBSET leaves) /\ LevelsApart'
  <2>1. ASSUME NEW i \in 1..Len(levels), Fits(leaf, levels[i]),
               levels' = [levels EXCEPT ![i] = @ \cup {leaf}]
        PROVE  levels' \in Seq(SUBSET leaves) /\ LevelsApart'
    <3>1. levels[i] \cup {leaf} \in SUBSET leaves
      BY <1>3, ElementOfSeq
    <3>2. /\ levels' \in Seq(SUBSET leaves) /\ Len(levels') = Len(levels)
          /\ \A j \in 1..Len(levels) :
               levels'[j] = IF j = i THEN levels[i] \cup {leaf} ELSE levels[j]
      BY <1>3, <2>1, <3>1, ExceptSeq
    <3>3. QED  BY <1>2, <1>5, <2>1, <3>2 DEF ScheduleInv, LevelsApart
  <2>2. ASSUME levels' = Append(levels, {leaf})
        PROVE  levels' \in Seq(SUBSET leaves) /\ LevelsApart'
    <3>1. /\ levels' \in Seq(SUBSET leaves) /\ Len(levels') = Len(levels) + 1
          /\ \A j \in 1..Len(levels) : levels'[j] = levels[j]
          /\ levels'[Len(levels) + 1] = {leaf}
      BY <1>3, <2>2, AppendProperties
    <3>2. \A j \in 1..(Len(levels) + 1) : j \in 1..Len(levels) \/ j = Len(levels) + 1
      BY <1>3
    <3>3. QED  BY <1>2, <3>1, <3>2 DEF ScheduleInv, LevelsApart
  <2>3. QED  BY <2>1, <2>2 DEF Schedule
<1>7. PhasesInOrder'
  BY <1>1, <1>2 DEF ScheduleInv, PhasesInOrder
<1>8. RoutedInOrder'
  BY <1>1, <1>2 DEF ScheduleInv, RoutedInOrder
<1>9. ScheduleInv'
  BY <1>1, <1>2, <1>6, <1>7, <1>8 DEF ScheduleInv
<1>10. QED  BY <1>2, <1>9 DEF IInv

LEMMA AllScheduledIInv == IInv /\ AllScheduled => IInv'
<1> SUFFICES ASSUME IInv, AllScheduled PROVE IInv'
  OBVIOUS
<1>1. /\ phase = "schedule" /\ phase' = "route" /\ leaves = Scheduled
      /\ UNCHANGED <<box, treeVars, levels, level, running, finished>>
      /\ UNCHANGED <<leaves, pending>> /\ Scheduled' = Scheduled
  BY DEF AllScheduled, routeVars, treeVars, Scheduled
<1>2. TreeInv' /\ TreeInv /\ ScheduleInv
  BY <1>1, TreeInvKept DEF IInv
<1>3. pending = {} /\ level = 1 /\ running = {}
  BY <1>1, <1>2 DEF ScheduleInv, PhasesInOrder, RoutedInOrder
<1>4. level \in 1..Len(levels)
  <2>1. PICK c \in Conns, leaf \in leaves : c \in leaf.conns
    BY <1>2, <1>3, SizesAssumption DEF TreeInv, EachConnOnce
  <2>2. PICK i \in 1..Len(levels) : leaf \in levels[i]
    BY <1>1 DEF Scheduled
  <2>3. Len(levels) \in Nat
    BY <1>2, LenProperties DEF ScheduleInv
  <2>4. QED  BY <1>3, <2>2, <2>3
<1>5. PhasesInOrder' /\ RoutedInOrder' /\ LevelsApart'
  BY <1>1, <1>2, <1>3, <1>4 DEF ScheduleInv, PhasesInOrder, RoutedInOrder, LevelsApart
<1>6. ScheduleInv'
  BY <1>1, <1>2, <1>5 DEF ScheduleInv
<1>7. QED  BY <1>2, <1>6 DEF IInv

\* A leaf starts on a free thread and leaves the running ones when it is done.
LEMMA RunLeafIInv ==
  ASSUME IInv, NEW leaf \in leaves, StartLeaf(leaf) \/ FinishLeaf(leaf)
  PROVE  IInv'
<1>1. /\ phase = "route" /\ UNCHANGED <<box, treeVars, levels, phase, level>>
      /\ UNCHANGED <<leaves, pending>> /\ Scheduled' = Scheduled
  BY DEF StartLeaf, FinishLeaf, treeVars, Scheduled
<1>2. TreeInv' /\ TreeInv /\ ScheduleInv
  BY <1>1, TreeInvKept DEF IInv
<1>3. level \in 1..Len(levels) /\ running \subseteq levels[level] /\ running \cap finished = {}
  BY <1>1, <1>2 DEF ScheduleInv, RoutedInOrder
<1>4. LevelsApart' /\ PhasesInOrder'
  BY <1>1, <1>2 DEF ScheduleInv, LevelsApart, PhasesInOrder
<1>5. CASE StartLeaf(leaf)
  <2>1. /\ leaf \in levels[level] \ (running \cup finished) /\ Cardinality(running) < NumThreads
        /\ running' = running \cup {leaf} /\ finished' = finished
    BY <1>5 DEF StartLeaf
  <2>2. IsFiniteSet(running') /\ Cardinality(running') <= NumThreads
    <3>1. IsFiniteSet(running) /\ Cardinality(running) \in Nat
      BY <1>2, FS_CardinalityType DEF ScheduleInv
    <3>2. IsFiniteSet(running') /\ Cardinality(running') = Cardinality(running) + 1
      BY <2>1, <3>1, FS_AddElement
    <3>3. QED  BY <2>1, <3>1, <3>2, SizesAssumption
  <2>3. RoutedInOrder'
    BY <1>1, <1>2, <1>3, <2>1 DEF ScheduleInv, RoutedInOrder
  <2>4. ScheduleInv'
    BY <1>1, <1>2, <1>4, <2>1, <2>2, <2>3 DEF ScheduleInv
  <2>5. QED  BY <1>2, <2>4 DEF IInv
<1>6. CASE FinishLeaf(leaf)
  <2>1. /\ leaf \in running
        /\ running' = running \ {leaf} /\ finished' = finished \cup {leaf}
    BY <1>6 DEF FinishLeaf
  <2>2. IsFiniteSet(running') /\ Cardinality(running') <= NumThreads
    <3>1. IsFiniteSet(running) /\ Cardinality(running) \in Nat /\ Cardinality(running) <= NumThreads
      BY <1>2, FS_CardinalityType DEF ScheduleInv
    <3>2. IsFiniteSet(running') /\ Cardinality(running') = Cardinality(running) - 1
      BY <2>1, <3>1, FS_RemoveElement
    <3>3. QED  BY <3>1, <3>2, SizesAssumption
  <2>3. RoutedInOrder'
    BY <1>1, <1>2, <1>3, <2>1 DEF ScheduleInv, RoutedInOrder
  <2>4. ScheduleInv'
    BY <1>1, <1>2, <1>4, <2>1, <2>2, <2>3 DEF ScheduleInv
  <2>5. QED  BY <1>2, <2>4 DEF IInv
<1>7. QED  BY <1>5, <1>6

\* A level ends when all its leaves are finished: then none is running.
LEMMA EndLevelIInv == IInv /\ EndLevel => IInv'
<1> SUFFICES ASSUME IInv, EndLevel PROVE IInv'
  OBVIOUS
<1>1. /\ phase = "route" /\ levels[level] \subseteq finished
      /\ UNCHANGED <<box, treeVars, levels, running, finished>>
      /\ UNCHANGED <<leaves, pending>> /\ Scheduled' = Scheduled
      /\ \/ level < Len(levels) /\ level' = level + 1 /\ phase' = phase
         \/ ~(level < Len(levels)) /\ phase' = "done" /\ level' = level
  BY DEF EndLevel, MoreLevels, treeVars, Scheduled
<1>2. TreeInv' /\ TreeInv /\ ScheduleInv
  BY <1>1, TreeInvKept DEF IInv
<1>3. /\ level \in 1..Len(levels) /\ level \in Nat /\ Len(levels) \in Nat
      /\ running \subseteq levels[level] /\ running \cap finished = {}
      /\ \A i \in 1..Len(levels) : i < level => levels[i] \subseteq finished
  BY <1>1, <1>2, LenProperties DEF ScheduleInv, RoutedInOrder
<1>4. running = {}
  BY <1>1, <1>3
<1>5. LevelsApart' /\ PhasesInOrder'
  BY <1>1, <1>2 DEF ScheduleInv, LevelsApart, PhasesInOrder
<1>6. RoutedInOrder'
  <2>1. \A i \in 1..Len(levels) : i <= level => levels[i] \subseteq finished
    BY <1>1, <1>3
  <2>2. CASE level < Len(levels) /\ level' = level + 1 /\ phase' = phase
    BY <1>1, <1>3, <1>4, <2>1, <2>2 DEF RoutedInOrder
  <2>3. CASE ~(level < Len(levels)) /\ phase' = "done" /\ level' = level
    BY <1>1, <1>3, <1>4, <2>1, <2>3 DEF RoutedInOrder
  <2>4. QED  BY <1>1, <2>2, <2>3
<1>7. ScheduleInv'
  BY <1>1, <1>2, <1>3, <1>5, <1>6 DEF ScheduleInv
<1>8. QED  BY <1>2, <1>7 DEF IInv

LEMMA NextIInv == IInv /\ [Next]_vars => IInv'
<1> SUFFICES ASSUME IInv, [Next]_vars PROVE IInv'
  OBVIOUS
<1>1. ASSUME NEW node \in pending, Split(node) \/ KeepWhole(node) PROVE IInv'
  BY <1>1, BuildIInv
<1>2. CASE Built
  <2>1. /\ pending = {} /\ phase = "build" /\ phase' = "schedule"
        /\ UNCHANGED <<box, treeVars, pending, leaves, levels, level, running, finished>>
    BY <1>2 DEF Built, treeVars, routeVars
  <2>2. TreeInv' /\ ScheduleInv
    BY <2>1, TreeInvKept DEF IInv
  <2>3. LevelsApart' /\ PhasesInOrder' /\ RoutedInOrder'
    BY <2>1, <2>2 DEF ScheduleInv, LevelsApart, PhasesInOrder, RoutedInOrder
  <2>4. ScheduleInv'
    BY <2>1, <2>2, <2>3 DEF ScheduleInv
  <2>5. QED  BY <2>2, <2>4 DEF IInv
<1>3. ASSUME NEW leaf \in leaves, Schedule(leaf) PROVE IInv'
  BY <1>3, ScheduleIInv
<1>4. ASSUME NEW leaf \in leaves, StartLeaf(leaf) \/ FinishLeaf(leaf) PROVE IInv'
  BY <1>4, RunLeafIInv
<1>5. CASE UNCHANGED vars
  <2>1. UNCHANGED <<box, treeVars, pending, leaves, levels, phase, level, running, finished>>
    BY <1>5 DEF vars, treeVars, routeVars
  <2>2. TreeInv' /\ ScheduleInv
    BY <2>1, TreeInvKept DEF IInv
  <2>3. LevelsApart' /\ PhasesInOrder' /\ RoutedInOrder'
    BY <2>1, <2>2 DEF ScheduleInv, LevelsApart, PhasesInOrder, RoutedInOrder, Scheduled
  <2>4. ScheduleInv'
    BY <2>1, <2>2, <2>3 DEF ScheduleInv
  <2>5. QED  BY <2>2, <2>4 DEF IInv
<1>6. QED  BY <1>1, <1>2, <1>3, <1>4, <1>5, AllScheduledIInv, EndLevelIInv DEF Next

LEMMA IInvTypeOK == IInv => TypeOK
<1> SUFFICES ASSUME IInv PROVE TypeOK
  OBVIOUS
<1>1. \A node \in pending \cup leaves : IsTreeNode(node)
  BY DEF IInv, TreeInv, ProperNode, Bounds, IsTreeNode
<1>2. QED  BY <1>1 DEF IInv, TreeInv, ScheduleInv, TypeOK

\* Connections that meet would make the boxes of their leaves intersect.
LEMMA IInvNoConcurrentSharing == IInv => NoConcurrentSharing
<1> SUFFICES ASSUME IInv, NEW leaf \in running, NEW other \in running, leaf # other,
                    NEW c \in leaf.conns, NEW d \in other.conns, InteriorsMeet(c, d)
             PROVE  FALSE
  BY DEF NoConcurrentSharing
<1>1. TreeInv /\ ScheduleInv /\ leaf \in leaves /\ other \in leaves
  BY DEF IInv, ScheduleInv
<1>2. /\ leaf.bbox \in [Axes -> Bounds] /\ other.bbox \in [Axes -> Bounds]
      /\ c \in Conns /\ d \in Conns
  BY <1>1 DEF TreeInv, ProperNode
<1>3. StrictlyIntersect(leaf.bbox, other.bbox)
  <2> SUFFICES ASSUME NEW a \in Axes
               PROVE  /\ leaf.bbox[a].lo < leaf.bbox[a].hi /\ leaf.bbox[a].lo < other.bbox[a].hi
                      /\ other.bbox[a].lo < leaf.bbox[a].hi /\ other.bbox[a].lo < other.bbox[a].hi
    BY <1>2, StrictIntersection
  <2>1. /\ box[c][a].lo \in Int /\ box[c][a].hi \in Int
        /\ box[d][a].lo \in Int /\ box[d][a].hi \in Int
    BY <1>1, <1>2, BoxesAssumption DEF TreeInv
  <2>2. PICK p \in (box[c][a].lo + 1)..(box[c][a].hi - 1) : box[d][a].lo < p /\ p < box[d][a].hi
    BY DEF InteriorsMeet
  <2>3. /\ leaf.bbox[a].lo <= box[c][a].lo /\ box[c][a].hi <= leaf.bbox[a].hi
        /\ other.bbox[a].lo <= box[d][a].lo /\ box[d][a].hi <= other.bbox[a].hi
    BY <1>1 DEF TreeInv, NodeCoversConns
  <2>4. /\ leaf.bbox[a].lo \in Int /\ leaf.bbox[a].hi \in Int
        /\ other.bbox[a].lo \in Int /\ other.bbox[a].hi \in Int
    BY <1>2 DEF Bounds
  <2>5. QED  BY <2>1, <2>2, <2>3, <2>4
<1>4. phase \in {"route", "done"} /\ level \in 1..Len(levels) /\ running \subseteq levels[level]
  BY <1>1 DEF ScheduleInv, RoutedInOrder
<1>5. QED  BY <1>1, <1>3, <1>4 DEF ScheduleInv, LevelsApart

LEMMA IInvDoneMeansAllRouted == IInv => DoneMeansAllRouted
<1> SUFFICES ASSUME IInv, phase = "done", NEW c \in Conns
             PROVE  \E leaf \in finished : c \in leaf.conns
  BY DEF DoneMeansAllRouted
<1>1. TreeInv /\ ScheduleInv
  BY DEF IInv
<1>2. pending = {} /\ leaves = Scheduled /\ \A i \in 1..Len(levels) : levels[i] \subseteq finished
  BY <1>1 DEF ScheduleInv, PhasesInOrder, RoutedInOrder
<1>3. PICK leaf \in leaves : c \in leaf.conns
  BY <1>1, <1>2 DEF TreeInv, EachConnOnce
<1>4. leaf \in finished
  BY <1>2, <1>3 DEF Scheduled
<1>5. QED  BY <1>3, <1>4

\* A cut leaves a connection on either side, so that every child has fewer.
CutsShrink ==
  \A node \in pending : \A cut \in Cutlines(node) : \A child \in Children(node, cut) :
    child.conns \subseteq node.conns /\ child.conns # node.conns

LEMMA IInvCutsShrink == IInv => CutsShrink
<1> SUFFICES ASSUME IInv, NEW node \in pending, NEW cut \in Cutlines(node),
                    NEW child \in Children(node, cut)
             PROVE  child.conns \subseteq node.conns /\ child.conns # node.conns
  BY DEF CutsShrink
<1>1. /\ node.conns \subseteq Conns /\ node.bbox \in [Axes -> Bounds]
      /\ box \in [Conns -> Boxes]
  BY DEF IInv, TreeInv, ProperNode
<1>2. PICK a, q :
        /\ a \in Axes /\ q \in node.bbox[a].lo..(node.bbox[a].hi - 1)
        /\ cut = [axis |-> a, pos |-> q]
        /\ Before(node, a, q) # Before(node, a, node.bbox[a].hi - 1)
        /\ After(node, a, q) # After(node, a, node.bbox[a].lo)
  BY DEF Cutlines
<1>3. /\ node.bbox[a].lo \in Int /\ node.bbox[a].hi \in Int /\ q \in Int
      /\ node.bbox[a].lo <= q /\ q <= node.bbox[a].hi - 1
      /\ \A c \in node.conns : /\ box[c][a].lo \in Int /\ box[c][a].hi \in Int
                              /\ box[c][a].lo < box[c][a].hi
  BY <1>1, <1>2, BoxesAssumption DEF Bounds
<1>4. \E c \in node.conns : box[c][a].lo > q
  <2>1. {c \in node.conns : box[c][a].lo <= q}
          # {c \in node.conns : box[c][a].lo <= node.bbox[a].hi - 1}
    BY <1>2 DEF Before
  <2>2. QED  BY <1>3, <2>1
<1>5. \E c \in node.conns : box[c][a].hi <= q
  <2>1. {c \in node.conns : box[c][a].hi > q} # {c \in node.conns : box[c][a].hi > node.bbox[a].lo}
    BY <1>2 DEF After
  <2>2. QED  BY <1>3, <2>1
<1>6. PICK left \in node.conns, right \in node.conns :
        left \in LeftConns(node, cut) /\ right \notin LeftConns(node, cut)
  <2>1. \A c \in node.conns : c \in LeftConns(node, cut) <=> box[c][a].hi <= q
    BY <1>2 DEF LeftConns
  <2>2. \A c \in node.conns : box[c][a].lo > q => ~(box[c][a].hi <= q)
    BY <1>3
  <2>3. QED  BY <1>4, <1>5, <2>1, <2>2
<1>7. \/ child.conns = LeftConns(node, cut)
      \/ child.conns = RightConns(node, cut)
      \/ child.conns = MiddleConns(node, cut)
  BY DEF Children
<1>8. QED  BY <1>6, <1>7 DEF LeftConns, RightConns, MiddleConns

-----------------------------------------------------------------------------

\* The inductive invariant holds in every state of the tree's construction
\* and routing, and with it every variable has its type.
THEOREM TreeInvariant == Spec => [](IInv /\ TypeOK)
<1>1. QED  BY InitIInv, NextIInv, IInvTypeOK, PTL DEF Spec

\* Whatever the boxes, no connection is lost or doubled by a cut
\* (partitionTree.cpp:99-150).
THEOREM TreeKeepsConnections == Spec => []EachConnOnce
<1>1. IInv => EachConnOnce
  BY DEF IInv, TreeInv
<1>2. QED  BY <1>1, TreeInvariant, PTL

\* Whatever the boxes, the box of a node contains those of its connections
\* (partitionTree.cpp:99-150).
THEOREM TreeNodesCover == Spec => []NodeCoversConns
<1>1. IInv => NodeCoversConns
  BY DEF IInv, TreeInv
<1>2. QED  BY <1>1, TreeInvariant, PTL

\* However many threads route a level, no two of them share a tile
\* (partitionTree.cpp:210-252, aStarRoute.cpp:842-870).
THEOREM LevelsShareNothing == Spec => []NoConcurrentSharing
<1>1. QED  BY IInvNoConcurrentSharing, TreeInvariant, PTL

\* The routing of a tree comes to its end only with every connection routed.
THEOREM RoutedTreeIsComplete == Spec => []DoneMeansAllRouted
<1>1. QED  BY IInvDoneMeansAllRouted, TreeInvariant, PTL

\* The recursion of buildTree is finite: a cut leaves connections on both
\* sides, whatever the boxes (partitionTree.cpp:66-97).
THEOREM EveryCutShrinks == Spec => []CutsShrink
<1>1. QED  BY IInvCutsShrink, TreeInvariant, PTL

=============================================================================
