------------------------- MODULE SaveRoutesProofs ---------------------------
(***************************************************************************)
(* Whatever the device, the net, the routes and the order in which the     *)
(* queue yields the nodes: what is handed to the writer is a routing tree  *)
(* of the net (SavedTree), and after fixNetRoutes it is a shortest one     *)
(* (SavedShortest).                                                        *)
(*                                                                         *)
(* The walks of the reader leave paths of the device between pins of the   *)
(* net, though they meet nodes again and overwrite their predecessors:     *)
(* only the start of a walk has no predecessor (PrevFrom), so a walk back  *)
(* that meets no node twice ends there (TraceIs).  The saved branches are  *)
(* the edges of the total paths (SavedUpTo).  If no path meets another or  *)
(* itself they are a tree already (ApartIsTree).  Otherwise the search     *)
(* leaves predecessors that do not go round (NoPrevCycle, SearchGoesOn):   *)
(* an improved child is dearer than the node that improves it, the nodes   *)
(* before that one are not.  What Fix puts back hangs on them (FixIsTree). *)
(***************************************************************************)
EXTENDS SaveRoutes, TLAPS, FiniteSetTheorems, SequenceTheorems, FunctionTheorems,
        NaturalsInduction, WellFoundedInduction

-----------------------------------------------------------------------------
(* The invariant *)

\* A path of the device, and a route, which is stored from its end.
IsPath(out, p) ==
  p \in Seq(Nodes) /\ p # <<>> /\ \A j \in 1..(Len(p) - 1) : p[j + 1] \in ToSet(out[p[j]])
IsRoute(out, r) ==
  r \in Seq(Nodes) /\ Len(r) > 1 /\ \A j \in 1..(Len(r) - 1) : r[j] \in ToSet(out[r[j + 1]])

ConnRecs ==
  [direct : BOOLEAN, sourceToIntPath : Seq(Nodes), rnodes : Seq(Nodes), intToSinkPath : Seq(Nodes)]

\* The three parts of a connection of the net x are on the device and meet.
IsConn(x, c) ==
  /\ c \in ConnRecs
  /\ IsPath(x.out, c.sourceToIntPath) /\ Head(c.sourceToIntPath) \in ToSet(x.sources)
  /\ IsPath(x.out, c.intToSinkPath) /\ Last(c.intToSinkPath) \in ToSet(x.sinks)
  /\ c.direct => /\ Len(c.sourceToIntPath) = 1 /\ Len(c.intToSinkPath) = 1
                 /\ Head(c.sourceToIntPath) # Last(c.intToSinkPath)
  /\ c.rnodes # <<>> => /\ IsRoute(x.out, c.rnodes)
                        /\ Head(c.rnodes) = Head(c.intToSinkPath)
                        /\ Last(c.rnodes) = Last(c.sourceToIntPath)

AreConns(x, cs) == cs \in Seq(ConnRecs) /\ \A j \in 1..Len(cs) : IsConn(x, cs[j])

ArePrevs(prev) == prev \in [Nodes -> Nodes \cup {NoNode}]

\* What a walk from n over the edges has found: only n may have no predecessor.
OutEdges(x) == {e \in Nodes \X Nodes : e[2] \in ToSet(x.out[e[1]])}
InEdges(x) == {e \in Nodes \X Nodes : e[1] \in ToSet(x.out[e[2]])}
PrevFrom(edges, n, prev) ==
  /\ ArePrevs(prev)
  /\ \A m \in Nodes : prev[m] # NoNode =>
       <<prev[m], m>> \in edges /\ (prev[m] = n \/ prev[prev[m]] # NoNode)
WalkFrom(edges, n, queue, prev) ==
  /\ n \in Nodes /\ queue \in Seq(Nodes) /\ PrevFrom(edges, n, prev)
  /\ \A m \in ToSet(queue) : m = n \/ prev[m] # NoNode

ReaderPcs == {"source", "sink", "route", "direct"}

ReaderInv ==
  /\ net \in Nets
  /\ pc = "source" => k \in 1..Len(net.sources) /\ WalkFrom(OutEdges(net), net.sources[k], q, prev_map)
  /\ pc = "sink" => k \in 1..Len(net.sinks) /\ WalkFrom(InEdges(net), net.sinks[k], q, prev_map)
  /\ pc = "route" => k \in Nat \ {0}
  /\ pc = "direct" =>
       /\ k \in 1..Len(conns) /\ conns[k].direct
       /\ WalkFrom(OutEdges(net), Head(conns[k].sourceToIntPath), q, prev_map)
  /\ srcPaths \in Seq(Seq(Nodes))
  /\ \A p \in ToSet(srcPaths) : p # <<>> => IsPath(net.out, p) /\ Head(p) \in ToSet(net.sources)
  /\ AreConns(net, conns)
  /\ pc \notin {"source", "sink", "hung", "aborted"} => conns # <<>>

\* What the first i connections of cs leave in the net.
SavedUpTo(cs, i, br, nodes) ==
  /\ br \in [Nodes -> SUBSET Nodes] /\ nodes \subseteq Nodes
  /\ \A n, m \in Nodes : m \in br[n] <=> \E j \in 1..i : <<n, m>> \in Edges(TotalPath(cs[j]))
  /\ \A n \in Nodes : n \in nodes <=> \E j \in 1..i : n \in ToSet(TotalPath(cs[j]))
Apart(cs, i) ==
  \A j \in 1..i : /\ IsInjective(TotalPath(cs[j]))
                  /\ \A l \in 1..(j - 1) : ToSet(TotalPath(cs[j])) \cap ToSet(TotalPath(cs[l])) = {}

\* The predecessors of a search do not go round.
NoPrevCycle(prev) ==
  \A T \in SUBSET Nodes : T # {} => \E m \in T : prev[m] \notin T

\* The nodes that are not in the queue have improved their children; a
\* predecessor may have become cheaper since it was made one.
Searched(pin, base, br, cost, prev, queue) ==
  /\ cost \in [Nodes -> 0..Infinity] /\ ArePrevs(prev) /\ queue \subseteq Nodes
  /\ cost[pin] = 0 /\ prev[pin] = NoNode
  /\ \A n \in Nodes \ queue : \A m \in br[n] : cost[m] <= cost[n] + base[m]
  /\ \A m \in Nodes : prev[m] # NoNode => m \in br[prev[m]] /\ cost[prev[m]] + base[m] <= cost[m]
  /\ NoPrevCycle(prev)

SaveInv ==
  /\ baseCost \in Costs
  /\ pc \in ReaderPcs =>
       branches = [n \in Nodes |-> {}] /\ netRNodes = {} /\ hasMultiDriver = FALSE
  /\ pc \in ReaderPcs \cup {"save"} =>
       /\ upStreamPathCost = [n \in Nodes |-> Infinity] /\ prevs = [n \in Nodes |-> NoNode]
       /\ rnodeQueue = {}
  /\ pc = "save" =>
       /\ k \in 1..(Len(conns) + 1)
       /\ SavedUpTo(conns, k - 1, branches, netRNodes)
       /\ hasMultiDriver \in BOOLEAN /\ (~hasMultiDriver => Apart(conns, k - 1))
  /\ pc = "search" =>
       /\ hasMultiDriver /\ SavedUpTo(conns, Len(conns), branches, netRNodes)
       /\ Searched(SourcePin, baseCost, branches, upStreamPathCost, prevs, rnodeQueue)

\* No edge leads to a source pin of the net x, or it has but one, which is no
\* sink pin.  A net with two source pins and a route over the other one is
\* saved with an edge to a source.
AreApart(x) ==
  \/ \A n \in Nodes : ToSet(x.out[n]) \cap ToSet(x.sources) = {}
  \/ Len(x.sources) = 1 /\ x.sources[1] \notin ToSet(x.sinks)
SourcesApart == AreApart(net)

\* The parts of SavedTree, edge by edge; whatever holds the used source pins
\* and is closed under the branches holds the tree.
IsTree(x, cs, br, nodes) ==
  /\ br \in [Nodes -> SUBSET Nodes] /\ nodes \subseteq Nodes
  /\ \A n \in Nodes : \A m \in br[n] : m \in ToSet(x.out[n]) /\ m \notin ToSet(x.sources) \cap nodes
  /\ \A n1, n2 \in Nodes : \A m \in br[n1] : m \in br[n2] => n1 = n2
  /\ \A c \in ToSet(cs) : c.rnodes # <<>> => \E n \in Nodes : Last(c.intToSinkPath) \in br[n]
  /\ \A R \in SUBSET Nodes :
       ToSet(x.sources) \cap nodes \subseteq R /\ (\A n \in R : br[n] \subseteq R)
         => \A n \in Nodes : br[n] \subseteq R
  /\ \A n \in Nodes : \A m \in br[n] : br[m] = {} => m \in ToSet(x.sinks)

TreeInv == pc = "write" /\ SourcesApart => IsTree(net, conns, branches, netRNodes)

-----------------------------------------------------------------------------
(* Recursive definitions *)

\* Every set of numbers that is not empty has a least one.
LEMMA LeastNumber ==
  ASSUME NEW T, T \subseteq Nat, T # {}
  PROVE  \E m \in T : \A n \in T : m <= n
<1>1. PICK m \in T : \A n \in T : ~(<<n, m>> \in OpToRel(<, Nat))
  BY NatLessThanWellFounded, WFMin
<1>2. ASSUME NEW n \in T, n < m PROVE FALSE
  <2>1. <<n, m>> \in OpToRel(<, Nat)
    BY <1>2 DEF OpToRel
  <2>2. QED  BY <1>1, <2>1
<1>3. QED  BY <1>2

\* f starts at a and goes on with step, up to n.
Iterates(f, a, step, n) ==
  DOMAIN f = 0..n /\ f[0] = a /\ \A j \in 1..n : f[j] = step[<<j, f[j - 1]>>]

\* One more step.
LEMMA IteratesNext ==
  ASSUME NEW a, NEW step, NEW n \in Nat, NEW f, Iterates(f, a, step, n)
  PROVE  \E g : Iterates(g, a, step, n + 1)
<1>0. PICK s : s = step[<<n + 1, f[n]>>]
  OBVIOUS
<1> DEFINE g == [i \in 0..(n + 1) |-> IF i = n + 1 THEN s ELSE f[i]]
<1>1. DOMAIN g = 0..(n + 1) /\ g[n + 1] = s /\ \A i \in 0..n : g[i] = f[i]
  <2>1. DOMAIN g = 0..(n + 1) /\ g[n + 1] = s
    OBVIOUS
  <2>2. \A i \in 0..n : i \in 0..(n + 1) /\ i # n + 1
    OBVIOUS
  <2>3. QED  BY <2>1, <2>2
<1> HIDE DEF g
<1>2. ASSUME NEW j \in 1..(n + 1) PROVE g[j] = step[<<j, g[j - 1]>>]
  <2>1. CASE j = n + 1
    <3>1. j - 1 = n /\ n \in 0..n
      BY <2>1
    <3>2. g[j - 1] = f[n]
      BY <1>1, <3>1
    <3>3. QED  BY <1>0, <1>1, <2>1, <3>2
  <2>2. CASE j # n + 1
    <3>1. j \in 1..n /\ j \in 0..n /\ j - 1 \in 0..n
      BY <2>2
    <3>2. QED  BY <1>1, <3>1 DEF Iterates
  <2>3. QED  BY <2>1, <2>2
<1>3. g[0] = a
  <2>1. 0 \in 0..n
    OBVIOUS
  <2>2. QED  BY <1>1, <2>1 DEF Iterates
<1>4. QED  BY <1>1, <1>2, <1>3 DEF Iterates

LEMMA IteratesExists ==
  ASSUME NEW a, NEW step, NEW n \in Nat
  PROVE  \E f : Iterates(f, a, step, n)
<1> DEFINE T == {m \in 0..n : ~ \E f : Iterates(f, a, step, m)}
<1>1. CASE T = {}
  BY <1>1
<1>2. CASE T # {}
  <2>1. PICK m \in T : \A l \in T : m <= l
    <3>1. T \subseteq Nat
      OBVIOUS
    <3> HIDE DEF T
    <3>2. QED  BY <1>2, <3>1, LeastNumber
  <2>2. CASE m = 0
    <3> DEFINE g == [i \in 0..0 |-> a]
    <3>1. Iterates(g, a, step, 0)
      BY DEF Iterates
    <3>2. QED  BY <2>1, <2>2, <3>1
  <2>3. CASE m # 0
    <3>1. m - 1 \in 0..n /\ m - 1 \notin T /\ m - 1 \in Nat
      BY <2>1, <2>3
    <3>2. PICK f : Iterates(f, a, step, m - 1)
      BY <3>1
    <3>3. (m - 1) + 1 = m
      BY <3>1
    <3>4. \E g : Iterates(g, a, step, m)
      BY <3>1, <3>2, <3>3, IteratesNext
    <3>5. QED  BY <2>1, <3>4
  <2>4. QED  BY <2>2, <2>3
<1>3. QED  BY <1>1, <1>2

-----------------------------------------------------------------------------
(* What can be reached *)

\* f[j] is what can be come to from S in j steps of next.
Spreads(f, S, next, n) ==
  /\ DOMAIN f = 0..n /\ f[0] = S
  /\ \A j \in 1..n : f[j] = UNION {{u} \cup next[u] : u \in f[j - 1]}

\* What is come to in fewer steps is come to in more.
LEMMA SpreadsStep ==
  ASSUME NEW U, NEW next \in [U -> SUBSET U], NEW S \in SUBSET U, NEW n \in Nat,
         NEW f, Spreads(f, S, next, n)
  PROVE  /\ \A j \in 0..n : f[j] \in SUBSET U /\ f[j] \subseteq f[n]
         /\ \A j \in 1..n : f[j - 1] \subseteq f[j]
<1> DEFINE T == {j \in 0..n : f[j] \notin SUBSET U}
<1>1. T = {}
  <2>1. SUFFICES ASSUME T # {} PROVE FALSE
    OBVIOUS
  <2>2. PICK m \in T : \A l \in T : m <= l
    <3>1. T \subseteq Nat
      OBVIOUS
    <3> HIDE DEF T
    <3>2. QED  BY <2>1, <3>1, LeastNumber
  <2>3. m # 0
    BY <2>2 DEF Spreads
  <2>4. m \in 1..n /\ m - 1 \in 0..n /\ m - 1 \notin T
    BY <2>2, <2>3
  <2>5. f[m - 1] \in SUBSET U
    BY <2>4
  <2>6. f[m] = UNION {{u} \cup next[u] : u \in f[m - 1]}
    BY <2>4 DEF Spreads
  <2>7. QED  BY <2>2, <2>5, <2>6
<1>2. ASSUME NEW i \in 0..n, NEW u \in f[i] PROVE u \in f[n]
  <2> DEFINE Q == {j \in 0..n : j >= i /\ u \notin f[j]}
  <2>1. Q = {}
    <3>1. SUFFICES ASSUME Q # {} PROVE FALSE
      OBVIOUS
    <3>2. PICK m \in Q : \A l \in Q : m <= l
      <4>1. Q \subseteq Nat
        OBVIOUS
      <4> HIDE DEF Q
      <4>2. QED  BY <3>1, <4>1, LeastNumber
    <3>3. m # i /\ m \in 0..n /\ m >= i /\ u \notin f[m]
      BY <3>2
    <3>4. m \in 1..n /\ m - 1 \in 0..n /\ m - 1 >= i /\ m - 1 \notin Q
      BY <3>2, <3>3
    <3>5. u \in f[m - 1]
      BY <3>4
    <3>6. f[m] = UNION {{v} \cup next[v] : v \in f[m - 1]}
      BY <3>4 DEF Spreads
    <3>7. QED  BY <3>3, <3>5, <3>6
  <2>2. QED  BY <2>1
<1>3. QED  BY <1>1, <1>2 DEF Spreads

\* After as many steps as there are elements, nothing new is come to.
LEMMA SpreadsClosed ==
  ASSUME NEW U, IsFiniteSet(U), NEW next \in [U -> SUBSET U], NEW S \in SUBSET U, NEW n \in Nat,
         Cardinality(U) <= n + 1, NEW f, Spreads(f, S, next, n)
  PROVE  /\ f[n] \in SUBSET U /\ S \subseteq f[n]
         /\ \A u \in f[n] : next[u] \subseteq f[n]
<1>1. /\ \A j \in 0..n : f[j] \in SUBSET U /\ f[j] \subseteq f[n]
      /\ \A j \in 1..n : f[j - 1] \subseteq f[j]
  BY SpreadsStep
<1> DEFINE Closed(j) == \A u \in f[j] : next[u] \subseteq f[j]
           Far(j) == Closed(j) \/ Cardinality(f[j]) >= j + 1
           T == {j \in 0..n : ~Far(j)}
<1>2. \A j \in 0..n : IsFiniteSet(f[j]) /\ Cardinality(f[j]) \in Nat
  BY <1>1, FS_Subset, FS_CardinalityType
<1>3. ASSUME NEW j \in 1..n, Far(j - 1) PROVE Far(j)
  <2>1. j - 1 \in 0..n /\ j \in 0..n /\ f[j - 1] \subseteq f[j] /\ f[j - 1] \in SUBSET U
    BY <1>1
  <2>2. f[j] = UNION {{u} \cup next[u] : u \in f[j - 1]}
    BY DEF Spreads
  <2>3. CASE Closed(j - 1)
    <3>1. f[j] = f[j - 1]
      BY <2>1, <2>2, <2>3
    <3>2. QED  BY <2>3, <3>1
  <2>4. CASE ~Closed(j - 1)
    <3>1. f[j] # f[j - 1]
      BY <2>2, <2>4
    <3>2. Cardinality(f[j - 1]) <= Cardinality(f[j]) /\ Cardinality(f[j - 1]) # Cardinality(f[j])
      BY <1>2, <2>1, <3>1, FS_Subset
    <3>3. Cardinality(f[j - 1]) >= (j - 1) + 1
      BY <1>3, <2>4
    <3>4. Cardinality(f[j]) >= j + 1
      <4>1. PICK a, b : a = Cardinality(f[j - 1]) /\ b = Cardinality(f[j])
        OBVIOUS
      <4>2. a \in Nat /\ b \in Nat /\ a <= b /\ a # b /\ a >= (j - 1) + 1
        BY <1>2, <2>1, <3>2, <3>3, <4>1
      <4>3. QED  BY <4>1, <4>2
    <3>5. QED  BY <3>4
  <2>5. QED  BY <2>3, <2>4
<1>4. Far(0)
  <2>0. 0 \in 0..n
    OBVIOUS
  <2>1. CASE f[0] = {}
    BY <2>1
  <2>2. CASE f[0] # {}
    <3>1. Cardinality(f[0]) # 0
      BY <1>2, <2>0, <2>2, FS_EmptySet
    <3>2. Cardinality(f[0]) >= 1
      BY <1>2, <2>0, <3>1
    <3>3. QED  BY <3>2
  <2>3. QED  BY <2>1, <2>2
<1>5. T = {}
  <2>1. SUFFICES ASSUME T # {} PROVE FALSE
    OBVIOUS
  <2>2. PICK m \in T : \A l \in T : m <= l
    <3>1. T \subseteq Nat
      OBVIOUS
    <3> HIDE DEF T
    <3>2. QED  BY <2>1, <3>1, LeastNumber
  <2> HIDE DEF Far
  <2>3. m # 0
    BY <1>4, <2>2
  <2>4. m \in 1..n /\ m - 1 \in 0..n /\ m - 1 \notin T
    BY <2>2, <2>3
  <2>5. QED  BY <1>3, <2>2, <2>4
<1>6. Far(n)
  <2> HIDE DEF Far
  <2>1. n \in 0..n
    OBVIOUS
  <2>2. QED  BY <1>5, <2>1
<1>7. Closed(n)
  <2>1. SUFFICES ASSUME Cardinality(f[n]) >= n + 1 PROVE Closed(n)
    BY <1>6
  <2>2. f[n] \in SUBSET U /\ Cardinality(f[n]) <= Cardinality(U) /\ Cardinality(U) \in Nat
    BY <1>1, FS_Subset, FS_CardinalityType
  <2>3. Cardinality(f[n]) = Cardinality(U)
    BY <1>2, <2>1, <2>2
  <2>4. f[n] = U
    BY <2>2, <2>3, FS_Subset
  <2>5. QED  BY <2>4
<1>8. S \subseteq f[n]
  <2>1. 0 \in 0..n
    OBVIOUS
  <2>2. QED  BY <1>1, <2>1 DEF Spreads
<1>9. QED  BY <1>1, <1>7, <1>8

\* What is come to starts in S or has been come to from before.
LEMMA SpreadsFrom ==
  ASSUME NEW U, NEW next \in [U -> SUBSET U], NEW S \in SUBSET U, NEW n \in Nat,
         NEW f, Spreads(f, S, next, n), NEW u \in f[n], u \notin S
  PROVE  \E v \in f[n] : u \in next[v]
<1> DEFINE R == {j \in 0..n : u \in f[j]}
<1>1. n \in R /\ R \subseteq Nat
  OBVIOUS
<1>2. PICK m \in R : \A l \in R : m <= l
  <2> HIDE DEF R
  <2>1. QED  BY <1>1, LeastNumber
<1>3. m # 0
  BY <1>2 DEF Spreads
<1>4. m \in 1..n /\ m - 1 \in 0..n /\ m - 1 \notin R
  BY <1>2, <1>3
<1>5. u \notin f[m - 1]
  BY <1>4
<1>6. f[m] = UNION {{w} \cup next[w] : w \in f[m - 1]}
  BY <1>4 DEF Spreads
<1>7. PICK v \in f[m - 1] : u \in next[v]
  BY <1>2, <1>5, <1>6
<1>8. f[m - 1] \subseteq f[n]
  BY <1>4, SpreadsStep
<1>9. QED  BY <1>7, <1>8

\* There are finitely many nodes, and NoNode is none of them.
LEMMA NodesFinite == IsFiniteSet(Nodes) /\ Cardinality(Nodes) \in Nat /\ NoNode \notin Nodes
BY ReaderAssumption, FS_CardinalityType

\* A sequence of steps as the recursive definitions state it.
LEMMA SpreadsExists ==
  ASSUME NEW U, NEW next \in [U -> SUBSET U], NEW S \in SUBSET U, NEW n \in Nat
  PROVE  \E f : Spreads(f, S, next, n)
<1> DEFINE step == [e \in (1..n) \X SUBSET U |-> UNION {{u} \cup next[u] : u \in e[2]}]
<1>1. PICK f : Iterates(f, S, step, n)
  <2> HIDE DEF step
  <2>1. QED  BY IteratesExists
<1>2. \A j \in 0..n : f[j] \in SUBSET U
  <2> DEFINE T == {j \in 0..n : f[j] \notin SUBSET U}
  <2>1. SUFFICES ASSUME T # {} PROVE FALSE
    OBVIOUS
  <2>2. PICK m \in T : \A l \in T : m <= l
    <3>1. T \subseteq Nat
      OBVIOUS
    <3> HIDE DEF T
    <3>2. QED  BY <2>1, <3>1, LeastNumber
  <2>3. m # 0
    BY <1>1, <2>2 DEF Iterates
  <2>4. m \in 1..n /\ m - 1 \in 0..n /\ m - 1 \notin T
    BY <2>2, <2>3
  <2>5. f[m] = step[<<m, f[m - 1]>>] /\ f[m - 1] \in SUBSET U
    BY <1>1, <2>4 DEF Iterates
  <2>6. QED  BY <2>2, <2>4, <2>5
<1>3. ASSUME NEW j \in 1..n PROVE f[j] = UNION {{u} \cup next[u] : u \in f[j - 1]}
  <2>0. j - 1 \in 0..n
    OBVIOUS
  <2>1. f[j] = step[<<j, f[j - 1]>>] /\ f[j - 1] \in SUBSET U
    BY <1>1, <1>2, <2>0 DEF Iterates
  <2>2. QED  BY <2>1
<1>4. QED  BY <1>1, <1>3 DEF Iterates, Spreads

\* The function that Reached is defined by.
IsReach(f, S, next) ==
  f = [j \in 0..Cardinality(Nodes) |-> IF j = 0 THEN S ELSE UNION {{n} \cup next[n] : n \in f[j - 1]}]

\* The function that Reached chooses exists,
LEMMA ReachExists ==
  ASSUME NEW next \in [Nodes -> SUBSET Nodes], NEW S \in SUBSET Nodes
  PROVE  \E f : IsReach(f, S, next)
<1> DEFINE N == Cardinality(Nodes)
<1>1. N \in Nat
  BY NodesFinite
<1> HIDE DEF N
<1>2. PICK f : Spreads(f, S, next, N)
  BY <1>1, SpreadsExists
<1> DEFINE g == [j \in 0..N |-> f[j]]
<1>3. \A j \in 0..N : g[j] = f[j]
  OBVIOUS
<1>4. g = [j \in 0..N |-> g[j]]
  OBVIOUS
<1> HIDE DEF g
<1>5. ASSUME NEW j \in 0..N PROVE g[j] = IF j = 0 THEN S ELSE UNION {{n} \cup next[n] : n \in g[j - 1]}
  <2>1. CASE j = 0
    BY <1>2, <1>3, <2>1 DEF Spreads
  <2>2. CASE j # 0
    <3>1. j \in 1..N /\ j - 1 \in 0..N
      BY <1>1, <2>2
    <3>2. f[j] = UNION {{n} \cup next[n] : n \in f[j - 1]}
      BY <1>2, <3>1 DEF Spreads
    <3>3. QED  BY <1>3, <2>2, <3>1, <3>2
  <2>3. QED  BY <2>1, <2>2
<1>6. g = [j \in 0..N |-> IF j = 0 THEN S ELSE UNION {{n} \cup next[n] : n \in g[j - 1]}]
  BY <1>4, <1>5
<1>7. QED  BY <1>6 DEF IsReach, N

\* and its last value holds the start and is closed under the next nodes.
LEMMA ReachClosed ==
  ASSUME NEW next \in [Nodes -> SUBSET Nodes], NEW S \in SUBSET Nodes, NEW f, IsReach(f, S, next)
  PROVE  /\ S \subseteq f[Cardinality(Nodes)]
         /\ \A n \in f[Cardinality(Nodes)] : next[n] \subseteq f[Cardinality(Nodes)]
<1> DEFINE N == Cardinality(Nodes)
<1>1. N \in Nat /\ IsFiniteSet(Nodes) /\ Cardinality(Nodes) <= N + 1
  BY NodesFinite
<1>2. f = [j \in 0..N |-> IF j = 0 THEN S ELSE UNION {{n} \cup next[n] : n \in f[j - 1]}]
  BY DEF IsReach
<1> HIDE DEF N
<1>3. Spreads(f, S, next, N)
  <2>1. \A j \in 0..N : f[j] = IF j = 0 THEN S ELSE UNION {{n} \cup next[n] : n \in f[j - 1]}
    BY <1>2
  <2>2. \A j \in 1..N : j \in 0..N /\ j # 0
    OBVIOUS
  <2>3. 0 \in 0..N /\ DOMAIN f = 0..N
    BY <1>1, <1>2
  <2>4. QED  BY <2>1, <2>2, <2>3 DEF Spreads
<1>4. S \subseteq f[N] /\ \A u \in f[N] : next[u] \subseteq f[N]
  BY <1>1, <1>3, SpreadsClosed
<1>5. QED  BY <1>4 DEF N

\* The nodes that a search for the source pin comes to from n along prev.
LEMMA UpstreamClosed ==
  ASSUME ArePrevs(prevs), NEW t \in Nodes
  PROVE  /\ Upstream(t) \subseteq Nodes \cup {NoNode} /\ t \in Upstream(t)
         /\ \A m \in Upstream(t) : m \notin {SourcePin, NoNode} => prevs[m] \in Upstream(t)
         /\ \A m \in Upstream(t) :
              m = t \/ \E x \in Upstream(t) : x \notin {SourcePin, NoNode} /\ prevs[x] = m
<1> DEFINE N == Cardinality(Nodes)
           before(m) == IF m \in {SourcePin, NoNode} THEN {m} ELSE {m, prevs[m]}
           F(f) == f = [j \in 0..N |-> IF j = 0 THEN {t} ELSE UNION {before(m) : m \in f[j - 1]}]
<1>u. PICK U : U = Nodes \cup {NoNode}
  OBVIOUS
<1>1. N \in Nat /\ IsFiniteSet(U) /\ Cardinality(U) <= N + 1
  BY <1>u, NodesFinite, FS_AddElement
<1> HIDE DEF N
<1>2. PICK next : next = [m \in U |-> IF m \in {SourcePin, NoNode} THEN {} ELSE {prevs[m]}]
  OBVIOUS
<1>0. PICK S : S = {t}
  OBVIOUS
<1>3. next \in [U -> SUBSET U] /\ S \in SUBSET U
  BY <1>0, <1>2, <1>u DEF ArePrevs
<1>4. \A m \in U : {m} \cup next[m] = before(m)
  BY <1>2, <1>u
<1> HIDE DEF before
<1>5. ASSUME NEW A \in SUBSET U
      PROVE  UNION {{m} \cup next[m] : m \in A} = UNION {before(m) : m \in A}
  BY <1>4
<1>6. PICK f : Spreads(f, S, next, N)
  BY <1>1, <1>3, SpreadsExists
<1>7. \A j \in 0..N : f[j] \in SUBSET U
  BY <1>1, <1>3, <1>6, SpreadsStep
<1> DEFINE g == [j \in 0..N |-> f[j]]
<1>8. \A j \in 0..N : g[j] = f[j]
  OBVIOUS
<1>9. g = [j \in 0..N |-> g[j]]
  OBVIOUS
<1> HIDE DEF g
<1>10. ASSUME NEW j \in 0..N PROVE g[j] = IF j = 0 THEN {t} ELSE UNION {before(m) : m \in g[j - 1]}
  <2>1. CASE j = 0
    BY <1>0, <1>6, <1>8, <2>1 DEF Spreads
  <2>2. CASE j # 0
    <3>1. j \in 1..N /\ j - 1 \in 0..N
      BY <1>1, <2>2
    <3>2. f[j] = UNION {{m} \cup next[m] : m \in f[j - 1]}
      BY <1>6, <3>1 DEF Spreads
    <3>3. f[j] = UNION {before(m) : m \in f[j - 1]}
      BY <1>5, <1>7, <3>1, <3>2
    <3>4. QED  BY <1>8, <2>2, <3>1, <3>3
  <2>3. QED  BY <2>1, <2>2
<1>11. F(g)
  BY <1>9, <1>10
<1>12. PICK h : h = CHOOSE f_1 : F(f_1)
  OBVIOUS
<1>13. F(h)
  BY <1>11, <1>12
<1>14. Upstream(t) = h[N]
  BY <1>12 DEF Upstream, N, before
<1>15. \A j \in 0..N : h[j] = IF j = 0 THEN {t} ELSE UNION {before(m) : m \in h[j - 1]}
  BY <1>13
<1>16. \A j \in 0..N : h[j] \in SUBSET U
  <2> DEFINE T == {j \in 0..N : h[j] \notin SUBSET U}
  <2>1. SUFFICES ASSUME T # {} PROVE FALSE
    OBVIOUS
  <2>2. PICK m \in T : \A l \in T : m <= l
    <3>1. T \subseteq Nat
      OBVIOUS
    <3> HIDE DEF T
    <3>2. QED  BY <2>1, <3>1, LeastNumber
  <2>3. m # 0
    BY <1>0, <1>3, <1>15, <2>2
  <2>4. m \in 0..N /\ m - 1 \in 0..N /\ m - 1 \notin T
    BY <1>1, <2>2, <2>3
  <2>5. h[m] = UNION {before(x) : x \in h[m - 1]} /\ h[m - 1] \in SUBSET U
    BY <1>15, <2>3, <2>4
  <2>6. h[m] = UNION {{x} \cup next[x] : x \in h[m - 1]}
    BY <1>5, <2>5
  <2>7. QED  BY <1>3, <2>2, <2>5, <2>6
<1>17. Spreads(h, S, next, N)
  <2>1. ASSUME NEW j \in 1..N PROVE h[j] = UNION {{m} \cup next[m] : m \in h[j - 1]}
    <3>1. j \in 0..N /\ j # 0 /\ j - 1 \in 0..N
      BY <1>1
    <3>2. h[j] = UNION {before(m) : m \in h[j - 1]} /\ h[j - 1] \in SUBSET U
      BY <1>15, <1>16, <3>1
    <3>3. QED  BY <1>5, <3>2
  <2>2. DOMAIN h = 0..N /\ h[0] = S
    BY <1>0, <1>1, <1>13, <1>15
  <2>3. QED  BY <2>1, <2>2 DEF Spreads
<1> HIDE DEF F
<1>18. PICK R : R = h[N]
  OBVIOUS
<1>19. R \in SUBSET U /\ S \subseteq R /\ \A u \in R : next[u] \subseteq R
  BY <1>1, <1>3, <1>17, <1>18, SpreadsClosed
<1>20. ASSUME NEW u \in R, u \notin S PROVE \E v \in R : u \in next[v]
  BY <1>1, <1>3, <1>17, <1>18, <1>20, SpreadsFrom
<1>21. QED  BY <1>0, <1>2, <1>14, <1>18, <1>19, <1>20, <1>u

-----------------------------------------------------------------------------
(* Sequences and paths *)

\* The elements of a sequence.
LEMMA InToSet ==
  ASSUME NEW S, NEW s \in Seq(S), NEW i \in 1..Len(s)
  PROVE  s[i] \in ToSet(s) /\ s[i] \in S
BY LenProperties DEF ToSet

LEMMA ToSetHas ==
  ASSUME NEW S, NEW s \in Seq(S), NEW x \in ToSet(s)
  PROVE  x \in S /\ \E i \in 1..Len(s) : x = s[i]
BY LenProperties DEF ToSet

\* p leads from m to n over l nodes.
Leads(out, p, m, n, l) == IsPath(out, p) /\ Len(p) = l /\ p[1] = m /\ p[l] = n

\* A path goes on at its last node.
LEMMA JoinPaths ==
  ASSUME NEW out, NEW a, NEW b, NEW m, NEW n, NEW o, NEW l1, NEW l2,
         Leads(out, a, m, n, l1), Leads(out, b, n, o, l2)
  PROVE  Leads(out, a \o Tail(b), m, o, l1 + l2 - 1)
<1>1. /\ a \in Seq(Nodes) /\ a # <<>> /\ b \in Seq(Nodes) /\ b # <<>>
      /\ \A j \in 1..(Len(a) - 1) : a[j + 1] \in ToSet(out[a[j]])
      /\ \A j \in 1..(Len(b) - 1) : b[j + 1] \in ToSet(out[b[j]])
  BY DEF Leads, IsPath
<1>0. Len(a) = l1 /\ a[1] = m /\ a[l1] = n /\ Len(b) = l2 /\ b[1] = n /\ b[l2] = o
  BY DEF Leads
<1>2. PICK la \in Nat : la = Len(a)
  BY <1>1, LenProperties
<1>3. PICK lb \in Nat : lb = Len(b)
  BY <1>1, LenProperties
<1>4. la > 0 /\ lb > 0
  BY <1>1, <1>2, <1>3, EmptySeq
<1>5. PICK t : t = Tail(b)
  OBVIOUS
<1>6. t \in Seq(Nodes) /\ Len(t) = lb - 1 /\ \A i \in 1..(lb - 1) : t[i] = b[i + 1]
  BY <1>1, <1>3, <1>5, HeadTailProperties
<1>7. PICK c : c = a \o t
  OBVIOUS
<1>8. /\ c \in Seq(Nodes) /\ Len(c) = la + (lb - 1)
      /\ \A i \in 1..(la + (lb - 1)) : c[i] = IF i <= la THEN a[i] ELSE t[i - la]
  <2>1. /\ a \o t \in Seq(Nodes) /\ Len(a \o t) = Len(a) + Len(t)
        /\ \A i \in 1..(Len(a) + Len(t)) : (a \o t)[i] = IF i <= Len(a) THEN a[i] ELSE t[i - Len(a)]
    BY <1>1, <1>6, ConcatProperties
  <2>2. QED  BY <1>2, <1>6, <1>7, <2>1
<1>9. \A i \in 1..la : c[i] = a[i]
  BY <1>4, <1>8
<1>10. \A i \in la..(la + (lb - 1)) : c[i] = b[(i - la) + 1]
  <2>1. ASSUME NEW i \in la..(la + (lb - 1)), i > la PROVE c[i] = b[(i - la) + 1]
    <3>1. i \in 1..(la + (lb - 1)) /\ ~(i <= la) /\ i - la \in 1..(lb - 1)
      BY <1>4, <2>1
    <3>2. QED  BY <1>6, <1>8, <3>1
  <2>2. c[la] = b[(la - la) + 1]
    <3>1. c[la] = a[la] /\ a[la] = b[1] /\ (la - la) + 1 = 1
      BY <1>0, <1>2, <1>4, <1>9
    <3>2. QED  BY <3>1
  <2>3. QED  BY <2>1, <2>2
<1>11. ASSUME NEW j \in 1..(Len(c) - 1) PROVE c[j + 1] \in ToSet(out[c[j]])
  <2>1. CASE j < la
    <3>1. j \in 1..la /\ j + 1 \in 1..la /\ j \in 1..(la - 1)
      BY <1>8, <2>1
    <3>2. a[j + 1] \in ToSet(out[a[j]])
      BY <1>1, <1>2, <3>1
    <3>3. QED  BY <1>9, <3>1, <3>2
  <2>2. CASE ~(j < la)
    <3>1. PICK i \in 1..(lb - 1) : i = (j - la) + 1
      BY <1>4, <1>8, <2>2
    <3>2. /\ j \in la..(la + (lb - 1)) /\ j + 1 \in la..(la + (lb - 1))
          /\ ((j + 1) - la) + 1 = i + 1
      BY <1>4, <1>8, <2>2, <3>1
    <3>3. c[j] = b[i] /\ c[j + 1] = b[i + 1]
      BY <1>10, <3>1, <3>2
    <3>4. QED  BY <1>1, <1>3, <3>1, <3>3
  <2>3. QED  BY <2>1, <2>2
<1>12. c # <<>> /\ c[1] = a[1] /\ c[Len(c)] = b[lb]
  <2>1. c # <<>>
    BY <1>4, <1>8, EmptySeq
  <2>2. c[1] = a[1]
    BY <1>4, <1>9
  <2>3. Len(c) \in la..(la + (lb - 1)) /\ (Len(c) - la) + 1 = lb
    BY <1>4, <1>8
  <2>4. QED  BY <1>10, <2>1, <2>2, <2>3
<1>13. QED
  <2>1. Len(c) = l1 + l2 - 1 /\ c[1] = m /\ c[l1 + l2 - 1] = o
    BY <1>0, <1>2, <1>3, <1>4, <1>8, <1>12
  <2>2. QED  BY <1>5, <1>7, <1>8, <1>11, <1>12, <2>1 DEF IsPath, Leads

\* A route, or a trace along predecessors, is a path backwards.
LEMMA ReverseIsPath ==
  ASSUME NEW out, NEW r \in Seq(Nodes), Len(r) > 0,
         \A j \in 1..(Len(r) - 1) : r[j] \in ToSet(out[r[j + 1]])
  PROVE  Leads(out, Reverse(r), r[Len(r)], r[1], Len(r))
<1>1. Len(r) > 0
  OBVIOUS
<1>2. PICK l \in Nat : l = Len(r)
  BY <1>1, LenProperties
<1>3. PICK s : s = [i \in 1..l |-> r[(l - i) + 1]]
  OBVIOUS
<1>4. s = Reverse(r)
  BY <1>2, <1>3 DEF Reverse
<1>5. s \in Seq(Nodes) /\ Len(s) = l /\ \A i \in 1..l : s[i] = r[(l - i) + 1]
  <2>1. \A i \in 1..l : r[(l - i) + 1] \in Nodes
    <3>1. \A i \in 1..l : (l - i) + 1 \in 1..l
      OBVIOUS
    <3>2. QED  BY <1>1, <1>2, <3>1, ElementOfSeq
  <2>2. s \in [1..l -> Nodes]
    BY <1>3, <2>1
  <2>3. QED  BY <1>3, <2>2
<1>6. ASSUME NEW j \in 1..(l - 1) PROVE s[j + 1] \in ToSet(out[s[j]])
  <2>1. PICK i \in 1..(l - 1) : i = l - j
    OBVIOUS
  <2>2. j \in 1..l /\ j + 1 \in 1..l /\ (l - j) + 1 = i + 1 /\ (l - (j + 1)) + 1 = i
    BY <2>1
  <2>3. s[j] = r[i + 1] /\ s[j + 1] = r[i]
    BY <1>5, <2>2
  <2>4. QED  BY <1>1, <1>2, <2>1, <2>3
<1>7. s # <<>> /\ s[1] = r[l] /\ s[l] = r[1]
  <2>1. 1 \in 1..l /\ l \in 1..l /\ (l - 1) + 1 = l /\ (l - l) + 1 = 1
    BY <1>1, <1>2
  <2>2. QED  BY <1>1, <1>2, <1>5, <2>1, EmptySeq
<1>8. QED  BY <1>2, <1>4, <1>5, <1>6, <1>7 DEF IsPath, Leads

\* The path of a route starts where the route was stored last.
LEMMA ReversePath ==
  ASSUME NEW out, NEW r, IsRoute(out, r)
  PROVE  Leads(out, Reverse(r), r[Len(r)], r[1], Len(r))
<1>1. /\ r \in Seq(Nodes) /\ Len(r) > 1
      /\ \A j \in 1..(Len(r) - 1) : r[j] \in ToSet(out[r[j + 1]])
  BY DEF IsRoute
<1>2. Len(r) \in Nat
  BY <1>1, LenProperties
<1>3. Len(r) > 0
  BY <1>1, <1>2
<1>4. QED  BY <1>1, <1>3, ReverseIsPath

\* The path of a connection with a route leads from a source pin to a sink pin.
LEMMA TotalPathIs ==
  ASSUME NEW x, NEW c, IsConn(x, c), c.rnodes # <<>>
  PROVE  /\ IsPath(x.out, TotalPath(c)) /\ Len(TotalPath(c)) > 1
         /\ TotalPath(c)[1] \in ToSet(x.sources)
         /\ TotalPath(c)[Len(TotalPath(c))] = Last(c.intToSinkPath)
<1>1. PICK s : s = c.sourceToIntPath
  OBVIOUS
<1>2. PICK t : t = c.intToSinkPath
  OBVIOUS
<1>3. PICK r : r = c.rnodes
  OBVIOUS
<1>0. PICK out : out = x.out
  OBVIOUS
<1>4. /\ IsPath(out, s) /\ Head(s) \in ToSet(x.sources) /\ IsPath(out, t)
      /\ IsRoute(out, r) /\ Head(r) = Head(t) /\ Last(r) = Last(s)
  BY <1>0, <1>1, <1>2, <1>3 DEF IsConn
<1>5. s \in Seq(Nodes) /\ s # <<>> /\ t \in Seq(Nodes) /\ t # <<>> /\ r \in Seq(Nodes) /\ r # <<>> /\ Len(r) > 1
  BY <1>3, <1>4 DEF IsPath, IsRoute
<1>6. s[1] \in ToSet(x.sources) /\ r[1] = t[1] /\ r[Len(r)] = s[Len(s)]
  BY <1>4, <1>5 DEF Last
<1>7. PICK u : u = Reverse(r)
  OBVIOUS
<1>8. Leads(out, u, s[Len(s)], t[1], Len(r))
  BY <1>4, <1>6, <1>7, ReversePath
<1>9. PICK a : a = s \o Tail(u)
  OBVIOUS
<1>10. Leads(out, a, s[1], t[1], Len(s) + Len(r) - 1)
  <2>1. Leads(out, s, s[1], s[Len(s)], Len(s))
    BY <1>4 DEF Leads
  <2>2. QED  BY <1>8, <1>9, <2>1, JoinPaths
<1>11. PICK p : p = a \o Tail(t)
  OBVIOUS
<1>12. Leads(out, p, s[1], t[Len(t)], (Len(s) + Len(r) - 1) + Len(t) - 1)
  <2>1. Leads(out, t, t[1], t[Len(t)], Len(t))
    BY <1>4 DEF Leads
  <2>2. QED  BY <1>10, <1>11, <2>1, JoinPaths
<1>13. Len(p) > 1
  <2>1. Len(s) \in Nat \ {0} /\ Len(t) \in Nat \ {0} /\ Len(r) \in Nat
    BY <1>5, EmptySeq, LenProperties
  <2>2. QED  BY <1>5, <1>12, <2>1 DEF Leads
<1>14. p = TotalPath(c)
  BY <1>1, <1>2, <1>3, <1>7, <1>9, <1>11 DEF TotalPath
<1>15. QED  BY <1>0, <1>2, <1>6, <1>12, <1>13, <1>14 DEF Last, Leads

\* What two sequences hold, one after the other.
LEMMA ToSetOfConcat ==
  ASSUME NEW S, NEW s \in Seq(S), NEW u \in Seq(S)
  PROVE  /\ s \o u \in Seq(S)
         /\ \A x : x \in ToSet(s \o u) <=> x \in ToSet(s) \/ x \in ToSet(u)
<1>1. /\ s \o u \in Seq(S) /\ Len(s \o u) = Len(s) + Len(u) /\ Len(s) \in Nat /\ Len(u) \in Nat
      /\ \A i \in 1..(Len(s) + Len(u)) : (s \o u)[i] = IF i <= Len(s) THEN s[i] ELSE u[i - Len(s)]
  BY ConcatProperties, LenProperties
<1>2. DOMAIN s = 1..Len(s) /\ DOMAIN u = 1..Len(u) /\ DOMAIN (s \o u) = 1..(Len(s) + Len(u))
  BY <1>1, LenProperties
<1>3. PICK w : w = s \o u
  OBVIOUS
<1>4. ASSUME NEW x, x \in ToSet(s) PROVE x \in ToSet(w)
  <2>1. PICK i \in 1..Len(s) : x = s[i]
    BY <1>2, <1>4 DEF ToSet
  <2>2. i \in 1..(Len(s) + Len(u)) /\ w[i] = x
    BY <1>1, <1>3, <2>1
  <2>3. QED  BY <1>2, <1>3, <2>2 DEF ToSet
<1>5. ASSUME NEW x, x \in ToSet(u) PROVE x \in ToSet(w)
  <2>1. PICK i \in 1..Len(u) : x = u[i]
    BY <1>2, <1>5 DEF ToSet
  <2>2. i + Len(s) \in 1..(Len(s) + Len(u)) /\ ~(i + Len(s) <= Len(s)) /\ (i + Len(s)) - Len(s) = i
    BY <1>1
  <2>3. w[i + Len(s)] = x
    BY <1>1, <1>3, <2>1, <2>2
  <2>4. QED  BY <1>2, <1>3, <2>2, <2>3 DEF ToSet
<1>6. ASSUME NEW x, x \in ToSet(w) PROVE x \in ToSet(s) \/ x \in ToSet(u)
  <2>1. PICK i \in 1..(Len(s) + Len(u)) : x = w[i]
    BY <1>2, <1>3, <1>6 DEF ToSet
  <2>2. CASE i <= Len(s)
    BY <1>1, <1>2, <1>3, <2>1, <2>2 DEF ToSet
  <2>3. CASE ~(i <= Len(s))
    <3>1. i - Len(s) \in 1..Len(u) /\ x = u[i - Len(s)]
      BY <1>1, <1>3, <2>1, <2>3
    <3>2. QED  BY <1>2, <3>1 DEF ToSet
  <2>4. QED  BY <2>2, <2>3
<1>7. QED  BY <1>1, <1>3, <1>4, <1>5, <1>6

\* FlattenSeq has the elements of all sequences.
LEMMA FlattenElements ==
  ASSUME NEW S, NEW ss \in Seq(Seq(S))
  PROVE  /\ FlattenSeq(ss) \in Seq(S)
         /\ \A x : x \in ToSet(FlattenSeq(ss)) <=> \E i \in 1..Len(ss) : x \in ToSet(ss[i])
<1>1. PICK l \in Nat : l = Len(ss)
  BY LenProperties
<1>2. \A i \in 1..l : ss[i] \in Seq(S)
  BY <1>1, ElementOfSeq
<1>3. CASE l = 0
  <2>0. ss = <<>>
    BY <1>1, <1>3, EmptySeq
  <2>1. FlattenSeq(ss) = ss /\ ss = <<>>
    BY <1>1, <1>3, <2>0 DEF FlattenSeq
  <2>2. ToSet(<<>>) = {}
    BY DEF ToSet
  <2>3. 1..Len(ss) = {}
    BY <1>1, <1>3
  <2>4. QED  BY <2>1, <2>2, <2>3, EmptySeq
<1>4. CASE l # 0
  <2> DEFINE F(f) == f = [i \in 1..l |-> IF i = 1 THEN ss[i] ELSE f[i - 1] \o ss[i]]
             step == [e \in (1..(l - 1)) \X Seq(S) |-> e[2] \o ss[e[1] + 1]]
  <2>1. l - 1 \in Nat /\ \A j \in 1..(l - 1) : j + 1 \in 1..l
    BY <1>4
  <2>2. PICK f : Iterates(f, ss[1], step, l - 1)
    <3> HIDE DEF step
    <3>1. QED  BY <2>1, IteratesExists
  <2>3. \A j \in 0..(l - 1) : f[j] \in Seq(S)
    <3> DEFINE T == {j \in 0..(l - 1) : f[j] \notin Seq(S)}
    <3>1. SUFFICES ASSUME T # {} PROVE FALSE
      OBVIOUS
    <3>2. PICK m \in T : \A j \in T : m <= j
      <4>1. T \subseteq Nat
        OBVIOUS
      <4> HIDE DEF T
      <4>2. QED  BY <3>1, <4>1, LeastNumber
    <3>3. m # 0
      <4>1. ss[1] \in Seq(S)
        BY <1>2, <1>4
      <4>2. QED  BY <2>2, <3>2, <4>1 DEF Iterates
    <3>4. m \in 1..(l - 1) /\ m - 1 \in 0..(l - 1) /\ m - 1 \notin T
      BY <3>2, <3>3
    <3>5. f[m] = step[<<m, f[m - 1]>>] /\ f[m - 1] \in Seq(S)
      BY <2>2, <3>4 DEF Iterates
    <3>6. ss[m + 1] \in Seq(S)
      BY <1>2, <2>1, <3>4
    <3>7. f[m] = f[m - 1] \o ss[m + 1]
      BY <3>4, <3>5
    <3>8. f[m] \in Seq(S)
      BY <3>5, <3>6, <3>7, ConcatProperties
    <3>9. QED  BY <3>2, <3>8
  <2>4. ASSUME NEW j \in 1..(l - 1) PROVE f[j] = f[j - 1] \o ss[j + 1]
    <3>1. j - 1 \in 0..(l - 1)
      OBVIOUS
    <3>2. f[j] = step[<<j, f[j - 1]>>] /\ f[j - 1] \in Seq(S)
      BY <2>2, <2>3, <3>1 DEF Iterates
    <3>3. QED  BY <3>2
  <2> HIDE DEF step
  <2> DEFINE g == [i \in 1..l |-> f[i - 1]]
  <2>5. \A i \in 1..l : g[i] = f[i - 1]
    OBVIOUS
  <2>6. g = [i \in 1..l |-> g[i]]
    OBVIOUS
  <2> HIDE DEF g
  <2>7. ASSUME NEW i \in 1..l PROVE g[i] = IF i = 1 THEN ss[i] ELSE g[i - 1] \o ss[i]
    <3>1. CASE i = 1
      BY <2>2, <2>5, <3>1 DEF Iterates
    <3>2. CASE i # 1
      <4>1. PICK j \in 1..(l - 1) : j = i - 1
        BY <3>2
      <4>2. g[i] = f[j] /\ j \in 1..l /\ g[j] = f[j - 1] /\ j + 1 = i
        BY <2>5, <4>1
      <4>3. QED  BY <2>4, <3>2, <4>1, <4>2
    <3>3. QED  BY <3>1, <3>2
  <2>8. F(g)
    BY <2>6, <2>7
  <2>9. PICK h : h = CHOOSE f_1 : F(f_1)
    OBVIOUS
  <2>10. F(h)
    BY <2>8, <2>9
  <2>11. FlattenSeq(ss) = h[l]
    BY <1>1, <1>4, <2>9 DEF FlattenSeq
  <2>12. \A i \in 1..l : h[i] = IF i = 1 THEN ss[i] ELSE h[i - 1] \o ss[i]
    BY <2>10
  <2> HIDE DEF F
  <2> DEFINE Good(j) == /\ h[j] \in Seq(S)
                        /\ \A x : x \in ToSet(h[j]) <=> \E i \in 1..j : x \in ToSet(ss[i])
             T == {j \in 1..l : ~Good(j)}
  <2>13. T = {}
    <3>1. SUFFICES ASSUME T # {} PROVE FALSE
      OBVIOUS
    <3>2. PICK m \in T : \A j \in T : m <= j
      <4>1. T \subseteq Nat
        OBVIOUS
      <4> HIDE DEF T
      <4>2. QED  BY <3>1, <4>1, LeastNumber
    <3>3. Good(1)
      <4>1. 1 \in 1..l /\ 1..1 = {1}
        BY <1>4
      <4>2. h[1] = ss[1]
        BY <2>12, <4>1
      <4>3. QED  BY <1>2, <4>1, <4>2
    <3>4. m \in 1..l /\ ~Good(m)
      BY <3>2
    <3> HIDE DEF Good
    <3>5. m # 1
      BY <3>3, <3>4
    <3>6. m - 1 \in 1..l /\ m - 1 \notin T
      BY <3>2, <3>4, <3>5
    <3>7. Good(m - 1)
      BY <3>6
    <3>8. PICK a : a = h[m - 1]
      OBVIOUS
    <3>9. a \in Seq(S) /\ \A x : x \in ToSet(a) <=> \E i \in 1..(m - 1) : x \in ToSet(ss[i])
      BY <3>7, <3>8 DEF Good
    <3>10. h[m] = a \o ss[m] /\ ss[m] \in Seq(S)
      BY <1>2, <2>12, <3>4, <3>5, <3>8
    <3>11. h[m] \in Seq(S) /\ \A x : x \in ToSet(h[m]) <=> x \in ToSet(a) \/ x \in ToSet(ss[m])
      BY <3>9, <3>10, ToSetOfConcat
    <3>12. \A i : i \in 1..m <=> i \in 1..(m - 1) \/ i = m
      BY <3>4
    <3>13. Good(m)
      BY <3>9, <3>11, <3>12 DEF Good
    <3>14. QED  BY <3>4, <3>13
  <2>14. Good(l)
    <3> HIDE DEF Good
    <3>1. l \in 1..l
      BY <1>4
    <3>2. QED  BY <2>13, <3>1
  <2>15. QED  BY <1>1, <2>11, <2>14
<1>5. QED  BY <1>3, <1>4

\* The connections in the order in which they are saved are those of the net.
LEMMA SaveOrderIs ==
  ASSUME conns \in Seq(ConnRecs)
  PROVE  SaveOrder \in Seq(ConnRecs) /\ ToSet(SaveOrder) = ToSet(conns)
<1> DEFINE only(direct) == [j \in DOMAIN conns |-> IF conns[j].direct = direct THEN <<conns[j]>> ELSE <<>>]
<1>0. PICK l \in Nat : l = Len(conns)
  BY LenProperties
<1>1. DOMAIN conns = 1..l /\ \A j \in 1..l : conns[j] \in ConnRecs /\ conns[j].direct \in BOOLEAN
  <2>1. DOMAIN conns = 1..l /\ \A j \in 1..l : conns[j] \in ConnRecs
    BY <1>0, LenProperties, ElementOfSeq
  <2>2. \A c \in ConnRecs : c.direct \in BOOLEAN
    BY DEF ConnRecs
  <2>3. QED  BY <2>1, <2>2
<1>2. ASSUME NEW d \in BOOLEAN
      PROVE  /\ FlattenSeq(only(d)) \in Seq(ConnRecs)
             /\ \A c : c \in ToSet(FlattenSeq(only(d))) <=> \E j \in 1..l : conns[j].direct = d /\ c = conns[j]
  <2>1. PICK ss : ss = only(d)
    OBVIOUS
  <2>2. \A j \in 1..l : ss[j] = IF conns[j].direct = d THEN <<conns[j]>> ELSE <<>>
    BY <1>1, <2>1
  <2>3. ASSUME NEW j \in 1..l
        PROVE  ss[j] \in Seq(ConnRecs) /\ \A c : c \in ToSet(ss[j]) <=> conns[j].direct = d /\ c = conns[j]
    <3>1. CASE conns[j].direct = d
      <4>1. PICK c : c = conns[j]
        OBVIOUS
      <4>2. ss[j] = <<c>> /\ c \in ConnRecs
        BY <1>1, <2>2, <3>1, <4>1
      <4>3. <<c>> \in Seq(ConnRecs) /\ \A e : e \in ToSet(<<c>>) <=> e = c
        BY <4>2 DEF ToSet
      <4>4. QED  BY <3>1, <4>1, <4>2, <4>3
    <3>2. CASE conns[j].direct # d
      <4>1. ss[j] = <<>>
        BY <2>2, <3>2
      <4>2. <<>> \in Seq(ConnRecs) /\ \A e : e \notin ToSet(<<>>)
        BY EmptySeq DEF ToSet
      <4>3. QED  BY <3>2, <4>1, <4>2
    <3>3. QED  BY <3>1, <3>2
  <2>4. ss \in Seq(Seq(ConnRecs)) /\ Len(ss) = l
    <3>1. ss = [j \in 1..l |-> ss[j]]
      BY <1>1, <2>1
    <3>2. ss \in [1..l -> Seq(ConnRecs)]
      BY <2>3, <3>1
    <3>3. QED  BY <3>2
  <2>5. /\ FlattenSeq(ss) \in Seq(ConnRecs)
        /\ \A c : c \in ToSet(FlattenSeq(ss)) <=> \E j \in 1..l : c \in ToSet(ss[j])
    BY <2>4, FlattenElements
  <2>6. FlattenSeq(only(d)) = FlattenSeq(ss)
    BY <2>1
  <2> HIDE DEF only
  <2>7. \A c : c \in ToSet(FlattenSeq(ss)) <=> \E j \in 1..l : conns[j].direct = d /\ c = conns[j]
    <3>1. ASSUME NEW c, c \in ToSet(FlattenSeq(ss)) PROVE \E j \in 1..l : conns[j].direct = d /\ c = conns[j]
      <4>1. PICK j \in 1..l : c \in ToSet(ss[j])
        BY <2>5, <3>1
      <4>2. QED  BY <2>3, <4>1
    <3>2. ASSUME NEW j \in 1..l, conns[j].direct = d PROVE conns[j] \in ToSet(FlattenSeq(ss))
      <4>1. conns[j] \in ToSet(ss[j])
        BY <2>3, <3>2
      <4>2. QED  BY <2>5, <4>1
    <3>3. QED  BY <3>1, <3>2
  <2>8. QED  BY <2>5, <2>6, <2>7
<1>3. PICK a : a = FlattenSeq(only(FALSE))
  OBVIOUS
<1>4. PICK b : b = FlattenSeq(only(TRUE))
  OBVIOUS
<1>5. SaveOrder = a \o b
  BY <1>3, <1>4 DEF SaveOrder
<1>6. a \in Seq(ConnRecs) /\ \A c : c \in ToSet(a) <=> \E j \in 1..l : conns[j].direct = FALSE /\ c = conns[j]
  BY <1>2, <1>3
<1>7. b \in Seq(ConnRecs) /\ \A c : c \in ToSet(b) <=> \E j \in 1..l : conns[j].direct = TRUE /\ c = conns[j]
  BY <1>2, <1>4
<1> HIDE DEF only
<1>8. PICK s : s = a \o b
  OBVIOUS
<1>9. s \in Seq(ConnRecs) /\ \A c : c \in ToSet(s) <=> c \in ToSet(a) \/ c \in ToSet(b)
  BY <1>6, <1>7, <1>8, ToSetOfConcat
<1>10. \A c : c \in ToSet(conns) <=> \E j \in 1..l : c = conns[j]
  BY <1>1 DEF ToSet
<1>11. \A c : c \in ToSet(s) <=> c \in ToSet(conns)
  <2>1. ASSUME NEW c, c \in ToSet(s) PROVE c \in ToSet(conns)
    <3>1. c \in ToSet(a) \/ c \in ToSet(b)
      BY <1>9, <2>1
    <3>2. QED  BY <1>6, <1>7, <1>10, <3>1
  <2>2. ASSUME NEW j \in 1..l PROVE conns[j] \in ToSet(s)
    <3>1. CASE conns[j].direct = FALSE
      BY <1>6, <1>9, <3>1
    <3>2. CASE conns[j].direct = TRUE
      BY <1>7, <1>9, <3>2
    <3>3. QED  BY <1>1, <3>1, <3>2
  <2>3. QED  BY <1>10, <2>1, <2>2
<1>12. QED  BY <1>5, <1>8, <1>9, <1>11

-----------------------------------------------------------------------------
(* The walks of the reader *)

\* The function that Trace is defined by.
IsBack(h, prev, m) ==
  /\ DOMAIN h = 0..Cardinality(Nodes) /\ h[0] = m
  /\ \A j \in 1..Cardinality(Nodes) : h[j] = IF h[j - 1] = NoNode THEN NoNode ELSE prev[h[j - 1]]
IsTrace(t, h) ==
  t = [j \in 1..Cardinality({i \in 0..Cardinality(Nodes) : h[i] # NoNode}) |-> h[j - 1]]

\* A walk back meets nodes, and NoNode after them.
LEMMA BackIn ==
  ASSUME NEW prev, ArePrevs(prev), NEW m \in Nodes, NEW h, IsBack(h, prev, m)
  PROVE  \A j \in 0..Cardinality(Nodes) : h[j] \in Nodes \cup {NoNode}
<1> DEFINE N == Cardinality(Nodes)
           T == {j \in 0..N : h[j] \notin Nodes \cup {NoNode}}
<1>1. SUFFICES ASSUME T # {} PROVE FALSE
  OBVIOUS
<1>2. PICK i \in T : \A j \in T : i <= j
  <2>1. T \subseteq Nat
    BY NodesFinite
  <2> HIDE DEF T
  <2>2. QED  BY <1>1, <2>1, LeastNumber
<1>3. i # 0
  BY <1>2 DEF IsBack
<1>4. i \in 1..N /\ i - 1 \in 0..N /\ i - 1 \notin T
  BY <1>2, <1>3, NodesFinite
<1>5. h[i - 1] \in Nodes \cup {NoNode}
  BY <1>4
<1>6. h[i] = IF h[i - 1] = NoNode THEN NoNode ELSE prev[h[i - 1]]
  BY <1>4 DEF IsBack
<1>7. QED  BY <1>2, <1>5, <1>6 DEF ArePrevs

\* Trace is such a walk.
LEMMA TraceBack ==
  ASSUME NEW prev, ArePrevs(prev), NEW m \in Nodes
  PROVE  \E h : IsBack(h, prev, m) /\ IsTrace(Trace(prev, m), h)
<1> DEFINE N == Cardinality(Nodes)
           U == Nodes \cup {NoNode}
           before(x) == IF x = NoNode THEN NoNode ELSE prev[x]
           F(f) == f = [j \in 0..N |-> IF j = 0 THEN m ELSE before(f[j - 1])]
           step == [e \in (1..N) \X U |-> before(e[2])]
<1>1. N \in Nat
  BY NodesFinite
<1> HIDE DEF N
<1>2. PICK f : Iterates(f, m, step, N)
  <2> HIDE DEF step
  <2>1. QED  BY <1>1, IteratesExists
<1>3. \A x \in U : before(x) \in U
  BY DEF ArePrevs
<1>4. \A j \in 0..N : f[j] \in U
  <2> DEFINE T == {j \in 0..N : f[j] \notin U}
  <2>1. SUFFICES ASSUME T # {} PROVE FALSE
    OBVIOUS
  <2>2. PICK i \in T : \A j \in T : i <= j
    <3>1. T \subseteq Nat
      OBVIOUS
    <3> HIDE DEF T
    <3>2. QED  BY <2>1, <3>1, LeastNumber
  <2>3. i # 0
    BY <1>2, <2>2 DEF Iterates
  <2>4. i \in 1..N /\ i - 1 \in 0..N /\ i - 1 \notin T
    BY <1>1, <2>2, <2>3
  <2>5. f[i] = step[<<i, f[i - 1]>>] /\ f[i - 1] \in U
    BY <1>2, <2>4 DEF Iterates
  <2> HIDE DEF U, before
  <2>6. f[i] = before(f[i - 1])
    BY <2>4, <2>5
  <2>7. QED  BY <1>3, <2>2, <2>5, <2>6
<1> HIDE DEF U, before
<1>5. ASSUME NEW j \in 1..N PROVE f[j] = before(f[j - 1])
  <2>1. j - 1 \in 0..N
    BY <1>1
  <2>2. f[j] = step[<<j, f[j - 1]>>] /\ f[j - 1] \in U
    BY <1>2, <1>4, <2>1 DEF Iterates
  <2>3. QED  BY <2>2
<1> HIDE DEF step
<1> DEFINE g == [j \in 0..N |-> f[j]]
<1>6. \A j \in 0..N : g[j] = f[j]
  OBVIOUS
<1>7. g = [j \in 0..N |-> g[j]]
  OBVIOUS
<1> HIDE DEF g
<1>8. ASSUME NEW j \in 0..N PROVE g[j] = IF j = 0 THEN m ELSE before(g[j - 1])
  <2>1. CASE j = 0
    BY <1>2, <1>6, <2>1 DEF Iterates
  <2>2. CASE j # 0
    <3>1. j \in 1..N /\ j - 1 \in 0..N
      BY <1>1, <2>2
    <3>2. QED  BY <1>5, <1>6, <2>2, <3>1
  <2>3. QED  BY <2>1, <2>2
<1>9. F(g)
  BY <1>7, <1>8
<1>10. PICK h : h = CHOOSE f_1 : F(f_1)
  OBVIOUS
<1>11. F(h)
  BY <1>9, <1>10
<1>12. IsBack(h, prev, m)
  <2>1. \A j \in 0..N : h[j] = IF j = 0 THEN m ELSE before(h[j - 1])
    BY <1>11
  <2>2. DOMAIN h = 0..N /\ h[0] = m
    BY <1>1, <1>11, <2>1
  <2>3. \A j \in 1..N : h[j] = before(h[j - 1])
    <3>1. \A j \in 1..N : j \in 0..N /\ j # 0
      BY <1>1
    <3>2. QED  BY <2>1, <3>1
  <2>4. QED  BY <2>2, <2>3 DEF IsBack, N, before
<1>13. Trace(prev, m) = [j \in 1..Cardinality({i \in 0..N : h[i] # NoNode}) |-> h[j - 1]]
  BY <1>10 DEF Trace, N, before
<1>14. QED  BY <1>12, <1>13 DEF N, IsTrace

\* t leads back from m to n over the edges.
LeadsBack(edges, t, m, n) ==
  /\ t \in Seq(Nodes) /\ Len(t) > 0 /\ t[1] = m /\ t[Len(t)] = n
  /\ \A j \in 1..(Len(t) - 1) : <<t[j + 1], t[j]>> \in edges

\* A walk back that ends has come to the node where the walk started.
LEMMA TraceIs ==
  ASSUME NEW edges, NEW n \in Nodes, NEW prev, PrevFrom(edges, n, prev),
         NEW m \in Nodes, m = n \/ prev[m] # NoNode, NEW t, t = Trace(prev, m), ~Endless(t)
  PROVE  LeadsBack(edges, t, m, n)
<1> DEFINE N == Cardinality(Nodes)
<1>1. PICK h : IsBack(h, prev, m) /\ IsTrace(t, h)
  <2>1. ArePrevs(prev)
    BY DEF PrevFrom
  <2>2. QED  BY <2>1, TraceBack
<1>2. \A j \in 0..N : h[j] \in Nodes \cup {NoNode}
  <2>1. ArePrevs(prev)
    BY DEF PrevFrom
  <2>2. QED  BY <1>1, <2>1, BackIn
<1>3. N \in Nat /\ IsFiniteSet(Nodes) /\ NoNode \notin Nodes
  BY NodesFinite
<1>4. /\ h[0] = m
      /\ \A j \in 1..N : h[j] = IF h[j - 1] = NoNode THEN NoNode ELSE prev[h[j - 1]]
  BY <1>1 DEF IsBack
<1>5. PICK A : A = {i \in 0..N : h[i] # NoNode}
  OBVIOUS
<1>6. PICK Z : Z = {i \in 0..N : h[i] = NoNode}
  OBVIOUS
<1>7. Cardinality(Nodes) = N
  OBVIOUS
<1> HIDE DEF N
<1>8. t = [j \in 1..Cardinality(A) |-> h[j - 1]]
  BY <1>1, <1>5 DEF IsTrace, N
<1>9. Z # {}
  <2>1. SUFFICES ASSUME Z = {} PROVE FALSE
    OBVIOUS
  <2>2. A = 0..N
    BY <1>5, <1>6, <2>1
  <2>3. Cardinality(A) = N + 1
    BY <1>3, <2>2, FS_Interval
  <2>4. t \in [1..(N + 1) -> Nodes]
    <3>1. ASSUME NEW j \in 1..(N + 1) PROVE h[j - 1] \in Nodes
      <4>1. j - 1 \in 0..N
        BY <1>3
      <4>2. QED  BY <1>2, <1>6, <2>1, <4>1
    <3>2. t = [j \in 1..(N + 1) |-> h[j - 1]]
      BY <1>8, <2>3
    <3>3. QED  BY <3>1, <3>2
  <2>5. IsFiniteSet(1..(N + 1)) /\ Cardinality(1..(N + 1)) = N + 1
    BY <1>3, FS_Interval
  <2>6. \E x, y \in 1..(N + 1) : x # y /\ t[x] = t[y]
    <3>1. Cardinality(Nodes) < Cardinality(1..(N + 1))
      BY <1>3, <1>7, <2>5
    <3>2. QED  BY <1>3, <2>4, <2>5, <3>1, FS_PigeonHole
  <2>7. QED  BY <2>4, <2>6 DEF Endless, IsInjective
<1>10. PICK L \in Z : \A j \in Z : L <= j
  <2>1. Z \subseteq Nat
    BY <1>6
  <2>2. QED  BY <1>9, <2>1, LeastNumber
<1>11. L \in 1..N /\ h[L] = NoNode
  <2>1. L # 0
    BY <1>3, <1>4, <1>6, <1>10
  <2>2. QED  BY <1>6, <1>10, <2>1
<1>12. \A j \in 0..(L - 1) : h[j] \in Nodes
  <2>1. ASSUME NEW j \in 0..(L - 1) PROVE h[j] \in Nodes
    <3>1. j \in 0..N /\ ~(L <= j)
      BY <1>3, <1>11
    <3>2. j \notin Z
      BY <1>10, <3>1
    <3>3. QED  BY <1>2, <1>6, <3>1, <3>2
  <2>2. QED  BY <2>1
<1>13. \A j \in L..N : h[j] = NoNode
  <2> DEFINE T == {j \in L..N : h[j] # NoNode}
  <2>1. SUFFICES ASSUME T # {} PROVE FALSE
    OBVIOUS
  <2>2. PICK i \in T : \A j \in T : i <= j
    <3>1. T \subseteq Nat
      BY <1>11
    <3> HIDE DEF T
    <3>2. QED  BY <2>1, <3>1, LeastNumber
  <2>3. i # L
    BY <1>11, <2>2
  <2>4. i \in 1..N /\ i - 1 \in L..N /\ i - 1 \notin T
    BY <1>3, <1>11, <2>2, <2>3
  <2>5. h[i - 1] = NoNode
    BY <2>4
  <2>6. QED  BY <1>4, <2>2, <2>4, <2>5
<1>14. A = 0..(L - 1)
  <2>1. \A j \in 0..N : j \in 0..(L - 1) \/ j \in L..N
    BY <1>3, <1>11
  <2>2. \A j \in 0..(L - 1) : j \in 0..N
    BY <1>3, <1>11
  <2>3. QED  BY <1>3, <1>5, <1>12, <1>13, <2>1, <2>2
<1>15. Cardinality(A) = L
  <2>1. 0 \in Int /\ L - 1 \in Int /\ ~(0 > L - 1) /\ ((L - 1) - 0) + 1 = L
    BY <1>3, <1>11
  <2>2. Cardinality(0..(L - 1)) = ((L - 1) - 0) + 1
    BY <2>1, FS_Interval
  <2>3. QED  BY <1>14, <2>1, <2>2
<1>16. t \in Seq(Nodes) /\ Len(t) = L /\ \A j \in 1..L : t[j] = h[j - 1] /\ t[j] \in Nodes
  <2>1. t = [j \in 1..L |-> h[j - 1]]
    BY <1>8, <1>15
  <2>2. \A j \in 1..L : h[j - 1] \in Nodes
    <3>1. \A j \in 1..L : j - 1 \in 0..(L - 1)
      BY <1>3, <1>11
    <3>2. QED  BY <1>12, <3>1
  <2>3. t \in [1..L -> Nodes] /\ L \in Nat
    BY <1>11, <2>1, <2>2
  <2>4. QED  BY <2>1, <2>3
<1>17. \A j \in 1..L : prev[t[j]] = h[j]
  <2>1. ASSUME NEW j \in 1..L PROVE prev[t[j]] = h[j]
    <3>1. j \in 1..N
      BY <1>3, <1>11
    <3>2. QED  BY <1>3, <1>4, <1>16, <3>1
  <2>2. QED  BY <2>1
<1>18. ASSUME NEW j \in 1..(L - 1)
       PROVE  t[j + 1] = prev[t[j]] /\ prev[t[j]] # NoNode /\ t[j] \in Nodes
  <2>1. j \in 1..L /\ j + 1 \in 1..L /\ (j + 1) - 1 = j
    BY <1>3, <1>11
  <2>2. QED  BY <1>3, <1>16, <1>17, <2>1
<1>19. ASSUME NEW j \in 1..(L - 1) PROVE <<t[j + 1], t[j]>> \in edges
  <2>1. <<prev[t[j]], t[j]>> \in edges
    BY <1>18 DEF PrevFrom
  <2>2. QED  BY <1>18, <2>1
<1>20. 1 \in 1..L /\ L \in 1..L /\ t[1] = m
  <2>1. 1 \in 1..L /\ L \in 1..L /\ 1 - 1 = 0
    BY <1>3, <1>11
  <2>2. QED  BY <1>4, <1>16, <2>1
<1>21. t[L] = n
  <2>1. prev[t[L]] = NoNode
    BY <1>11, <1>17, <1>20
  <2>2. CASE L = 1
    BY <1>20, <2>1, <2>2
  <2>3. CASE L # 1
    <3>1. PICK j \in 1..(L - 1) : j + 1 = L
      <4>1. L - 1 \in 1..(L - 1) /\ (L - 1) + 1 = L
        BY <1>3, <1>11, <2>3
      <4>2. QED  BY <4>1
    <3>2. prev[t[j]] = n \/ prev[prev[t[j]]] # NoNode
      BY <1>18 DEF PrevFrom
    <3>3. QED  BY <1>18, <2>1, <3>1, <3>2
  <2>4. QED  BY <2>2, <2>3
<1>22. Len(t) > 0
  BY <1>11, <1>16
<1>23. QED  BY <1>16, <1>19, <1>20, <1>21, <1>22 DEF LeadsBack

\* What a net is, field by field.
LEMMA NetIs ==
  ASSUME NEW x \in Nets
  PROVE  /\ x.out \in [Nodes -> Seq(Nodes)] /\ x.INT \subseteq Nodes
         /\ x.sources \in Seq(Nodes) /\ Len(x.sources) \in 1..2
         /\ x.sinks \in Seq(Nodes) /\ Len(x.sinks) \in Nat \ {0}
<1>1. x.sinks \in Seq(Nodes) /\ x.sinks # <<>>
  BY ReaderAssumption
<1>2. Len(x.sinks) \in Nat \ {0}
  BY <1>1, EmptySeq
<1>3. QED  BY <1>1, <1>2, ReaderAssumption

\* A walk starts with no predecessors, and goes on by the edges of the first node.
LEMMA WalkStarts ==
  ASSUME NEW edges, NEW n \in Nodes
  PROVE  WalkFrom(edges, n, <<n>>, [m \in Nodes |-> NoNode])
<1>1. <<n>> \in Seq(Nodes) /\ \A m \in ToSet(<<n>>) : m = n
  BY DEF ToSet
<1>2. QED  BY <1>1 DEF WalkFrom, PrevFrom, ArePrevs

IsNext(edges, m, next) == next \in Seq(Nodes) /\ \A x \in ToSet(next) : <<m, x>> \in edges
IsAfter(new, prev, m, next) == new = [x \in Nodes |-> IF x \in ToSet(next) THEN m ELSE prev[x]]

\* Where the neighbours of a node that was met get it as predecessor, only the
\* start of the walk has none.
LEMMA PrevExpands ==
  ASSUME NEW edges, NEW n, NEW prev, PrevFrom(edges, n, prev),
         NEW m \in Nodes, m = n \/ prev[m] # NoNode,
         NEW next, IsNext(edges, m, next), NEW new, IsAfter(new, prev, m, next)
  PROVE  PrevFrom(edges, n, new) /\ \A x \in Nodes : prev[x] # NoNode => new[x] # NoNode
<1>1. m # NoNode
  BY NodesFinite
<1> USE DEF IsNext, IsAfter
<1>2. ArePrevs(new) /\ \A x \in Nodes : prev[x] # NoNode => new[x] # NoNode
  BY <1>1 DEF PrevFrom, ArePrevs
<1>3. ASSUME NEW x \in Nodes, new[x] # NoNode
      PROVE  <<new[x], x>> \in edges /\ (new[x] = n \/ new[new[x]] # NoNode)
  <2>1. CASE x \in ToSet(next)
    <3>1. new[x] = m
      BY <2>1
    <3>2. QED  BY <1>2, <2>1, <3>1
  <2>2. CASE x \notin ToSet(next)
    <3>1. new[x] = prev[x] /\ prev[x] # NoNode /\ prev[x] \in Nodes
      BY <1>3, <2>2 DEF PrevFrom, ArePrevs
    <3>2. <<prev[x], x>> \in edges /\ (prev[x] = n \/ prev[prev[x]] # NoNode)
      BY <3>1 DEF PrevFrom
    <3>3. QED  BY <1>2, <3>1, <3>2
  <2>3. QED  BY <2>1, <2>2
<1>4. QED  BY <1>2, <1>3 DEF PrevFrom

\* The first node of the queue was met.
LEMMA HeadOfWalk ==
  ASSUME NEW edges, NEW n, NEW queue, NEW prev, WalkFrom(edges, n, queue, prev), queue # <<>>
  PROVE  Head(queue) \in Nodes /\ (Head(queue) = n \/ prev[Head(queue)] # NoNode)
<1>1. queue \in Seq(Nodes) /\ Len(queue) \in Nat \ {0}
  BY EmptySeq DEF WalkFrom
<1>2. Head(queue) = queue[1] /\ 1 \in 1..Len(queue)
  BY <1>1
<1>3. queue[1] \in ToSet(queue) /\ queue[1] \in Nodes
  BY <1>1, <1>2, InToSet
<1>4. QED  BY <1>2, <1>3 DEF WalkFrom

\* A step of a walk.
LEMMA WalkExpands ==
  ASSUME NEW edges, NEW n, NEW queue, NEW prev, WalkFrom(edges, n, queue, prev), queue # <<>>,
         NEW next, IsNext(edges, Head(queue), next), NEW new, IsAfter(new, prev, Head(queue), next)
  PROVE  WalkFrom(edges, n, Tail(queue) \o next, new)
<1>1. PICK m : m = Head(queue)
  OBVIOUS
<1>2. n \in Nodes /\ m \in Nodes /\ (m = n \/ prev[m] # NoNode) /\ PrevFrom(edges, n, prev)
  BY <1>1, HeadOfWalk DEF WalkFrom
<1>0. IsNext(edges, m, next) /\ IsAfter(new, prev, m, next)
  BY <1>1
<1>3. PrevFrom(edges, n, new) /\ \A x \in Nodes : prev[x] # NoNode => new[x] # NoNode
  BY <1>0, <1>2, PrevExpands
<1>4. PICK t : t = Tail(queue)
  OBVIOUS
<1>5. t \in Seq(Nodes) /\ \A x \in ToSet(t) : x \in ToSet(queue)
  <2>1. queue \in Seq(Nodes)
    BY DEF WalkFrom
  <2>2. t \in Seq(Nodes) /\ Len(t) = Len(queue) - 1 /\ \A i \in 1..Len(t) : t[i] = queue[i + 1]
    BY <1>4, <2>1, HeadTailProperties
  <2>3. ASSUME NEW x \in ToSet(t) PROVE x \in ToSet(queue)
    <3>1. PICK i \in 1..Len(t) : x = t[i]
      BY <2>2, ToSetHas
    <3>2. i + 1 \in 1..Len(queue)
      BY <2>1, <2>2, LenProperties
    <3>3. QED  BY <2>1, <2>2, <3>1, <3>2, InToSet
  <2>4. QED  BY <2>2, <2>3
<1>6. PICK w : w = t \o next
  OBVIOUS
<1>7. w \in Seq(Nodes) /\ \A x : x \in ToSet(w) <=> x \in ToSet(t) \/ x \in ToSet(next)
  BY <1>0, <1>5, <1>6, ToSetOfConcat DEF IsNext
<1>8. ASSUME NEW x \in ToSet(w) PROVE x = n \/ new[x] # NoNode
  <2>1. x \in Nodes
    BY <1>7, <1>8, ToSetHas
  <2>2. CASE x \in ToSet(next)
    <3>1. new[x] = m /\ m # NoNode
      BY <1>0, <1>2, <2>1, <2>2, NodesFinite DEF IsAfter
    <3>2. QED  BY <3>1
  <2>3. CASE x \in ToSet(t)
    BY <1>3, <1>5, <2>1, <2>3 DEF WalkFrom
  <2>4. QED  BY <1>7, <2>2, <2>3
<1>9. QED  BY <1>2, <1>3, <1>4, <1>6, <1>7, <1>8 DEF WalkFrom

-----------------------------------------------------------------------------
(* The reader keeps its part of the invariant *)

\* The walks of the net x.
LEMMA EdgesOut ==
  ASSUME NEW x \in Nets, NEW n \in Nodes
  PROVE  /\ x.out[n] \in Seq(Nodes)
         /\ \A m \in ToSet(x.out[n]) : m \in Nodes /\ <<n, m>> \in OutEdges(x)
<1>1. x.out[n] \in Seq(Nodes)
  BY NetIs
<1>2. \A m \in ToSet(x.out[n]) : m \in Nodes
  BY <1>1, ToSetHas
<1>3. QED  BY <1>1, <1>2 DEF OutEdges

\* The end of the walk from a source pin, with or without a path.
LEMMA EndSourceKeeps ==
  ASSUME ReaderInv, pc = "source", NEW path \in Seq(Nodes),
         path # <<>> => IsPath(net.out, path) /\ Head(path) \in ToSet(net.sources),
         EndSource(path), UNCHANGED <<net, conns>>
  PROVE  ReaderInv'
<1>1. net \in Nets /\ k \in 1..Len(net.sources) /\ net' = net /\ conns' = conns
  BY DEF ReaderInv
<1>2. /\ net.sources \in Seq(Nodes) /\ Len(net.sources) \in 1..2
      /\ net.sinks \in Seq(Nodes) /\ Len(net.sinks) \in Nat \ {0}
  BY <1>1, NetIs
<1>3. srcPaths' = Append(srcPaths, path)
  BY DEF EndSource
<1>4. /\ srcPaths' \in Seq(Seq(Nodes))
      /\ \A p \in ToSet(srcPaths') : p # <<>> => IsPath(net.out, p) /\ Head(p) \in ToSet(net.sources)
  <2>1. srcPaths \in Seq(Seq(Nodes))
    BY DEF ReaderInv
  <2>2. PICK s : s = Append(srcPaths, path)
    OBVIOUS
  <2>3. PICK l \in Nat : l = Len(srcPaths)
    BY <2>1, LenProperties
  <2>4. /\ s \in Seq(Seq(Nodes)) /\ Len(s) = l + 1 /\ s[l + 1] = path
        /\ \A i \in 1..l : s[i] = srcPaths[i]
    BY <2>1, <2>2, <2>3, AppendProperties
  <2>5. ASSUME NEW p \in ToSet(s) PROVE p = path \/ p \in ToSet(srcPaths)
    <3>1. PICK i \in 1..(l + 1) : p = s[i]
      BY <2>4, ToSetHas
    <3>2. CASE i = l + 1
      BY <2>4, <3>1, <3>2
    <3>3. CASE i # l + 1
      <4>1. i \in 1..l
        BY <3>3
      <4>2. QED  BY <2>1, <2>3, <2>4, <3>1, <4>1, InToSet
    <3>4. QED  BY <3>2, <3>3
  <2>6. QED  BY <1>3, <2>2, <2>4, <2>5 DEF ReaderInv
<1>5. CASE k < Len(net.sources)
  <2>1. k' = k + 1 /\ pc' = "source" /\ StartWalk(net.sources[k + 1], 0)
    BY <1>5 DEF EndSource
  <2>2. k + 1 \in 1..Len(net.sources)
    BY <1>1, <1>2, <1>5
  <2>3. net.sources[k + 1] \in Nodes
    BY <1>2, <2>2, ElementOfSeq
  <2>4. WalkFrom(OutEdges(net), net.sources[k + 1], q', prev_map')
    BY <2>1, <2>3, WalkStarts DEF StartWalk
  <2>5. QED  BY <1>1, <1>4, <2>1, <2>2, <2>4 DEF ReaderInv
<1>6. CASE ~(k < Len(net.sources))
  <2>1. k' = 1 /\ pc' = "sink" /\ StartWalk(net.sinks[1], InputWatchdog)
    BY <1>6 DEF EndSource
  <2>2. 1 \in 1..Len(net.sinks)
    BY <1>2
  <2>3. net.sinks[1] \in Nodes
    BY <1>2, <2>2, ElementOfSeq
  <2>4. WalkFrom(InEdges(net), net.sinks[1], q', prev_map')
    BY <2>1, <2>3, WalkStarts DEF StartWalk
  <2>5. QED  BY <1>1, <1>4, <2>1, <2>2, <2>4 DEF ReaderInv
<1>7. QED  BY <1>5, <1>6

LEMMA SourceWalkKeeps == ReaderInv /\ SourceWalk => ReaderInv'
<1> SUFFICES ASSUME ReaderInv, SourceWalk PROVE ReaderInv'
  OBVIOUS
<1> USE DEF Outgoing
<1>1. pc = "source" /\ q # <<>> /\ net' = net /\ conns' = conns
  BY DEF SourceWalk
<1>2. net \in Nets /\ k \in 1..Len(net.sources) /\ WalkFrom(OutEdges(net), net.sources[k], q, prev_map)
  BY <1>1 DEF ReaderInv
<1>3. PICK n : n = Head(q)
  OBVIOUS
<1>4. n \in Nodes /\ (n = net.sources[k] \/ prev_map[n] # NoNode)
  BY <1>1, <1>2, <1>3, HeadOfWalk
<1>5. PICK next : next = IF layer[n] < 0 THEN <<>> ELSE Outgoing(n)
  OBVIOUS
<1>6. next \in Seq(Nodes) /\ \A x \in ToSet(next) : x \in Nodes /\ <<n, x>> \in OutEdges(net)
  <2>1. <<>> \in Seq(Nodes) /\ ToSet(<<>>) = {}
    BY EmptySeq DEF ToSet
  <2>2. QED  BY <1>2, <1>4, <1>5, <2>1, EdgesOut
<1>7. CASE ToSet(next) \cap net.INT = {}
  <2>1. Expand(n, next) /\ UNCHANGED <<pc, k, watchdog, srcPaths>>
    BY <1>3, <1>5, <1>7 DEF SourceWalk
  <2>2. WalkFrom(OutEdges(net), net.sources[k], q', prev_map')
    <3>1. IsAfter(prev_map', prev_map, Head(q), next)
      BY <1>3, <2>1 DEF Expand, PrevAfter, IsAfter
    <3>2. q' = Tail(q) \o next
      BY <2>1 DEF Expand
    <3>3. IsNext(OutEdges(net), Head(q), next)
      BY <1>3, <1>6 DEF IsNext
    <3>4. QED  BY <1>1, <1>2, <1>6, <3>1, <3>2, <3>3, WalkExpands
  <2>3. QED  BY <1>1, <1>2, <2>1, <2>2 DEF ReaderInv
<1>8. CASE ~(ToSet(next) \cap net.INT = {})
  <2>1. PICK before : before = BeforeINT(next)
    OBVIOUS
  <2>2. before \in Seq(Nodes) /\ \A x \in ToSet(before) : <<n, x>> \in OutEdges(net)
    <3> DEFINE T == {j \in 1..Len(next) : next[j] \in net.INT}
    <3>1. T \subseteq Nat /\ T # {}
      <4>1. PICK x \in ToSet(next) : x \in net.INT
        BY <1>8
      <4>2. PICK i \in 1..Len(next) : x = next[i]
        BY <1>6, <4>1, ToSetHas
      <4>3. i \in T
        BY <4>1, <4>2
      <4>4. QED  BY <4>3
    <3>2. PICK f0 \in T : \A j \in T : f0 <= j
      <4> HIDE DEF T
      <4>1. QED  BY <3>1, LeastNumber
    <3> DEFINE First(j) == next[j] \in net.INT /\ \A l \in 1..(j - 1) : next[l] \notin net.INT
    <3>3. f0 \in DOMAIN next /\ First(f0)
      <4>1. \A l \in 1..(f0 - 1) : l \in 1..Len(next) /\ ~(f0 <= l)
        BY <1>6, <3>1, <3>2, LenProperties
      <4>2. QED  BY <1>6, <3>2, <4>1, LenProperties
    <3>4. PICK first : first = CHOOSE j \in DOMAIN next : First(j)
      OBVIOUS
    <3>5. first \in 1..Len(next)
      <4>1. first \in DOMAIN next
        BY <3>3, <3>4
      <4>2. QED  BY <1>6, <4>1, LenProperties
    <3>6. before = SubSeq(next, 1, first - 1)
      BY <2>1, <3>4 DEF BeforeINT
    <3> HIDE DEF T, First
    <3>7. first - 1 \in Int /\ \A i \in 1..(first - 1) : i \in 1..Len(next) /\ next[i] \in Nodes
      <4>1. Len(next) \in Nat
        BY <1>6, LenProperties
      <4>2. \A i \in 1..(first - 1) : i \in 1..Len(next)
        BY <3>5, <4>1
      <4>3. QED  BY <1>6, <3>5, <4>2, ElementOfSeq
    <3>8. /\ before \in Seq(Nodes) /\ Len(before) = IF 1 <= first - 1 THEN (first - 1) - 1 + 1 ELSE 0
          /\ \A i \in 1..((first - 1) - 1 + 1) : before[i] = next[1 + i - 1]
      BY <3>6, <3>7, SubSeqProperties
    <3>9. ASSUME NEW x \in ToSet(before) PROVE <<n, x>> \in OutEdges(net)
      <4>1. PICK i \in 1..Len(before) : x = before[i]
        BY <3>8, ToSetHas
      <4>2. i \in 1..(first - 1) /\ i \in 1..((first - 1) - 1 + 1) /\ 1 + i - 1 = i
        BY <3>5, <3>8, <4>1
      <4>3. x = next[i] /\ i \in 1..Len(next)
        BY <3>7, <3>8, <4>1, <4>2
      <4>4. QED  BY <1>6, <4>3, InToSet
    <3>10. QED  BY <3>8, <3>9
  <2>3. PICK prev : prev = PrevAfter(n, before)
    OBVIOUS
  <2>4. PrevFrom(OutEdges(net), net.sources[k], prev) /\ (n = net.sources[k] \/ prev[n] # NoNode)
    <3>1. IsAfter(prev, prev_map, n, before) /\ IsNext(OutEdges(net), n, before)
      BY <2>2, <2>3 DEF PrevAfter, IsAfter, IsNext
    <3>2. net.sources[k] \in Nodes /\ PrevFrom(OutEdges(net), net.sources[k], prev_map)
      BY <1>2 DEF WalkFrom
    <3>3. PrevFrom(OutEdges(net), net.sources[k], prev) /\ \A x \in Nodes : prev_map[x] # NoNode => prev[x] # NoNode
      BY <1>4, <3>1, <3>2, PrevExpands
    <3>4. QED  BY <1>4, <3>3
  <2>5. PICK trace : trace = Trace(prev, n)
    OBVIOUS
  <2>6. IF Endless(trace) THEN pc' = "hung" /\ UNCHANGED <<k, walkVars, srcPaths>> ELSE EndSource(Reverse(trace))
    BY <1>3, <1>5, <1>8, <2>1, <2>3, <2>5 DEF SourceWalk
  <2>7. CASE Endless(trace)
    <3>1. pc' = "hung" /\ srcPaths' = srcPaths
      BY <2>6, <2>7
    <3>2. QED  BY <1>1, <3>1 DEF ReaderInv
  <2>8. CASE ~Endless(trace)
    <3>1. PICK s : s = net.sources[k]
      OBVIOUS
    <3>2. PICK edges : edges = OutEdges(net)
      OBVIOUS
    <3>3. s \in Nodes /\ PrevFrom(edges, s, prev) /\ (n = s \/ prev[n] # NoNode)
      BY <1>2, <2>4, <3>1, <3>2 DEF WalkFrom
    <3>4. /\ trace \in Seq(Nodes) /\ Len(trace) > 0 /\ trace[Len(trace)] = s
          /\ \A j \in 1..(Len(trace) - 1) : <<trace[j + 1], trace[j]>> \in edges
      <4>1. LeadsBack(edges, trace, n, s)
        BY <1>4, <2>5, <2>8, <3>3, TraceIs
      <4>2. QED  BY <4>1 DEF LeadsBack
    <3>5. PICK path : path = Reverse(trace)
      OBVIOUS
    <3>6. IsPath(net.out, path) /\ path[1] = s
      <4>1. ASSUME NEW j \in 1..(Len(trace) - 1) PROVE trace[j] \in ToSet(net.out[trace[j + 1]])
        BY <3>2, <3>4 DEF OutEdges
      <4>2. Leads(net.out, Reverse(trace), trace[Len(trace)], trace[1], Len(trace))
        BY <3>4, <4>1, ReverseIsPath
      <4>3. QED  BY <3>4, <3>5, <4>2 DEF Leads
    <3>7. path \in Seq(Nodes) /\ Head(path) = s
      BY <3>6 DEF IsPath
    <3>8. s \in ToSet(net.sources)
      <4>1. net.sources \in Seq(Nodes)
        BY <1>2, NetIs
      <4>2. QED  BY <1>2, <3>1, <4>1, InToSet
    <3>9. EndSource(path) /\ UNCHANGED <<net, conns>>
      BY <1>1, <2>6, <2>8, <3>5
    <3>10. QED  BY <1>1, <3>6, <3>7, <3>8, <3>9, EndSourceKeeps
  <2>9. QED  BY <2>7, <2>8
<1>9. QED  BY <1>7, <1>8

LEMMA NoSourcePathKeeps == ReaderInv /\ NoSourcePath => ReaderInv'
<1> SUFFICES ASSUME ReaderInv, NoSourcePath PROVE ReaderInv'
  OBVIOUS
<1>1. <<>> \in Seq(Nodes)
  BY EmptySeq
<1>2. pc = "source" /\ EndSource(<<>>) /\ UNCHANGED <<net, conns>>
  BY DEF NoSourcePath
<1>3. QED  BY <1>1, <1>2, EndSourceKeeps

\* A pin alone is a path.
LEMMA SinglePath ==
  ASSUME NEW out, NEW n \in Nodes
  PROVE  Leads(out, <<n>>, n, n, 1) /\ Head(<<n>>) = n /\ Last(<<n>>) = n /\ <<n>> \in Seq(Nodes)
<1>1. <<n>> \in Seq(Nodes) /\ <<n>> # <<>> /\ Len(<<n>>) = 1 /\ <<n>>[1] = n
  BY EmptySeq
<1>2. QED  BY <1>1 DEF Leads, IsPath, Last

\* The path that counts is that of a source pin.
LEMMA SourcePathIs ==
  ASSUME srcPaths \in Seq(Seq(Nodes)), SourcePath # <<>>
  PROVE  SourcePath \in ToSet(srcPaths)
<1> DEFINE I == {i \in 1..Len(srcPaths) : srcPaths[i] # <<>>}
<1>1. SelectInSeq(srcPaths, LAMBDA p : p # <<>>) = IF I # {} THEN Min(I) ELSE 0
  BY DEF SelectInSeq
<1>2. PICK first : first = SelectInSeq(srcPaths, LAMBDA p : p # <<>>)
  OBVIOUS
<1>3. SourcePath = IF first = 0 THEN <<>> ELSE srcPaths[first]
  BY <1>2 DEF SourcePath
<1>4. I # {} /\ first = Min(I)
  BY <1>1, <1>2, <1>3
<1>5. first \in I
  <2>1. I \subseteq Nat
    OBVIOUS
  <2> HIDE DEF I
  <2>2. \E x \in I : \A y \in I : x <= y
    BY <1>4, <2>1, LeastNumber
  <2>3. QED  BY <1>4, <2>2 DEF Min
<1>6. first \in 1..Len(srcPaths) /\ first # 0
  BY <1>5
<1>7. QED  BY <1>3, <1>6, InToSet

\* One connection more.
LEMMA ConnsAppend ==
  ASSUME NEW x, NEW cs, AreConns(x, cs), NEW c, IsConn(x, c)
  PROVE  AreConns(x, Append(cs, c)) /\ Append(cs, c) # <<>>
<1>1. cs \in Seq(ConnRecs) /\ c \in ConnRecs
  BY DEF AreConns, IsConn
<1>2. PICK s : s = Append(cs, c)
  OBVIOUS
<1>3. PICK l \in Nat : l = Len(cs)
  BY <1>1, LenProperties
<1>4. /\ s \in Seq(ConnRecs) /\ s # <<>> /\ Len(s) = l + 1 /\ s[l + 1] = c
      /\ \A i \in 1..l : s[i] = cs[i]
  BY <1>1, <1>2, <1>3, AppendProperties
<1>5. ASSUME NEW i \in 1..(l + 1) PROVE IsConn(x, s[i])
  <2>1. CASE i = l + 1
    BY <1>4, <2>1
  <2>2. CASE i # l + 1
    <3>1. i \in 1..l
      BY <2>2
    <3>2. QED  BY <1>3, <1>4, <3>1 DEF AreConns
  <2>3. QED  BY <2>1, <2>2
<1>6. QED  BY <1>2, <1>4, <1>5 DEF AreConns

\* The end of the walk from a sink pin makes a connection.
LEMMA EndSinkKeeps ==
  ASSUME ReaderInv, pc = "sink", NEW path \in Seq(Nodes),
         path # <<>> => IsPath(net.out, path) /\ Last(path) = net.sinks[k],
         EndSink(path), UNCHANGED <<net, srcPaths>>
  PROVE  ReaderInv'
<1>1. net \in Nets /\ k \in 1..Len(net.sinks) /\ net' = net /\ srcPaths' = srcPaths
  BY DEF ReaderInv
<1>2. /\ net.sources \in Seq(Nodes) /\ Len(net.sources) \in 1..2
      /\ net.sinks \in Seq(Nodes) /\ Len(net.sinks) \in Nat \ {0}
  BY <1>1, NetIs
<1>3. PICK c : c = Connection(path)
  OBVIOUS
<1>4. CASE c.direct /\ net.sources[1] = net.sinks[k]
  <2>1. pc' = "aborted" /\ UNCHANGED <<k, walkVars, conns>>
    BY <1>3, <1>4 DEF EndSink
  <2>2. QED  BY <1>1, <2>1 DEF ReaderInv
<1>5. CASE ~(c.direct /\ net.sources[1] = net.sinks[k])
  <2>1. /\ conns' = Append(conns, c)
        /\ IF k < Len(net.sinks)
           THEN k' = k + 1 /\ pc' = pc /\ StartWalk(net.sinks[k + 1], InputWatchdog)
           ELSE k' = 1 /\ pc' = "route" /\ EndWalk
    BY <1>3, <1>5 DEF EndSink
  <2>2. /\ net.sinks[k] \in Nodes /\ net.sinks[k] \in ToSet(net.sinks)
        /\ net.sources[1] \in Nodes /\ net.sources[1] \in ToSet(net.sources)
    <3>0. PICK l : l = Len(net.sources)
      OBVIOUS
    <3>3. l \in 1..2
      BY <1>2, <3>0
    <3>1. 1 \in 1..l
      BY <3>3
    <3>2. QED  BY <1>1, <1>2, <3>0, <3>1, InToSet
  <2>3. <<>> \in Seq(Nodes)
    BY EmptySeq
  <2>4. IsConn(net, c)
    <3>1. CASE path # <<>> /\ SourcePath # <<>>
      <4>1. PICK s : s = SourcePath
        OBVIOUS
      <4>2. c = [direct |-> FALSE, sourceToIntPath |-> s, rnodes |-> <<>>, intToSinkPath |-> path]
        BY <1>3, <3>1, <4>1 DEF Connection
      <4>3. IsPath(net.out, s) /\ Head(s) \in ToSet(net.sources)
        BY <3>1, <4>1, SourcePathIs DEF ReaderInv
      <4>4. s \in Seq(Nodes)
        BY <4>3 DEF IsPath
      <4>5. c \in ConnRecs
        BY <2>3, <4>2, <4>4 DEF ConnRecs
      <4>6. IsPath(net.out, path) /\ Last(path) \in ToSet(net.sinks)
        BY <2>2, <3>1
      <4>7. ~c.direct /\ c.sourceToIntPath = s /\ c.rnodes = <<>> /\ c.intToSinkPath = path
        BY <4>2
      <4>8. QED  BY <4>3, <4>5, <4>6, <4>7 DEF IsConn
    <3>2. CASE ~(path # <<>> /\ SourcePath # <<>>)
      <4>1. PICK n \in Nodes : n = net.sources[1]
        BY <2>2
      <4>2. PICK m \in Nodes : m = net.sinks[k]
        BY <2>2
      <4>3. c = [direct |-> TRUE, sourceToIntPath |-> <<n>>, rnodes |-> <<>>, intToSinkPath |-> <<m>>]
        BY <1>3, <3>2, <4>1, <4>2 DEF Connection
      <4>4. /\ Leads(net.out, <<n>>, n, n, 1) /\ Head(<<n>>) = n /\ <<n>> \in Seq(Nodes)
            /\ Leads(net.out, <<m>>, m, m, 1) /\ Last(<<m>>) = m /\ <<m>> \in Seq(Nodes)
        BY SinglePath
      <4>5. c \in ConnRecs
        BY <2>3, <4>3, <4>4 DEF ConnRecs
      <4>6. c.direct /\ c.sourceToIntPath = <<n>> /\ c.rnodes = <<>> /\ c.intToSinkPath = <<m>>
        BY <4>3
      <4>7. n # m /\ n \in ToSet(net.sources) /\ m \in ToSet(net.sinks)
        BY <1>5, <2>2, <4>1, <4>2, <4>6
      <4>8. /\ IsPath(net.out, <<n>>) /\ Len(<<n>>) = 1 /\ IsPath(net.out, <<m>>) /\ Len(<<m>>) = 1
        BY <4>4 DEF Leads
      <4>9. QED  BY <4>4, <4>5, <4>6, <4>7, <4>8 DEF IsConn
    <3>3. QED  BY <3>1, <3>2
  <2>5. AreConns(net, conns') /\ conns' # <<>>
    <3>1. AreConns(net, conns)
      BY DEF ReaderInv
    <3>2. QED  BY <2>1, <2>4, <3>1, ConnsAppend
  <2>6. CASE k < Len(net.sinks)
    <3>1. k' = k + 1 /\ pc' = "sink" /\ StartWalk(net.sinks[k + 1], InputWatchdog)
      BY <2>1, <2>6
    <3>2. k + 1 \in 1..Len(net.sinks)
      BY <1>1, <1>2, <2>6
    <3>3. net.sinks[k + 1] \in Nodes
      BY <1>2, <3>2, ElementOfSeq
    <3>4. WalkFrom(InEdges(net), net.sinks[k + 1], q', prev_map')
      BY <3>1, <3>3, WalkStarts DEF StartWalk
    <3>5. QED  BY <1>1, <2>5, <3>1, <3>2, <3>4 DEF ReaderInv
  <2>7. CASE ~(k < Len(net.sinks))
    <3>1. k' = 1 /\ pc' = "route"
      BY <2>1, <2>7
    <3>2. QED  BY <1>1, <2>5, <3>1 DEF ReaderInv
  <2>8. QED  BY <2>6, <2>7
<1>6. QED  BY <1>4, <1>5

LEMMA NoSinkPathKeeps == ReaderInv /\ NoSinkPath => ReaderInv'
<1> SUFFICES ASSUME ReaderInv, NoSinkPath PROVE ReaderInv'
  OBVIOUS
<1>1. <<>> \in Seq(Nodes)
  BY EmptySeq
<1>2. pc = "sink" /\ EndSink(<<>>) /\ UNCHANGED <<net, srcPaths>>
  BY DEF NoSinkPath
<1>3. QED  BY <1>1, <1>2, EndSinkKeeps

\* The nodes uphill of n lead to n.
LEMMA UphillIs ==
  ASSUME net \in Nets, NEW n \in Nodes
  PROVE  /\ Uphill(n) \in Seq(Nodes)
         /\ \A m \in ToSet(Uphill(n)) : n \in ToSet(net.out[m])
<1>1. PICK in : in = Incoming(n)
  OBVIOUS
<1>2. in \in Seq(Nodes) /\ \A m \in Nodes : m \in ToSet(in) <=> n \in ToSet(net.out[m])
  BY <1>1, ReaderAssumption DEF Incoming
<1>3. PICK l \in Nat : l = Len(in) /\ DOMAIN in = 1..l
  BY <1>2, LenProperties
<1>4. PICK ss : ss = [j \in DOMAIN in |-> IF Incoming(in[j]) = <<>> THEN <<>> ELSE <<in[j]>>]
  OBVIOUS
<1>5. ASSUME NEW j \in 1..l
      PROVE  ss[j] \in Seq(Nodes) /\ in[j] \in Nodes /\ \A m \in ToSet(ss[j]) : m = in[j]
  <2>1. in[j] \in Nodes
    BY <1>2, <1>3, ElementOfSeq
  <2>2. PICK m \in Nodes : m = in[j]
    BY <2>1
  <2>3. CASE ss[j] = <<>>
    <3>1. <<>> \in Seq(Nodes) /\ \A e : e \notin ToSet(<<>>)
      BY EmptySeq DEF ToSet
    <3>2. QED  BY <2>1, <2>3, <3>1
  <2>4. CASE ss[j] = <<m>>
    <3>1. <<m>> \in Seq(Nodes) /\ \A e : e \in ToSet(<<m>>) <=> e = m
      BY DEF ToSet
    <3>2. QED  BY <2>1, <2>2, <2>4, <3>1
  <2>5. QED  BY <1>3, <1>4, <2>2, <2>3, <2>4
<1>6. ss \in Seq(Seq(Nodes)) /\ Len(ss) = l
  <2>1. ss = [j \in 1..l |-> ss[j]]
    BY <1>3, <1>4
  <2>2. ss \in [1..l -> Seq(Nodes)]
    BY <1>5, <2>1
  <2>3. QED  BY <2>2
<1>7. /\ FlattenSeq(ss) \in Seq(Nodes)
      /\ \A m : m \in ToSet(FlattenSeq(ss)) <=> \E j \in 1..l : m \in ToSet(ss[j])
  BY <1>6, FlattenElements
<1>8. Uphill(n) = FlattenSeq(ss)
  BY <1>1, <1>4 DEF Uphill
<1>9. ASSUME NEW m, m \in ToSet(FlattenSeq(ss)) PROVE n \in ToSet(net.out[m])
  <2>1. PICK j \in 1..l : m \in ToSet(ss[j])
    BY <1>7, <1>9
  <2>2. m = in[j] /\ m \in Nodes
    BY <1>5, <2>1
  <2>3. m \in ToSet(in)
    BY <1>3, <2>2 DEF ToSet
  <2>4. QED  BY <1>2, <2>2, <2>3
<1>10. QED  BY <1>7, <1>8, <1>9

LEMMA SinkWalkKeeps == ReaderInv /\ SinkWalk => ReaderInv'
<1> SUFFICES ASSUME ReaderInv, SinkWalk PROVE ReaderInv'
  OBVIOUS
<1>1. pc = "sink" /\ q # <<>> /\ net' = net /\ srcPaths' = srcPaths
  BY DEF SinkWalk
<1>2. net \in Nets /\ k \in 1..Len(net.sinks) /\ WalkFrom(InEdges(net), net.sinks[k], q, prev_map)
  BY <1>1 DEF ReaderInv
<1>3. PICK n : n = Head(q)
  OBVIOUS
<1>4. n \in Nodes /\ (n = net.sinks[k] \/ prev_map[n] # NoNode)
  BY <1>1, <1>2, <1>3, HeadOfWalk
<1>5. PICK next : next = Uphill(n)
  OBVIOUS
<1>6. IF n \in net.INT
      THEN \E trace \in {Trace(prev_map, n)} :
             IF Endless(trace) THEN pc' = "hung" /\ UNCHANGED <<k, walkVars, conns>>
                               ELSE EndSink(trace)
      ELSE IF watchdog = 0
           THEN EndSink(<<>>)
           ELSE Expand(n, next) /\ watchdog' = watchdog - 1 /\ UNCHANGED <<pc, k, conns>>
  BY <1>3, <1>5 DEF SinkWalk
<1>7. CASE n \in net.INT
  <2>1. PICK trace : trace = Trace(prev_map, n)
    OBVIOUS
  <2>2. IF Endless(trace) THEN pc' = "hung" /\ UNCHANGED <<k, walkVars, conns>> ELSE EndSink(trace)
    BY <1>6, <1>7, <2>1
  <2>3. CASE Endless(trace)
    <3>1. pc' = "hung" /\ conns' = conns
      BY <2>2, <2>3
    <3>2. QED  BY <1>1, <3>1 DEF ReaderInv
  <2>4. CASE ~Endless(trace)
    <3>1. PICK s : s = net.sinks[k]
      OBVIOUS
    <3>2. PICK edges : edges = InEdges(net)
      OBVIOUS
    <3>3. s \in Nodes /\ PrevFrom(edges, s, prev_map) /\ (n = s \/ prev_map[n] # NoNode)
      BY <1>2, <1>4, <3>1, <3>2 DEF WalkFrom
    <3>4. LeadsBack(edges, trace, n, s)
      BY <1>4, <2>1, <2>4, <3>3, TraceIs
    <3>5. /\ trace \in Seq(Nodes) /\ Len(trace) > 0 /\ trace[Len(trace)] = s
          /\ \A j \in 1..(Len(trace) - 1) : trace[j + 1] \in ToSet(net.out[trace[j]])
      <4>1. ASSUME NEW j \in 1..(Len(trace) - 1) PROVE trace[j + 1] \in ToSet(net.out[trace[j]])
        BY <3>2, <3>4 DEF InEdges, LeadsBack
      <4>2. QED  BY <3>4, <4>1 DEF LeadsBack
    <3>6. IsPath(net.out, trace) /\ Last(trace) = s
      BY <3>5, EmptySeq DEF IsPath, Last
    <3>7. EndSink(trace) /\ UNCHANGED <<net, srcPaths>>
      BY <1>1, <2>2, <2>4
    <3>8. QED  BY <1>1, <3>1, <3>5, <3>6, <3>7, EndSinkKeeps
  <2>5. QED  BY <2>3, <2>4
<1>8. CASE n \notin net.INT /\ watchdog = 0
  <2>1. EndSink(<<>>) /\ UNCHANGED <<net, srcPaths>>
    BY <1>1, <1>6, <1>8
  <2>2. <<>> \in Seq(Nodes)
    BY EmptySeq
  <2>3. QED  BY <1>1, <2>1, <2>2, EndSinkKeeps
<1>9. CASE n \notin net.INT /\ watchdog # 0
  <2>1. Expand(n, next) /\ UNCHANGED <<pc, k, conns>>
    BY <1>6, <1>9
  <2>2. IsNext(InEdges(net), n, next)
    <3>1. next \in Seq(Nodes) /\ \A m \in ToSet(next) : n \in ToSet(net.out[m])
      BY <1>2, <1>4, <1>5, UphillIs
    <3>2. \A m \in ToSet(next) : <<n, m>> \in InEdges(net)
      BY <1>4, <3>1 DEF InEdges, ToSet
    <3>3. QED  BY <3>1, <3>2 DEF IsNext
  <2>3. WalkFrom(InEdges(net), net.sinks[k], q', prev_map')
    <3>1. IsAfter(prev_map', prev_map, Head(q), next)
      BY <1>3, <2>1 DEF Expand, PrevAfter, IsAfter
    <3>2. q' = Tail(q) \o next
      BY <2>1 DEF Expand
    <3>3. IsNext(InEdges(net), Head(q), next)
      BY <1>3, <2>2
    <3>4. QED  BY <1>1, <1>2, <3>1, <3>2, <3>3, WalkExpands
  <2>4. QED  BY <1>1, <1>2, <2>1, <2>3 DEF ReaderInv
<1>10. QED  BY <1>7, <1>8, <1>9

\* One connection with its route.
LEMMA ConnsExcept ==
  ASSUME NEW x, NEW cs, AreConns(x, cs), NEW i \in 1..Len(cs), NEW r, r \in Seq(Nodes),
         r # <<>> => /\ IsRoute(x.out, r) /\ Head(r) = Head(cs[i].intToSinkPath)
                     /\ Last(r) = Last(cs[i].sourceToIntPath)
  PROVE  AreConns(x, [cs EXCEPT ![i].rnodes = r])
<1>1. cs \in Seq(ConnRecs)
  BY DEF AreConns
<1>2. PICK l \in Nat : l = Len(cs)
  BY <1>1, LenProperties
<1>3. PICK c : c = [cs[i] EXCEPT !.rnodes = r]
  OBVIOUS
<1>4. cs[i] \in ConnRecs /\ IsConn(x, cs[i])
  BY <1>1, ElementOfSeq DEF AreConns
<1>5. /\ c \in ConnRecs /\ c.direct = cs[i].direct /\ c.sourceToIntPath = cs[i].sourceToIntPath
      /\ c.intToSinkPath = cs[i].intToSinkPath /\ c.rnodes = r
  BY <1>3, <1>4 DEF ConnRecs
<1>6. IsConn(x, c)
  BY <1>4, <1>5 DEF IsConn
<1>7. PICK s : s = [cs EXCEPT ![i].rnodes = r]
  OBVIOUS
<1>8. s = [cs EXCEPT ![i] = c]
  BY <1>3, <1>7
<1>9. /\ s \in Seq(ConnRecs) /\ Len(s) = l /\ s[i] = c
      /\ \A j \in 1..l : j # i => s[j] = cs[j]
  BY <1>1, <1>2, <1>5, <1>8, ExceptSeq
<1>10. ASSUME NEW j \in 1..l PROVE IsConn(x, s[j])
  BY <1>2, <1>6, <1>9 DEF AreConns
<1>11. QED  BY <1>7, <1>9, <1>10 DEF AreConns

\* The end of the routing of a connection, with or without a route.
LEMMA EndRouteKeeps ==
  ASSUME ReaderInv, pc \in {"route", "direct"}, k \in 1..Len(conns), NEW r \in Seq(Nodes),
         r # <<>> => /\ IsRoute(net.out, r) /\ Head(r) = Head(conns[k].intToSinkPath)
                     /\ Last(r) = Last(conns[k].sourceToIntPath),
         EndRoute(r), UNCHANGED <<net, srcPaths>>
  PROVE  ReaderInv'
<1>1. /\ AreConns(net, conns) /\ net' = net /\ srcPaths' = srcPaths
      /\ conns' = [conns EXCEPT ![k].rnodes = r] /\ k' = k + 1 /\ pc' = "route"
  BY DEF ReaderInv, EndRoute
<1>2. AreConns(net, conns')
  BY <1>1, ConnsExcept
<1>3. conns' # <<>>
  <2>1. conns' \in Seq(ConnRecs) /\ conns \in Seq(ConnRecs)
    BY <1>1, <1>2 DEF AreConns
  <2>2. DOMAIN conns' = DOMAIN conns
    BY <1>1
  <2>3. Len(conns') = Len(conns)
    BY <2>1, <2>2, LenProperties
  <2>4. Len(conns) # 0
    <3>1. Len(conns) \in Nat
      BY <2>1, LenProperties
    <3>2. QED  BY <3>1
  <2>5. QED  BY <2>1, <2>3, <2>4, EmptySeq
<1>4. k + 1 \in Nat \ {0}
  OBVIOUS
<1>5. QED  BY <1>1, <1>2, <1>3, <1>4 DEF ReaderInv

\* The ends of the connection that is routed.
LEMMA EndsAre ==
  ASSUME ReaderInv, k \in 1..Len(conns)
  PROVE  /\ IsConn(net, conns[k])
         /\ Head(conns[k].intToSinkPath) \in Nodes /\ Last(conns[k].sourceToIntPath) \in Nodes
         /\ Last(conns[k].intToSinkPath) \in Nodes
         /\ conns[k].direct => /\ Source = Last(conns[k].sourceToIntPath) /\ Source \in Nodes
                               /\ Sink = Head(conns[k].intToSinkPath) /\ Sink \in Nodes /\ Source # Sink
<1>1. PICK c : c = conns[k]
  OBVIOUS
<1>2. IsConn(net, c)
  BY <1>1 DEF ReaderInv, AreConns
<1>3. PICK s : s = c.sourceToIntPath
  OBVIOUS
<1>4. PICK t : t = c.intToSinkPath
  OBVIOUS
<1>5. /\ s \in Seq(Nodes) /\ s # <<>> /\ t \in Seq(Nodes) /\ t # <<>>
      /\ (c.direct => Len(s) = 1 /\ Len(t) = 1 /\ Head(s) # Last(t))
  BY <1>2, <1>3, <1>4 DEF IsConn, IsPath
<1>6. Len(s) \in Nat \ {0} /\ Len(t) \in Nat \ {0}
  BY <1>5, EmptySeq
<1>7. 1 \in 1..Len(s) /\ Len(s) \in 1..Len(s) /\ 1 \in 1..Len(t) /\ Len(t) \in 1..Len(t)
  BY <1>6
<1>8. s[1] \in Nodes /\ s[Len(s)] \in Nodes /\ t[1] \in Nodes /\ t[Len(t)] \in Nodes
  BY <1>5, <1>7, ElementOfSeq
<1>9. Head(s) = s[1] /\ Last(s) = s[Len(s)] /\ Head(t) = t[1] /\ Last(t) = t[Len(t)]
  BY <1>5 DEF Last
<1>10. Source = Head(s) /\ Sink = Last(t)
  BY <1>1, <1>3, <1>4 DEF Source, Sink
<1>11. QED  BY <1>1, <1>2, <1>3, <1>4, <1>5, <1>8, <1>9, <1>10

LEMMA RouteIndirectKeeps == ReaderInv /\ RouteIndirect => ReaderInv'
<1> SUFFICES ASSUME ReaderInv, RouteIndirect PROVE ReaderInv'
  OBVIOUS
<1>1. pc = "route" /\ k <= Len(conns) /\ UNCHANGED <<net, srcPaths>> /\ net \in Nets
  BY DEF RouteIndirect, ReaderInv
<1>2. k \in 1..Len(conns)
  <2>1. k \in Nat \ {0} /\ conns \in Seq(ConnRecs)
    BY <1>1 DEF ReaderInv, AreConns
  <2>2. QED  BY <1>1, <2>1, LenProperties
<1>3. PICK r \in Routes(conns[k]) : EndRoute(r)
  BY DEF RouteIndirect
<1>4. PICK m \in Nodes : m = Head(conns[k].intToSinkPath)
  BY <1>2, EndsAre
<1>5. PICK n \in Nodes : n = Last(conns[k].sourceToIntPath)
  BY <1>2, EndsAre
<1>6. PICK w : /\ \E j \in 0..Wires[Last(conns[k].intToSinkPath)] : w \in [1..j -> net.INT]
               /\ r = <<m>> \o w \o <<n>>
               /\ \A j \in 1..(Len(r) - 1) : r[j] \in ToSet(Outgoing(r[j + 1]))
  BY <1>3, <1>4, <1>5 DEF Routes
<1>7. PICK j \in Nat : w \in [1..j -> net.INT]
  <2>1. PICK h : h = Last(conns[k].intToSinkPath)
    OBVIOUS
  <2>2. Wires[h] \in Nat
    BY <1>2, <2>1, EndsAre, ReaderAssumption
  <2>3. PICK j \in 0..Wires[h] : w \in [1..j -> net.INT]
    BY <1>6, <2>1
  <2>4. j \in Nat
    BY <2>2
  <2>5. QED  BY <2>3, <2>4
<1>8. w \in Seq(Nodes) /\ Len(w) = j
  <2>1. net.INT \subseteq Nodes
    BY <1>1, NetIs
  <2>2. w \in [1..j -> Nodes]
    BY <1>7, <2>1
  <2>3. QED  BY <2>2
<1>9. /\ <<m>> \in Seq(Nodes) /\ Len(<<m>>) = 1 /\ <<m>>[1] = m
      /\ <<n>> \in Seq(Nodes) /\ Len(<<n>>) = 1 /\ <<n>>[1] = n
  OBVIOUS
<1>10. PICK a : a = <<m>> \o w
  OBVIOUS
<1>11. a \in Seq(Nodes) /\ Len(a) = 1 + j /\ a[1] = m
  <2>1. /\ <<m>> \o w \in Seq(Nodes) /\ Len(<<m>> \o w) = Len(<<m>>) + Len(w)
        /\ \A i \in 1..(Len(<<m>>) + Len(w)) : (<<m>> \o w)[i] = IF i <= Len(<<m>>) THEN <<m>>[i] ELSE w[i - Len(<<m>>)]
    BY <1>8, <1>9, ConcatProperties
  <2>2. QED  BY <1>8, <1>9, <1>10, <2>1
<1>12. r \in Seq(Nodes) /\ Len(r) = j + 2 /\ r[1] = m /\ r[j + 2] = n
  <2>1. /\ a \o <<n>> \in Seq(Nodes) /\ Len(a \o <<n>>) = Len(a) + Len(<<n>>)
        /\ \A i \in 1..(Len(a) + Len(<<n>>)) : (a \o <<n>>)[i] = IF i <= Len(a) THEN a[i] ELSE <<n>>[i - Len(a)]
    BY <1>9, <1>11, ConcatProperties
  <2>2. r = a \o <<n>>
    BY <1>6, <1>10
  <2>3. /\ r \in Seq(Nodes) /\ Len(r) = j + 2
        /\ \A i \in 1..(j + 2) : r[i] = IF i <= 1 + j THEN a[i] ELSE <<n>>[i - (1 + j)]
    BY <1>9, <1>11, <2>1, <2>2
  <2>4. 1 \in 1..(j + 2) /\ j + 2 \in 1..(j + 2) /\ ~(j + 2 <= 1 + j) /\ (j + 2) - (1 + j) = 1
    OBVIOUS
  <2>5. QED  BY <1>9, <1>11, <2>3, <2>4
<1>13. IsRoute(net.out, r)
  BY <1>6, <1>12 DEF IsRoute, Outgoing
<1>14. r # <<>> /\ Head(r) = m /\ Last(r) = n
  BY <1>12, EmptySeq DEF Last
<1>15. QED  BY <1>1, <1>2, <1>3, <1>4, <1>5, <1>12, <1>13, <1>14, EndRouteKeeps

LEMMA StartDirectKeeps == ReaderInv /\ StartDirect => ReaderInv'
<1> SUFFICES ASSUME ReaderInv, StartDirect PROVE ReaderInv'
  OBVIOUS
<1>1. pc = "route" /\ k <= Len(conns) /\ conns[k].direct /\ UNCHANGED <<net, srcPaths>>
  BY DEF StartDirect
<1>2. k \in 1..Len(conns)
  <2>1. k \in Nat \ {0} /\ conns \in Seq(ConnRecs)
    BY <1>1 DEF ReaderInv, AreConns
  <2>2. QED  BY <1>1, <2>1, LenProperties
<1>3. PICK n \in Nodes : n = Source
  BY <1>1, <1>2, EndsAre
<1>4. PICK m \in Nodes : m = Sink
  BY <1>1, <1>2, EndsAre
<1>5. n = Last(conns[k].sourceToIntPath) /\ m = Head(conns[k].intToSinkPath)
  BY <1>1, <1>2, <1>3, <1>4, EndsAre
<1>6. CASE m \in ToSet(Outgoing(n))
  <2>1. EndRoute(<<m, n>>)
    BY <1>3, <1>4, <1>6 DEF StartDirect
  <2>2. PICK r : r = <<m, n>>
    OBVIOUS
  <2>3. r \in Seq(Nodes) /\ Len(r) = 2 /\ r[1] = m /\ r[2] = n
    BY <2>2
  <2>4. IsRoute(net.out, r)
    <3>1. \A j \in 1..(Len(r) - 1) : j = 1
      BY <2>3
    <3>2. QED  BY <1>6, <2>3, <3>1 DEF IsRoute, Outgoing
  <2>5. Head(r) = m /\ Last(r) = n
    BY <2>3, EmptySeq DEF Last
  <2>6. QED  BY <1>1, <1>2, <1>5, <2>1, <2>2, <2>3, <2>4, <2>5, EndRouteKeeps
<1>7. CASE ~(m \in ToSet(Outgoing(n)))
  <2>1. pc' = "direct" /\ StartWalk(n, DirectWatchdog) /\ UNCHANGED <<k, conns>>
    BY <1>3, <1>4, <1>7 DEF StartDirect
  <2>2. WalkFrom(OutEdges(net), n, q', prev_map')
    BY <2>1, WalkStarts DEF StartWalk
  <2>3. n = Head(conns[k].sourceToIntPath)
    BY <1>3 DEF Source
  <2>4. QED  BY <1>1, <1>2, <2>1, <2>2, <2>3 DEF ReaderInv
<1>8. QED  BY <1>6, <1>7

LEMMA NoDirectRouteKeeps == ReaderInv /\ NoDirectRoute => ReaderInv'
<1> SUFFICES ASSUME ReaderInv, NoDirectRoute PROVE ReaderInv'
  OBVIOUS
<1>1. <<>> \in Seq(Nodes)
  BY EmptySeq
<1>2. pc = "direct" /\ EndRoute(<<>>) /\ UNCHANGED <<net, srcPaths>> /\ k \in 1..Len(conns)
  BY DEF NoDirectRoute, ReaderInv
<1>3. QED  BY <1>1, <1>2, EndRouteKeeps

LEMMA DirectWalkKeeps == ReaderInv /\ DirectWalk => ReaderInv'
<1> SUFFICES ASSUME ReaderInv, DirectWalk PROVE ReaderInv'
  OBVIOUS
<1>1. pc = "direct" /\ q # <<>> /\ net' = net /\ srcPaths' = srcPaths
  BY DEF DirectWalk
<1>2. /\ net \in Nets /\ k \in 1..Len(conns) /\ conns[k].direct
      /\ WalkFrom(OutEdges(net), Head(conns[k].sourceToIntPath), q, prev_map)
  BY <1>1 DEF ReaderInv
<1>3. PICK n : n = Head(q)
  OBVIOUS
<1>4. PICK s : s = Head(conns[k].sourceToIntPath)
  OBVIOUS
<1>5. PICK edges : edges = OutEdges(net)
  OBVIOUS
<1>6. WalkFrom(edges, s, q, prev_map)
  BY <1>2, <1>4, <1>5
<1>7. n \in Nodes /\ (n = s \/ prev_map[n] # NoNode)
  BY <1>1, <1>3, <1>6, HeadOfWalk
<1>8. IF n = Sink
      THEN \E trace \in {Trace(prev_map, n)} :
             IF Endless(trace) THEN pc' = "hung" /\ UNCHANGED <<k, walkVars, conns>>
                               ELSE EndRoute(trace)
      ELSE IF watchdog = 0
           THEN EndRoute(<<>>)
           ELSE Expand(n, Outgoing(n)) /\ watchdog' = watchdog - 1 /\ UNCHANGED <<pc, k, conns>>
  BY <1>3 DEF DirectWalk
<1>9. CASE n = Sink
  <2>1. PICK trace : trace = Trace(prev_map, n)
    OBVIOUS
  <2>2. IF Endless(trace) THEN pc' = "hung" /\ UNCHANGED <<k, walkVars, conns>> ELSE EndRoute(trace)
    BY <1>8, <1>9, <2>1
  <2>3. CASE Endless(trace)
    <3>1. pc' = "hung" /\ conns' = conns
      BY <2>2, <2>3
    <3>2. QED  BY <1>1, <3>1 DEF ReaderInv
  <2>4. CASE ~Endless(trace)
    <3>1. s \in Nodes /\ PrevFrom(edges, s, prev_map)
      BY <1>6 DEF WalkFrom
    <3>2. LeadsBack(edges, trace, n, s)
      BY <1>7, <2>1, <2>4, <3>1, TraceIs
    <3>3. /\ trace \in Seq(Nodes) /\ Len(trace) > 0 /\ trace[1] = n /\ trace[Len(trace)] = s
          /\ \A j \in 1..(Len(trace) - 1) : trace[j] \in ToSet(net.out[trace[j + 1]])
      <4>1. ASSUME NEW j \in 1..(Len(trace) - 1) PROVE trace[j] \in ToSet(net.out[trace[j + 1]])
        BY <1>5, <3>2 DEF OutEdges, LeadsBack
      <4>2. QED  BY <3>2, <4>1 DEF LeadsBack
    <3>4. /\ n = Head(conns[k].intToSinkPath) /\ s = Last(conns[k].sourceToIntPath) /\ n # s
      <4>1. s = Source
        BY <1>4 DEF Source
      <4>2. QED  BY <1>2, <1>9, <4>1, EndsAre
    <3>5. Len(trace) > 1
      <4>1. PICK l \in Nat : l = Len(trace)
        BY <3>3, LenProperties
      <4>2. l > 0 /\ l # 1
        BY <3>3, <3>4, <4>1
      <4>3. QED  BY <4>1, <4>2
    <3>6. IsRoute(net.out, trace) /\ Head(trace) = n /\ Last(trace) = s
      BY <3>3, <3>5, EmptySeq DEF IsRoute, Last
    <3>7. EndRoute(trace) /\ UNCHANGED <<net, srcPaths>>
      BY <1>1, <2>2, <2>4
    <3>8. QED  BY <1>1, <1>2, <3>3, <3>4, <3>6, <3>7, EndRouteKeeps
  <2>5. QED  BY <2>3, <2>4
<1>10. CASE n # Sink /\ watchdog = 0
  <2>1. EndRoute(<<>>) /\ UNCHANGED <<net, srcPaths>>
    BY <1>1, <1>8, <1>10
  <2>2. <<>> \in Seq(Nodes)
    BY EmptySeq
  <2>3. QED  BY <1>1, <1>2, <2>1, <2>2, EndRouteKeeps
<1>11. CASE n # Sink /\ watchdog # 0
  <2>1. PICK next : next = Outgoing(n)
    OBVIOUS
  <2>2. Expand(n, next) /\ UNCHANGED <<pc, k, conns>>
    BY <1>8, <1>11, <2>1
  <2>3. IsNext(edges, n, next)
    BY <1>2, <1>5, <1>7, <2>1, EdgesOut DEF IsNext, Outgoing
  <2>4. WalkFrom(edges, s, q', prev_map')
    <3>1. IsAfter(prev_map', prev_map, Head(q), next)
      BY <1>3, <2>2 DEF Expand, PrevAfter, IsAfter
    <3>2. q' = Tail(q) \o next
      BY <2>2 DEF Expand
    <3>3. IsNext(edges, Head(q), next)
      BY <1>3, <2>3
    <3>4. QED  BY <1>1, <1>6, <3>1, <3>2, <3>3, WalkExpands
  <2>5. QED  BY <1>1, <1>2, <1>4, <1>5, <2>2, <2>4 DEF ReaderInv
<1>12. QED  BY <1>9, <1>10, <1>11

\* Every step of the reader.
LEMMA ReaderStep == ReaderInv /\ ReaderNext => ReaderInv'
BY SourceWalkKeeps, NoSourcePathKeeps, SinkWalkKeeps, NoSinkPathKeeps,
   RouteIndirectKeeps, StartDirectKeeps, DirectWalkKeeps, NoDirectRouteKeeps DEF ReaderNext

\* The walk from the first source pin starts.
LEMMA ReaderStart == Init => ReaderInv
<1> SUFFICES ASSUME Init PROVE ReaderInv
  OBVIOUS
<1>1. net \in Nets /\ pc = "source" /\ k = 1 /\ q = <<net.sources[1]>> /\ srcPaths = <<>> /\ conns = <<>>
  BY DEF Init, ReaderInit
<1>2. PICK l : l = Len(net.sources)
  OBVIOUS
<1>3. l \in 1..2 /\ net.sources \in Seq(Nodes)
  BY <1>1, <1>2, NetIs
<1>4. 1 \in 1..l
  BY <1>3
<1>5. net.sources[1] \in Nodes
  BY <1>2, <1>3, <1>4, ElementOfSeq
<1>6. WalkFrom(OutEdges(net), net.sources[k], q, prev_map)
  BY <1>1, <1>5, WalkStarts DEF Init, ReaderInit
<1>7. srcPaths \in Seq(Seq(Nodes)) /\ ToSet(srcPaths) = {}
  BY <1>1, EmptySeq DEF ToSet
<1>8. AreConns(net, conns)
  BY <1>1, EmptySeq DEF AreConns
<1>9. QED  BY <1>1, <1>2, <1>4, <1>6, <1>7, <1>8 DEF ReaderInv

\* Sorting the connections keeps them what they are.
LEMMA OrderKeeps ==
  ASSUME NEW x, AreConns(x, conns), conns # <<>>
  PROVE  AreConns(x, SaveOrder) /\ SaveOrder # <<>> /\ ToSet(SaveOrder) = ToSet(conns)
<1>1. conns \in Seq(ConnRecs)
  BY DEF AreConns
<1>2. PICK s : s = SaveOrder
  OBVIOUS
<1>3. s \in Seq(ConnRecs) /\ ToSet(s) = ToSet(conns)
  BY <1>1, <1>2, SaveOrderIs
<1>4. ASSUME NEW i \in 1..Len(s) PROVE IsConn(x, s[i])
  <2>1. s[i] \in ToSet(conns)
    BY <1>3, InToSet
  <2>2. PICK j \in 1..Len(conns) : s[i] = conns[j]
    BY <1>1, <2>1, ToSetHas
  <2>3. QED  BY <2>2 DEF AreConns
<1>5. s # <<>>
  <2>1. Len(conns) \in Nat \ {0}
    BY <1>1, EmptySeq
  <2>2. PICK l : l = Len(conns)
    OBVIOUS
  <2>3. 1 \in 1..l
    BY <2>1, <2>2
  <2>4. conns[1] \in ToSet(s)
    BY <1>1, <1>3, <2>2, <2>3, InToSet
  <2>5. PICK j \in 1..Len(s) : conns[1] = s[j]
    BY <1>3, <2>4, ToSetHas
  <2>6. QED  BY <2>5, EmptySeq
<1>6. QED  BY <1>2, <1>3, <1>4, <1>5 DEF AreConns

\* After the reader, its variables stay as they are.
LEMMA LaterKeeps ==
  ReaderInv /\ pc \notin {"source", "sink", "hung", "aborted"} /\ pc' \notin ReaderPcs
    /\ UNCHANGED <<net, srcPaths, conns>> => ReaderInv'
BY DEF ReaderInv, ReaderPcs

\* Every step after the reader.
LEMMA SaveSteps ==
  ReaderInv /\ Next /\ ~ReaderNext => ReaderInv'
<1> SUFFICES ASSUME ReaderInv, Next, ~ReaderNext PROVE ReaderInv'
  OBVIOUS
<1> USE DEF settled, readerVars, ReaderPcs
<1>1. CASE StartSave
  <2>1. /\ pc = "route" /\ pc' = "save" /\ conns' = SaveOrder /\ net' = net /\ srcPaths' = srcPaths
    BY <1>1 DEF StartSave
  <2>2. AreConns(net, conns) /\ conns # <<>>
    BY <2>1 DEF ReaderInv
  <2>3. AreConns(net, conns') /\ conns' # <<>>
    BY <2>1, <2>2, OrderKeeps
  <2>4. QED  BY <2>1, <2>3 DEF ReaderInv
<1>2. CASE SaveConnection
  BY <1>2, LaterKeeps DEF SaveConnection
<1>3. CASE SaveOtherNet
  BY <1>3, LaterKeeps DEF SaveOtherNet
<1>4. CASE KeepRoutes
  BY <1>4, LaterKeeps DEF KeepRoutes, StartWrite
<1>5. CASE StartFix
  BY <1>5, LaterKeeps DEF StartFix
<1>6. CASE Relax
  BY <1>6, LaterKeeps DEF Relax
<1>7. CASE Fix
  BY <1>7, LaterKeeps DEF Fix, StartWrite
<1>8. CASE Write
  BY <1>8, LaterKeeps DEF Write
<1>9. CASE EndWrite
  BY <1>9, LaterKeeps DEF EndWrite
<1>10. QED  BY <1>1, <1>2, <1>3, <1>4, <1>5, <1>6, <1>7, <1>8, <1>9 DEF Next, Read

\* The connections that parseNetlist makes and the routes that
\* routeDirectConnections finds are paths of the device between the pins of the
\* net, whatever the breadth-first walks overwrite.
THEOREM ReaderIsRight == Spec => []ReaderInv
<1>1. Init => ReaderInv
  BY ReaderStart
<1>2. ReaderInv /\ [Next]_vars => ReaderInv'
  <2> SUFFICES ASSUME ReaderInv, [Next]_vars PROVE ReaderInv'
    OBVIOUS
  <2>1. CASE ReaderNext
    BY <2>1, ReaderStep
  <2>2. CASE Next /\ ~ReaderNext
    BY <2>2, SaveSteps
  <2>3. CASE UNCHANGED vars
    BY <2>3 DEF vars, readerVars, walkVars, ReaderInv
  <2>4. QED  BY <2>1, <2>2, <2>3
<1>3. QED  BY <1>1, <1>2, PTL DEF Spec

-----------------------------------------------------------------------------
(* Saving the connections *)

\* The total path is a sequence of nodes, empty without a route.
LEMMA TotalIsSeq ==
  ASSUME NEW x, NEW c, IsConn(x, c)
  PROVE  TotalPath(c) \in Seq(Nodes)
<1>1. CASE c.rnodes = <<>>
  BY <1>1, EmptySeq DEF TotalPath
<1>2. CASE c.rnodes # <<>>
  <2>1. IsPath(x.out, TotalPath(c))
    BY <1>2, TotalPathIs
  <2>2. QED  BY <2>1 DEF IsPath
<1>3. QED  BY <1>1, <1>2

\* The two nodes of an edge follow each other.
LEMMA EdgesIn ==
  ASSUME NEW p \in Seq(Nodes), NEW n, NEW m, <<n, m>> \in Edges(p)
  PROVE  n \in Nodes /\ m \in Nodes /\ \E j \in 1..(Len(p) - 1) : n = p[j] /\ m = p[j + 1]
<1>1. PICK l \in Nat : l = Len(p)
  BY LenProperties
<1>2. PICK j \in 1..(l - 1) : <<n, m>> = <<p[j], p[j + 1]>>
  BY <1>1 DEF Edges
<1>3. j \in 1..l /\ j + 1 \in 1..l
  BY <1>1
<1>4. p[j] \in Nodes /\ p[j + 1] \in Nodes
  BY <1>1, <1>3, ElementOfSeq
<1>5. QED  BY <1>1, <1>2, <1>4

\* br2 holds the branches br and those of the path p.
IsGrown(br2, br, p) ==
  br2 = [n \in Nodes |-> br[n] \cup {e[2] : e \in {f \in Edges(p) : f[1] = n}}]

\* Saving a path adds its edges and nothing else.
LEMMA GrownHas ==
  ASSUME NEW br \in [Nodes -> SUBSET Nodes], NEW p \in Seq(Nodes), NEW br2, IsGrown(br2, br, p)
  PROVE  /\ br2 \in [Nodes -> SUBSET Nodes]
         /\ \A n, m \in Nodes : m \in br2[n] <=> m \in br[n] \/ <<n, m>> \in Edges(p)
<1>1. ASSUME NEW n \in Nodes, NEW m, m \in {e[2] : e \in {f \in Edges(p) : f[1] = n}}
      PROVE  m \in Nodes /\ <<n, m>> \in Edges(p)
  <2>1. PICK e \in Edges(p) : e[1] = n /\ e[2] = m
    BY <1>1
  <2>2. e = <<n, m>>
    <3>1. \E j \in 1..(Len(p) - 1) : e = <<p[j], p[j + 1]>>
      BY DEF Edges
    <3>2. QED  BY <2>1, <3>1
  <2>3. QED  BY <2>2, EdgesIn
<1>2. ASSUME NEW n \in Nodes, NEW m \in Nodes, <<n, m>> \in Edges(p)
      PROVE  m \in {e[2] : e \in {f \in Edges(p) : f[1] = n}}
  <2>1. PICK e : e = <<n, m>>
    OBVIOUS
  <2>2. e \in Edges(p) /\ e[1] = n /\ e[2] = m
    BY <1>2, <2>1
  <2>3. QED  BY <2>2
<1>3. ASSUME NEW n \in Nodes PROVE br2[n] = br[n] \cup {e[2] : e \in {f \in Edges(p) : f[1] = n}}
  BY DEF IsGrown
<1>4. ASSUME NEW n \in Nodes PROVE br2[n] \subseteq Nodes
  BY <1>1, <1>3
<1>5. br2 \in [Nodes -> SUBSET Nodes]
  BY <1>4 DEF IsGrown
<1>6. ASSUME NEW n \in Nodes, NEW m \in Nodes, m \in br2[n]
      PROVE  m \in br[n] \/ <<n, m>> \in Edges(p)
  BY <1>1, <1>3, <1>6
<1>7. ASSUME NEW n \in Nodes, NEW m \in Nodes, m \in br[n] \/ <<n, m>> \in Edges(p)
      PROVE  m \in br2[n]
  BY <1>2, <1>3, <1>7
<1>8. QED  BY <1>5, <1>6, <1>7

\* What is saved after one connection more.
LEMMA SavedUpToNext ==
  ASSUME NEW cs, NEW i \in Nat \ {0}, NEW br, NEW nodes, SavedUpTo(cs, i - 1, br, nodes),
         NEW p \in Seq(Nodes), p = TotalPath(cs[i]),
         NEW br2, IsGrown(br2, br, p), NEW nodes2, nodes2 = nodes \cup ToSet(p)
  PROVE  SavedUpTo(cs, i, br2, nodes2)
<1>1. br \in [Nodes -> SUBSET Nodes]
  BY DEF SavedUpTo
<1>2. /\ br2 \in [Nodes -> SUBSET Nodes]
      /\ \A n, m \in Nodes : m \in br2[n] <=> m \in br[n] \/ <<n, m>> \in Edges(p)
  BY <1>1, GrownHas
<1>3. i \in 1..i /\ \A j \in 1..(i - 1) : j \in 1..i
  OBVIOUS
<1>4. \A j \in 1..i : j = i \/ j \in 1..(i - 1)
  OBVIOUS
<1>5. ASSUME NEW n \in Nodes, NEW m \in Nodes, m \in br2[n]
      PROVE  \E j \in 1..i : <<n, m>> \in Edges(TotalPath(cs[j]))
  <2>1. CASE <<n, m>> \in Edges(p)
    BY <1>3, <2>1
  <2>2. CASE m \in br[n]
    <3>1. PICK j \in 1..(i - 1) : <<n, m>> \in Edges(TotalPath(cs[j]))
      BY <2>2 DEF SavedUpTo
    <3>2. QED  BY <1>3, <3>1
  <2>3. QED  BY <1>2, <1>5, <2>1, <2>2
<1>6. ASSUME NEW n \in Nodes, NEW m \in Nodes, NEW j \in 1..i, <<n, m>> \in Edges(TotalPath(cs[j]))
      PROVE  m \in br2[n]
  <2>1. CASE j = i
    BY <1>2, <1>6, <2>1
  <2>2. CASE j # i
    <3>1. j \in 1..(i - 1)
      BY <1>4, <2>2
    <3>2. m \in br[n]
      BY <1>6, <3>1 DEF SavedUpTo
    <3>3. QED  BY <1>2, <3>2
  <2>3. QED  BY <2>1, <2>2
<1>7. ASSUME NEW n \in Nodes, n \in nodes2
      PROVE  \E j \in 1..i : n \in ToSet(TotalPath(cs[j]))
  <2>1. CASE n \in ToSet(p)
    BY <1>3, <2>1
  <2>2. CASE n \in nodes
    <3>1. PICK j \in 1..(i - 1) : n \in ToSet(TotalPath(cs[j]))
      BY <2>2 DEF SavedUpTo
    <3>2. QED  BY <1>3, <3>1
  <2>3. QED  BY <1>7, <2>1, <2>2
<1>8. ASSUME NEW n \in Nodes, NEW j \in 1..i, n \in ToSet(TotalPath(cs[j]))
      PROVE  n \in nodes2
  <2>1. CASE j = i
    BY <1>8, <2>1
  <2>2. CASE j # i
    <3>1. j \in 1..(i - 1)
      BY <1>4, <2>2
    <3>2. n \in nodes
      BY <1>8, <3>1 DEF SavedUpTo
    <3>3. QED  BY <3>2
  <2>3. QED  BY <2>1, <2>2
<1>9. nodes2 \subseteq Nodes
  BY ToSetHas DEF SavedUpTo
<1>10. QED  BY <1>2, <1>5, <1>6, <1>7, <1>8, <1>9 DEF SavedUpTo

\* A sequence with as many elements as places has each of them once.
LEMMA NoRepetition ==
  ASSUME NEW p \in Seq(Nodes), ~(Cardinality(ToSet(p)) < Len(p))
  PROVE  IsInjective(p)
<1>1. PICK l \in Nat : l = Len(p)
  BY LenProperties
<1>2. PICK T : T = ToSet(p)
  OBVIOUS
<1>3. p \in [1..l -> T] /\ \A t \in T : \E s \in 1..l : p[s] = t
  <2>1. DOMAIN p = 1..l /\ p = [i \in 1..l |-> p[i]]
    BY <1>1, LenProperties
  <2>2. \A i \in 1..l : p[i] \in T
    BY <1>2, <2>1 DEF ToSet
  <2>3. \A t \in T : \E s \in 1..l : p[s] = t
    BY <1>2, <2>1 DEF ToSet
  <2>4. QED  BY <2>1, <2>2, <2>3
<1>4. p \in Surjection(1..l, T)
  BY <1>3 DEF Surjection
<1>5. IsFiniteSet(1..l) /\ Cardinality(1..l) = l
  <2>1. IsFiniteSet(1..l) /\ Cardinality(1..l) = IF 1 > l THEN 0 ELSE l - 1 + 1
    BY FS_Interval
  <2>2. QED  BY <2>1
<1>6. /\ IsFiniteSet(T) /\ Cardinality(T) <= Cardinality(1..l)
      /\ Cardinality(T) = Cardinality(1..l) <=> p \in Injection(1..l, T)
  BY <1>4, <1>5, FS_Surjection
<1>7. Cardinality(T) \in Nat
  BY <1>6, FS_CardinalityType
<1>8. Cardinality(T) = l
  BY <1>1, <1>2, <1>5, <1>6, <1>7
<1>9. QED  BY <1>5, <1>6, <1>8 DEF Injection

LEMMA SaveConnectionKeeps == ReaderInv /\ SaveInv /\ SaveConnection => SaveInv'
<1> SUFFICES ASSUME ReaderInv, SaveInv, SaveConnection PROVE SaveInv'
  OBVIOUS
<1>1. /\ pc = "save" /\ pc' = "save" /\ k <= Len(conns) /\ k' = k + 1 /\ conns' = conns /\ baseCost' = baseCost
      /\ upStreamPathCost' = upStreamPathCost /\ prevs' = prevs /\ rnodeQueue' = rnodeQueue
  BY DEF SaveConnection
<1>2. /\ AreConns(net, conns)
      /\ k \in 1..(Len(conns) + 1) /\ SavedUpTo(conns, k - 1, branches, netRNodes)
      /\ hasMultiDriver \in BOOLEAN /\ (~hasMultiDriver => Apart(conns, k - 1))
  BY <1>1 DEF ReaderInv, SaveInv
<1>3. PICK l \in Nat : l = Len(conns)
  BY <1>2, LenProperties DEF AreConns
<1>4. k \in 1..l /\ k \in Nat \ {0} /\ k + 1 \in 1..(l + 1) /\ (k + 1) - 1 = k
  BY <1>1, <1>2, <1>3
<1>5. PICK p : p = TotalPath(conns[k])
  OBVIOUS
<1>6. p \in Seq(Nodes)
  BY <1>2, <1>3, <1>4, <1>5, TotalIsSeq DEF AreConns
<1>7. /\ IsGrown(branches', branches, p) /\ netRNodes' = netRNodes \cup ToSet(p)
      /\ hasMultiDriver' =
           (hasMultiDriver \/ Cardinality(ToSet(p)) < Len(p) \/ ToSet(p) \cap netRNodes # {})
  BY <1>5 DEF SaveConnection, IsGrown
<1>8. SavedUpTo(conns, k, branches', netRNodes')
  BY <1>2, <1>4, <1>5, <1>6, <1>7, SavedUpToNext
<1>9. hasMultiDriver' \in BOOLEAN
  BY <1>2, <1>7
<1>10. ASSUME ~hasMultiDriver' PROVE Apart(conns, k)
  <2>1. /\ ~hasMultiDriver /\ ~(Cardinality(ToSet(p)) < Len(p)) /\ ToSet(p) \cap netRNodes = {}
    BY <1>7, <1>10
  <2>2. IsInjective(p) /\ Apart(conns, k - 1)
    BY <1>2, <1>6, <2>1, NoRepetition
  <2>3. ASSUME NEW j \in 1..(k - 1)
        PROVE  ToSet(p) \cap ToSet(TotalPath(conns[j])) = {}
    <3>1. SUFFICES ASSUME NEW n \in ToSet(p), n \in ToSet(TotalPath(conns[j])) PROVE FALSE
      OBVIOUS
    <3>2. n \in Nodes
      BY <1>6, ToSetHas
    <3>3. n \in netRNodes
      BY <1>2, <3>1, <3>2 DEF SavedUpTo
    <3>4. QED  BY <2>1, <3>3
  <2>4. ASSUME NEW j \in 1..k
        PROVE  /\ IsInjective(TotalPath(conns[j]))
               /\ \A i \in 1..(j - 1) : ToSet(TotalPath(conns[j])) \cap ToSet(TotalPath(conns[i])) = {}
    <3>1. CASE j = k
      BY <1>5, <2>2, <2>3, <3>1
    <3>2. CASE j # k
      <4>1. j \in 1..(k - 1)
        BY <1>4, <3>2
      <4>2. QED  BY <2>2, <4>1 DEF Apart
    <3>3. QED  BY <3>1, <3>2
  <2>5. QED  BY <2>4 DEF Apart
<1>11. QED
  <2>1. k' \in 1..(Len(conns') + 1) /\ SavedUpTo(conns', k' - 1, branches', netRNodes')
    BY <1>1, <1>3, <1>4, <1>8
  <2>2. ~hasMultiDriver' => Apart(conns', k' - 1)
    BY <1>1, <1>4, <1>10
  <2>3. /\ baseCost' \in Costs
        /\ upStreamPathCost' = [n \in Nodes |-> Infinity] /\ prevs' = [n \in Nodes |-> NoNode]
        /\ rnodeQueue' = {}
    BY <1>1 DEF SaveInv
  <2>4. QED  BY <1>1, <1>9, <2>1, <2>2, <2>3 DEF SaveInv, ReaderPcs

-----------------------------------------------------------------------------
(* The search for the tree *)

\* The tree is searched from a source pin.
LEMMA SourcePinIs ==
  ASSUME ReaderInv, conns # <<>>
  PROVE  SourcePin \in Nodes /\ SourcePin \in ToSet(net.sources)
<1>1. PICK l : l = Len(conns)
  OBVIOUS
<1>2. AreConns(net, conns) /\ conns \in Seq(ConnRecs) /\ net \in Nets
  BY DEF ReaderInv, AreConns
<1>3. 1 \in 1..l
  <2>1. l \in Nat \ {0}
    BY <1>1, <1>2, EmptySeq
  <2>2. QED  BY <2>1
<1>4. IsConn(net, conns[1])
  BY <1>1, <1>2, <1>3 DEF AreConns
<1>5. SourcePin \in ToSet(net.sources)
  BY <1>4 DEF IsConn, SourcePin
<1>6. QED  BY <1>2, <1>5, NetIs, ToSetHas

AreCosts(base) == base \in [Nodes -> 0..Infinity] /\ Infinity \in Nat

\* The costs are bounded.
LEMMA CostsAre == baseCost \in Costs => AreCosts(baseCost)
BY SaveAssumption DEF AreCosts

AreBranches(br) == br \in [Nodes -> SUBSET Nodes]

\* StartFix: the costs are infinite but for the source pin.
LEMMA SearchStarts ==
  ASSUME NEW pin \in Nodes, NEW base, AreCosts(base), NEW br, AreBranches(br)
  PROVE  Searched(pin, base, br, [[n \in Nodes |-> Infinity] EXCEPT ![pin] = 0], [n \in Nodes |-> NoNode], {pin})
<1>1. PICK cost : cost = [[n \in Nodes |-> Infinity] EXCEPT ![pin] = 0]
  OBVIOUS
<1>2. PICK prev : prev = [n \in Nodes |-> NoNode]
  OBVIOUS
<1>3. cost \in [Nodes -> 0..Infinity] /\ cost[pin] = 0 /\ \A n \in Nodes : n # pin => cost[n] = Infinity
  BY <1>1 DEF AreCosts
<1>4. ArePrevs(prev) /\ \A n \in Nodes : prev[n] = NoNode
  BY <1>2 DEF ArePrevs
<1>5. ASSUME NEW n \in Nodes \ {pin}, NEW m \in br[n] PROVE cost[m] <= cost[n] + base[m]
  <2>1. m \in Nodes
    BY DEF AreBranches
  <2>2. cost[m] \in 0..Infinity /\ base[m] \in 0..Infinity /\ cost[n] = Infinity /\ Infinity \in Nat
    BY <1>3, <2>1 DEF AreCosts
  <2>3. QED  BY <2>2
<1>6. NoPrevCycle(prev)
  BY <1>4, NodesFinite DEF NoPrevCycle
<1>7. QED  BY <1>1, <1>2, <1>3, <1>4, <1>5, <1>6 DEF Searched

\* The node n improves its children.
Better(base, br, cost, n) == {m \in br[n] : cost[n] + base[m] < cost[m]}
IsRelaxed(base, br, cost, prev, queue, n, cost2, prev2, queue2) ==
  /\ cost2 = [m \in Nodes |-> IF m \in Better(base, br, cost, n) THEN cost[n] + base[m] ELSE cost[m]]
  /\ prev2 = [m \in Nodes |-> IF m \in Better(base, br, cost, n) THEN n ELSE prev[m]]
  /\ queue2 = (queue \ {n}) \cup Better(base, br, cost, n)

\* Relax: a cycle of predecessors through n would have a node that costs no
\* more than n and was improved by n.
LEMMA SearchGoesOn ==
  ASSUME NEW pin \in Nodes, NEW base, AreCosts(base), NEW br, AreBranches(br),
         NEW cost, NEW prev, NEW queue, Searched(pin, base, br, cost, prev, queue), NEW n \in queue,
         NEW cost2, NEW prev2, NEW queue2, IsRelaxed(base, br, cost, prev, queue, n, cost2, prev2, queue2)
  PROVE  Searched(pin, base, br, cost2, prev2, queue2)
<1>1. PICK I : I = Better(base, br, cost, n)
  OBVIOUS
<1>2. /\ cost2 = [m \in Nodes |-> IF m \in I THEN cost[n] + base[m] ELSE cost[m]]
      /\ prev2 = [m \in Nodes |-> IF m \in I THEN n ELSE prev[m]]
      /\ queue2 = (queue \ {n}) \cup I
  BY <1>1 DEF IsRelaxed
<1>3. /\ cost \in [Nodes -> 0..Infinity] /\ ArePrevs(prev) /\ queue \subseteq Nodes
      /\ cost[pin] = 0 /\ prev[pin] = NoNode /\ NoPrevCycle(prev)
      /\ \A x \in Nodes \ queue : \A m \in br[x] : cost[m] <= cost[x] + base[m]
      /\ \A m \in Nodes : prev[m] # NoNode => m \in br[prev[m]] /\ cost[prev[m]] + base[m] <= cost[m]
  BY DEF Searched
<1>4. n \in Nodes /\ NoNode \notin Nodes /\ n # NoNode
  BY <1>3, NodesFinite
<1>5. \A m : m \in I <=> m \in br[n] /\ cost[n] + base[m] < cost[m]
  BY <1>1 DEF Better
<1>6. I \subseteq Nodes
  BY <1>4, <1>5 DEF AreBranches
<1>7. Infinity \in Nat /\ \A m \in Nodes : cost[m] \in Int /\ 0 <= cost[m] /\ cost[m] <= Infinity /\ base[m] \in Int /\ 0 <= base[m]
  BY <1>3 DEF AreCosts
<1>8. \A m \in Nodes : /\ m \in I => cost2[m] = cost[n] + base[m] /\ prev2[m] = n
                       /\ m \notin I => cost2[m] = cost[m] /\ prev2[m] = prev[m]
  BY <1>2
<1>9. \A m \in Nodes : cost2[m] \in Int /\ 0 <= cost2[m] /\ cost2[m] <= cost[m] /\ (m \in I => cost2[m] < cost[m])
  <2>1. ASSUME NEW m \in Nodes, m \in I
        PROVE cost2[m] \in Int /\ 0 <= cost2[m] /\ cost2[m] < cost[m] /\ cost2[m] <= cost[m]
    BY <1>4, <1>5, <1>7, <1>8, <2>1
  <2>2. ASSUME NEW m \in Nodes, m \notin I
        PROVE cost2[m] \in Int /\ 0 <= cost2[m] /\ cost2[m] <= cost[m]
    BY <1>7, <1>8, <2>2
  <2>3. QED  BY <2>1, <2>2
<1>10. cost2 \in [Nodes -> 0..Infinity]
  <2>1. \A m \in Nodes : cost2[m] \in 0..Infinity
    BY <1>7, <1>9
  <2>2. QED  BY <1>2, <2>1
<1>11. ArePrevs(prev2) /\ queue2 \subseteq Nodes
  BY <1>2, <1>3, <1>4, <1>6 DEF ArePrevs
<1>12. pin \notin I /\ cost2[pin] = 0 /\ prev2[pin] = NoNode
  <2>1. pin \notin I
    BY <1>3, <1>7, <1>9
  <2>2. QED  BY <1>3, <1>8, <2>1
<1>13. ASSUME NEW x \in Nodes \ queue2, NEW m \in br[x] PROVE cost2[m] <= cost2[x] + base[m]
  <2>1. m \in Nodes /\ x \in Nodes /\ x \notin I
    BY <1>2, <1>13 DEF AreBranches
  <2>2. cost2[x] = cost[x]
    BY <1>8, <2>1
  <2>3. CASE x = n
    <3>1. CASE m \in I
      BY <1>4, <1>7, <1>8, <2>1, <2>2, <2>3, <3>1
    <3>2. CASE m \notin I
      BY <1>4, <1>5, <1>7, <1>8, <1>13, <2>1, <2>2, <2>3, <3>2
    <3>3. QED  BY <3>1, <3>2
  <2>4. CASE x # n
    <3>1. x \notin queue
      BY <1>2, <1>13, <2>4
    <3>2. cost[m] <= cost[x] + base[m]
      BY <1>3, <1>13, <2>1, <3>1
    <3>3. QED  BY <1>7, <1>9, <2>1, <2>2, <3>2
  <2>5. QED  BY <2>3, <2>4
<1>14. ASSUME NEW m \in Nodes, prev2[m] # NoNode
       PROVE  m \in br[prev2[m]] /\ cost2[prev2[m]] + base[m] <= cost2[m]
  <2>1. CASE m \in I
    <3>1. prev2[m] = n /\ cost2[m] = cost[n] + base[m] /\ m \in br[n] /\ cost2[n] <= cost[n]
      BY <1>4, <1>5, <1>8, <1>9, <2>1
    <3>2. QED  BY <1>4, <1>7, <1>9, <3>1
  <2>2. CASE m \notin I
    <3>1. PICK o : o = prev[m]
      OBVIOUS
    <3>2. prev2[m] = o /\ cost2[m] = cost[m]
      BY <1>8, <2>2, <3>1
    <3>3. o \in Nodes
      BY <1>3, <1>14, <3>1, <3>2 DEF ArePrevs
    <3>4. m \in br[o] /\ cost[o] + base[m] <= cost[m]
      BY <1>3, <1>14, <3>1, <3>2
    <3>5. QED  BY <1>7, <1>9, <3>2, <3>3, <3>4
  <2>3. QED  BY <2>1, <2>2
<1>15. ASSUME NEW T \in SUBSET Nodes, T # {}, \A m \in T : prev2[m] \in T PROVE FALSE
  <2>1. CASE T \cap I = {}
    <3>1. \A m \in T : prev[m] \in T
      BY <1>8, <1>15, <2>1
    <3>2. QED  BY <1>3, <1>15, <3>1 DEF NoPrevCycle
  <2>2. CASE T \cap I # {}
    <3>1. n \in T
      BY <1>8, <1>15, <2>2
    <3> DEFINE U == {x \in T : cost[x] <= cost[n]}
    <3>2. n \in U
      BY <1>4, <1>7, <3>1
    <3>3. ASSUME NEW x \in U PROVE prev[x] \in U
      <4>1. x \in Nodes /\ x \in T /\ cost[x] <= cost[n]
        OBVIOUS
      <4>2. x \notin I
        BY <1>4, <1>5, <1>7, <4>1
      <4>3. prev[x] \in T /\ prev[x] \in Nodes /\ prev[x] # NoNode
        BY <1>4, <1>8, <1>15, <4>1, <4>2
      <4>4. cost[prev[x]] + base[x] <= cost[x]
        BY <1>3, <4>1, <4>3
      <4>5. cost[prev[x]] <= cost[n]
        BY <1>4, <1>7, <4>1, <4>3, <4>4
      <4>6. QED  BY <4>3, <4>5
    <3>4. U \in SUBSET Nodes /\ U # {}
      BY <3>2
    <3> HIDE DEF U
    <3>5. QED  BY <1>3, <3>3, <3>4 DEF NoPrevCycle
  <2>3. QED  BY <2>1, <2>2
<1>16. NoPrevCycle(prev2)
  BY <1>15 DEF NoPrevCycle
<1>17. QED  BY <1>10, <1>11, <1>12, <1>13, <1>14, <1>16 DEF Searched

-----------------------------------------------------------------------------
(* The saving keeps its part of the invariant *)

\* The reader stays in its phases, hangs or aborts.
LEMMA ReaderPcIs == ReaderInv /\ ReaderNext => pc \in ReaderPcs /\ pc' \in ReaderPcs \cup {"hung", "aborted"}
BY DEF ReaderNext, SourceWalk, NoSourcePath, EndSource, SinkWalk, NoSinkPath, EndSink, RouteIndirect,
       EndRoute, StartDirect, DirectWalk, NoDirectRoute, ReaderPcs

LEMMA ReadKeepsSave == ReaderInv /\ SaveInv /\ Read => SaveInv'
<1> SUFFICES ASSUME ReaderInv, SaveInv, Read PROVE SaveInv'
  OBVIOUS
<1>1. pc \in ReaderPcs /\ pc' \in ReaderPcs \cup {"hung", "aborted"} /\ UNCHANGED saveVars
  BY ReaderPcIs DEF Read
<1>2. QED  BY <1>1 DEF SaveInv, ReaderPcs, saveVars

LEMMA StartSaveKeeps == ReaderInv /\ SaveInv /\ StartSave => SaveInv'
<1> SUFFICES ASSUME ReaderInv, SaveInv, StartSave PROVE SaveInv'
  OBVIOUS
<1>1. /\ pc = "route" /\ pc' = "save" /\ k' = 1 /\ conns' = SaveOrder /\ baseCost' = baseCost
      /\ branches' = branches /\ netRNodes' = netRNodes /\ hasMultiDriver' = hasMultiDriver
      /\ upStreamPathCost' = upStreamPathCost /\ prevs' = prevs /\ rnodeQueue' = rnodeQueue
  BY DEF StartSave
<1>2. /\ branches = [n \in Nodes |-> {}] /\ netRNodes = {} /\ hasMultiDriver = FALSE /\ baseCost \in Costs
      /\ upStreamPathCost = [n \in Nodes |-> Infinity] /\ prevs = [n \in Nodes |-> NoNode]
      /\ rnodeQueue = {}
  BY <1>1 DEF SaveInv, ReaderPcs
<1>3. AreConns(net, conns) /\ conns # <<>>
  BY <1>1 DEF ReaderInv
<1>4. PICK l \in Nat : l = Len(conns')
  BY <1>1, <1>3, OrderKeeps, LenProperties DEF AreConns
<1>5. PICK cs : cs = conns'
  OBVIOUS
<1>6. SavedUpTo(cs, 0, branches, netRNodes) /\ Apart(cs, 0)
  BY <1>2 DEF SavedUpTo, Apart
<1>7. /\ k' \in 1..(Len(conns') + 1) /\ k' - 1 = 0
  BY <1>1, <1>4
<1>8. SavedUpTo(conns', k' - 1, branches', netRNodes') /\ Apart(conns', k' - 1)
  BY <1>1, <1>5, <1>6, <1>7
<1>9. QED  BY <1>1, <1>2, <1>7, <1>8 DEF SaveInv, ReaderPcs

LEMMA StartFixKeeps == ReaderInv /\ SaveInv /\ StartFix => SaveInv'
<1> SUFFICES ASSUME ReaderInv, SaveInv, StartFix PROVE SaveInv'
  OBVIOUS
<1> USE DEF settled
<1>1. /\ pc = "save" /\ k > Len(conns) /\ hasMultiDriver /\ conns' = conns /\ baseCost' = baseCost
      /\ branches' = branches /\ netRNodes' = netRNodes /\ hasMultiDriver' = hasMultiDriver /\ prevs' = prevs
  BY DEF StartFix
<1>2. /\ baseCost \in Costs /\ upStreamPathCost = [n \in Nodes |-> Infinity]
      /\ prevs = [n \in Nodes |-> NoNode] /\ conns # <<>> /\ AreConns(net, conns)
      /\ k \in 1..(Len(conns) + 1) /\ SavedUpTo(conns, k - 1, branches, netRNodes)
  BY <1>1 DEF SaveInv, ReaderInv, ReaderPcs
<1>3. CASE pc' = "aborted"
  BY <1>1, <1>2, <1>3 DEF SaveInv, ReaderPcs
<1>4. CASE pc' # "aborted"
  <2>1. /\ pc' = "search" /\ rnodeQueue' = {SourcePin}
        /\ upStreamPathCost' = [upStreamPathCost EXCEPT ![SourcePin] = 0]
    BY <1>4 DEF StartFix
  <2>2. k - 1 = Len(conns)
    <3>1. PICK l \in Nat : l = Len(conns)
      BY <1>2, LenProperties DEF AreConns
    <3>2. QED  BY <1>1, <1>2, <3>1
  <2>3. SavedUpTo(conns, Len(conns), branches, netRNodes)
    BY <1>2, <2>2
  <2>4. PICK pin \in Nodes : pin = SourcePin
    BY <1>2, SourcePinIs
  <2>5. SourcePin' = pin
    BY <1>1, <2>4 DEF SourcePin
  <2>6. AreCosts(baseCost) /\ AreBranches(branches)
    BY <1>2, CostsAre DEF AreBranches, SavedUpTo
  <2>7. Searched(pin, baseCost, branches, [[n \in Nodes |-> Infinity] EXCEPT ![pin] = 0], [n \in Nodes |-> NoNode], {pin})
    BY <2>6, SearchStarts
  <2>8. Searched(pin, baseCost, branches, upStreamPathCost', prevs', rnodeQueue')
    BY <1>1, <1>2, <2>1, <2>4, <2>7
  <2>9. Searched(SourcePin', baseCost', branches', upStreamPathCost', prevs', rnodeQueue')
    BY <1>1, <2>5, <2>8
  <2>10. QED  BY <1>1, <1>2, <2>1, <2>3, <2>9 DEF SaveInv, ReaderPcs
<1>5. QED  BY <1>3, <1>4

LEMMA RelaxKeeps == ReaderInv /\ SaveInv /\ Relax => SaveInv'
<1> SUFFICES ASSUME ReaderInv, SaveInv, Relax PROVE SaveInv'
  OBVIOUS
<1> USE DEF settled
<1>1. /\ pc = "search" /\ pc' = "search" /\ conns' = conns /\ baseCost' = baseCost
      /\ branches' = branches /\ netRNodes' = netRNodes /\ hasMultiDriver' = hasMultiDriver
  BY DEF Relax
<1>2. /\ baseCost \in Costs /\ conns # <<>> /\ hasMultiDriver
      /\ SavedUpTo(conns, Len(conns), branches, netRNodes)
      /\ Searched(SourcePin, baseCost, branches, upStreamPathCost, prevs, rnodeQueue)
  BY <1>1 DEF SaveInv, ReaderInv, ReaderPcs
<1>3. PICK n \in rnodeQueue :
        /\ upStreamPathCost' = [m \in Nodes |->
             IF m \in Improved(n) THEN upStreamPathCost[n] + baseCost[m] ELSE upStreamPathCost[m]]
        /\ prevs' = [m \in Nodes |-> IF m \in Improved(n) THEN n ELSE prevs[m]]
        /\ rnodeQueue' = (rnodeQueue \ {n}) \cup Improved(n)
  BY DEF Relax
<1>4. Improved(n) = Better(baseCost, branches, upStreamPathCost, n)
  BY DEF Improved, Better
<1>5. IsRelaxed(baseCost, branches, upStreamPathCost, prevs, rnodeQueue, n, upStreamPathCost', prevs', rnodeQueue')
  BY <1>3, <1>4 DEF IsRelaxed
<1>6. PICK pin \in Nodes : pin = SourcePin
  BY <1>2, SourcePinIs
<1>7. SourcePin' = pin
  BY <1>1, <1>6 DEF SourcePin
<1>8. AreCosts(baseCost) /\ AreBranches(branches) /\ Searched(pin, baseCost, branches, upStreamPathCost, prevs, rnodeQueue)
  BY <1>2, <1>6, CostsAre DEF AreBranches, SavedUpTo
<1>9. Searched(pin, baseCost, branches, upStreamPathCost', prevs', rnodeQueue')
  BY <1>5, <1>8, SearchGoesOn
<1>10. Searched(SourcePin', baseCost', branches', upStreamPathCost', prevs', rnodeQueue')
  BY <1>1, <1>7, <1>9
<1>11. QED  BY <1>1, <1>2, <1>10 DEF SaveInv, ReaderPcs

\* Every step keeps what is saved and searched.
LEMMA SaveStep == ReaderInv /\ SaveInv /\ Next => SaveInv'
<1> SUFFICES ASSUME ReaderInv, SaveInv, Next PROVE SaveInv'
  OBVIOUS
<1> USE DEF settled, readerVars, ReaderPcs
<1>1. CASE SaveOtherNet
  <2>1. /\ UNCHANGED <<pc, k, conns, baseCost, netRNodes, hasMultiDriver, branches>>
        /\ UNCHANGED <<upStreamPathCost, prevs, rnodeQueue>>
    BY <1>1 DEF SaveOtherNet
  <2>2. SourcePin' = SourcePin
    BY <2>1 DEF SourcePin
  <2>3. QED  BY <2>1, <2>2 DEF SaveInv
<1>2. CASE KeepRoutes
  BY <1>2 DEF KeepRoutes, StartWrite, SaveInv
<1>3. CASE Fix
  BY <1>3 DEF Fix, StartWrite, SaveInv
<1>4. CASE Write
  BY <1>4 DEF Write, SaveInv
<1>5. CASE EndWrite
  BY <1>5 DEF EndWrite, SaveInv
<1>6. QED  BY <1>1, <1>2, <1>3, <1>4, <1>5, ReadKeepsSave, StartSaveKeeps, SaveConnectionKeeps,
              StartFixKeeps, RelaxKeeps DEF Next

LEMMA SaveStart == Init => SaveInv
BY DEF Init, ReaderInit, SaveInv, ReaderPcs

LEMMA SaveStutters == SaveInv /\ UNCHANGED vars => SaveInv'
<1> SUFFICES ASSUME SaveInv, UNCHANGED vars PROVE SaveInv'
  OBVIOUS
<1>1. /\ UNCHANGED <<pc, k, conns, baseCost, netRNodes, hasMultiDriver, branches>>
      /\ UNCHANGED <<upStreamPathCost, prevs, rnodeQueue>>
  BY DEF vars, readerVars, saveVars
<1>2. SourcePin' = SourcePin
  BY <1>1 DEF SourcePin
<1>3. QED  BY <1>1, <1>2 DEF SaveInv

-----------------------------------------------------------------------------
(* The tree of a fixed net is a shortest one *)

\* The queue is empty, so the costs along the predecessors are tight.
LEMMA FixIsShortest == ReaderInv /\ SaveInv /\ Fix => SavedShortest'
<1> SUFFICES ASSUME ReaderInv, SaveInv, Fix, pc' = "write" PROVE SavedShortest'
  BY DEF SavedShortest
<1> USE DEF settled
<1>1. /\ pc = "search" /\ rnodeQueue = {} /\ conns' = conns /\ baseCost' = baseCost
      /\ upStreamPathCost' = upStreamPathCost
  BY DEF Fix
<1>2. PICK inRoute : branches' = BranchesIn(inRoute)
  BY DEF Fix
<1>3. /\ conns # <<>> /\ AreConns(net, conns) /\ baseCost \in Costs
      /\ SavedUpTo(conns, Len(conns), branches, netRNodes)
      /\ Searched(SourcePin, baseCost, branches, upStreamPathCost, prevs, rnodeQueue)
  BY <1>1 DEF SaveInv, ReaderInv
<1>4. PICK cost : cost = upStreamPathCost
  OBVIOUS
<1>5. PICK base : base = baseCost
  OBVIOUS
<1>6. /\ cost \in [Nodes -> 0..Infinity] /\ ArePrevs(prevs) /\ cost[SourcePin] = 0
      /\ \A n \in Nodes : \A m \in branches[n] : cost[m] <= cost[n] + base[m]
      /\ \A m \in Nodes : prevs[m] # NoNode => m \in branches[prevs[m]] /\ cost[prevs[m]] + base[m] <= cost[m]
  BY <1>1, <1>3, <1>4, <1>5 DEF Searched
<1>7. SourcePin' = SourcePin /\ RouteEdges' = RouteEdges
  BY <1>1 DEF SourcePin, RouteEdges
<1>8. ASSUME NEW e \in RouteEdges PROVE cost[e[2]] <= cost[e[1]] + base[e[2]]
  <2>1. PICK c \in ToSet(conns) : e \in Edges(TotalPath(c))
    BY DEF RouteEdges
  <2>2. conns \in Seq(ConnRecs)
    BY <1>3 DEF AreConns
  <2>3. PICK j \in 1..Len(conns) : c = conns[j]
    BY <2>1, <2>2, ToSetHas
  <2>4. PICK p : p = TotalPath(c)
    OBVIOUS
  <2>5. p \in Seq(Nodes)
    BY <1>3, <2>3, <2>4, TotalIsSeq DEF AreConns
  <2>6. PICK i \in 1..(Len(p) - 1) : e = <<p[i], p[i + 1]>>
    BY <2>1, <2>4 DEF Edges
  <2>7. PICK n : n = p[i]
    OBVIOUS
  <2>8. PICK m : m = p[i + 1]
    OBVIOUS
  <2>9. <<n, m>> \in Edges(p) /\ e = <<n, m>>
    BY <2>1, <2>4, <2>6, <2>7, <2>8
  <2>10. n \in Nodes /\ m \in Nodes
    BY <2>5, <2>9, EdgesIn
  <2>11. m \in branches[n]
    BY <1>3, <2>3, <2>4, <2>9, <2>10 DEF SavedUpTo
  <2>12. cost[m] <= cost[n] + base[m]
    BY <1>6, <2>10, <2>11
  <2>13. QED  BY <2>9, <2>12
<1>9. ASSUME NEW n \in Nodes, NEW m \in branches'[n] PROVE cost[m] = cost[n] + base[m]
  <2>1. m \in inRoute \cap netRNodes /\ prevs[m] = n
    BY <1>2 DEF BranchesIn
  <2>2. m \in Nodes
    <3>1. netRNodes \subseteq Nodes
      BY <1>3 DEF SavedUpTo
    <3>2. QED  BY <2>1, <3>1
  <2>3. n # NoNode
    BY NodesFinite
  <2>4. m \in branches[n] /\ cost[n] + base[m] <= cost[m]
    BY <1>6, <2>1, <2>2, <2>3
  <2>5. cost[m] <= cost[n] + base[m]
    BY <1>6, <2>4
  <2>6. cost[m] \in 0..Infinity /\ cost[n] \in 0..Infinity /\ base[m] \in 0..Infinity /\ Infinity \in Nat
    BY <1>3, <1>5, <1>6, <2>2, CostsAre DEF AreCosts
  <2>7. QED  BY <2>4, <2>5, <2>6
<1>10. QED  BY <1>1, <1>4, <1>5, <1>6, <1>7, <1>8, <1>9 DEF SavedShortest

\* Only Fix makes a tree that the property is about.
LEMMA ShortestStep == ReaderInv /\ SaveInv /\ SavedShortest /\ [Next]_vars => SavedShortest'
<1> SUFFICES ASSUME ReaderInv, SaveInv, SavedShortest, [Next]_vars, pc' = "write" PROVE SavedShortest'
  BY DEF SavedShortest
<1> USE DEF settled
<1>1. CASE Read
  BY <1>1, ReaderPcIs DEF Read, ReaderPcs
<1>2. CASE KeepRoutes
  BY <1>2 DEF KeepRoutes, SavedShortest
<1>3. CASE Fix
  BY <1>3, FixIsShortest
<1>4. ASSUME UNCHANGED <<pc, conns, baseCost, hasMultiDriver, branches, upStreamPathCost>>
      PROVE  SavedShortest'
  <2>1. SourcePin' = SourcePin /\ RouteEdges' = RouteEdges
    BY <1>4 DEF SourcePin, RouteEdges
  <2>2. QED  BY <1>4, <2>1 DEF SavedShortest
<1>5. CASE Write
  BY <1>4, <1>5 DEF Write
<1>6. CASE UNCHANGED vars
  BY <1>4, <1>6 DEF vars, readerVars, saveVars
<1>7. QED
  BY <1>1, <1>2, <1>3, <1>5, <1>6
     DEF Next, StartSave, SaveConnection, SaveOtherNet, StartFix, Relax, EndWrite, readerVars

\* The saved branches are the edges of the saved paths, hasMultiDriver is set
\* unless they are apart, and the search of fixNetRoutes never closes a cycle of
\* predecessors, in whatever order the heap yields the nodes.
THEOREM SearchIsRight == Spec => []SaveInv
<1>1. Init => SaveInv
  BY SaveStart
<1>2. ReaderInv /\ SaveInv /\ [Next]_vars => SaveInv'
  BY SaveStep, SaveStutters
<1>3. QED  BY <1>1, <1>2, ReaderIsRight, PTL DEF Spec

\* SavedShortest: after fixNetRoutes the costs are tight along the tree, and no
\* edge of any route undercuts them (aStarRoute.cpp:297 "Find shortest path").
THEOREM FixedTreeIsShortest == Spec => []SavedShortest
<1>1. Init => SavedShortest
  BY DEF Init, ReaderInit, SavedShortest
<1>2. ReaderInv /\ SaveInv /\ SavedShortest /\ [Next]_vars => SavedShortest'
  BY ShortestStep
<1>3. QED  BY <1>1, <1>2, ReaderIsRight, SearchIsRight, PTL DEF Spec

-----------------------------------------------------------------------------
(* The tree *)

\* The branches hold the path p from a source pin to a sink pin.
HoldsPath(x, br, nodes, p) ==
  /\ IsPath(x.out, p) /\ Len(p) > 1 /\ p[1] \in ToSet(x.sources) /\ p[Len(p)] \in ToSet(x.sinks)
  /\ \A i \in 1..(Len(p) - 1) : p[i + 1] \in br[p[i]]
  /\ ToSet(p) \subseteq nodes

\* The path of every connection with a route is held.
LEMMA PathsHeld ==
  ASSUME NEW x, NEW cs, AreConns(x, cs), NEW br, NEW nodes, SavedUpTo(cs, Len(cs), br, nodes),
         NEW j \in 1..Len(cs), NEW p, p = TotalPath(cs[j]), cs[j].rnodes # <<>>
  PROVE  HoldsPath(x, br, nodes, p) /\ p[Len(p)] = Last(cs[j].intToSinkPath)
<1>1. IsConn(x, cs[j])
  BY DEF AreConns
<1>2. /\ IsPath(x.out, p) /\ Len(p) > 1 /\ p[1] \in ToSet(x.sources) /\ p[Len(p)] = Last(cs[j].intToSinkPath)
  BY <1>1, TotalPathIs
<1>3. p[Len(p)] \in ToSet(x.sinks)
  BY <1>1, <1>2 DEF IsConn
<1>4. p \in Seq(Nodes)
  BY <1>2 DEF IsPath
<1>5. ASSUME NEW i \in 1..(Len(p) - 1) PROVE p[i + 1] \in br[p[i]]
  <2>1. PICK n : n = p[i]
    OBVIOUS
  <2>2. PICK m : m = p[i + 1]
    OBVIOUS
  <2>3. <<n, m>> \in Edges(p)
    BY <2>1, <2>2 DEF Edges
  <2>4. n \in Nodes /\ m \in Nodes
    BY <1>4, <2>3, EdgesIn
  <2>5. m \in br[n]
    BY <2>3, <2>4 DEF SavedUpTo
  <2>6. QED  BY <2>1, <2>2, <2>5
<1>6. ASSUME NEW n \in ToSet(p) PROVE n \in nodes
  <2>1. n \in Nodes
    BY <1>4, ToSetHas
  <2>2. QED  BY <2>1 DEF SavedUpTo
<1>7. QED  BY <1>2, <1>3, <1>5, <1>6 DEF HoldsPath

\* Every saved edge is of such a path.
LEMMA EdgeOfPath ==
  ASSUME NEW x, NEW cs, AreConns(x, cs), NEW br, NEW nodes, SavedUpTo(cs, Len(cs), br, nodes),
         NEW n \in Nodes, NEW m \in br[n]
  PROVE  \E j \in 1..Len(cs) : \E i \in 1..(Len(TotalPath(cs[j])) - 1) :
           cs[j].rnodes # <<>> /\ n = TotalPath(cs[j])[i] /\ m = TotalPath(cs[j])[i + 1]
<1>1. m \in Nodes
  BY DEF SavedUpTo
<1>2. PICK j \in 1..Len(cs) : <<n, m>> \in Edges(TotalPath(cs[j]))
  BY <1>1 DEF SavedUpTo
<1>3. PICK p : p = TotalPath(cs[j])
  OBVIOUS
<1>4. p \in Seq(Nodes)
  BY <1>3, TotalIsSeq DEF AreConns
<1>5. PICK i \in 1..(Len(p) - 1) : n = p[i] /\ m = p[i + 1]
  BY <1>2, <1>3, <1>4, EdgesIn
<1>6. cs[j].rnodes # <<>>
  <2>1. SUFFICES ASSUME cs[j].rnodes = <<>> PROVE FALSE
    OBVIOUS
  <2>2. p = <<>>
    BY <1>3, <2>1 DEF TotalPath
  <2>3. Len(p) = 0
    BY <2>2
  <2>4. QED  BY <1>5, <2>3
<1>7. QED  BY <1>3, <1>5, <1>6

\* A saved edge is one of the device, between saved nodes.
LEMMA EdgeIs ==
  ASSUME NEW x, NEW cs, AreConns(x, cs), NEW br, NEW nodes, SavedUpTo(cs, Len(cs), br, nodes),
         NEW n \in Nodes, NEW m \in br[n]
  PROVE  m \in Nodes /\ n \in nodes /\ m \in nodes /\ m \in ToSet(x.out[n])
<1>1. PICK j \in 1..Len(cs) : \E i \in 1..(Len(TotalPath(cs[j])) - 1) :
        cs[j].rnodes # <<>> /\ n = TotalPath(cs[j])[i] /\ m = TotalPath(cs[j])[i + 1]
  BY EdgeOfPath
<1>2. PICK p : p = TotalPath(cs[j])
  OBVIOUS
<1>3. PICK i \in 1..(Len(p) - 1) : cs[j].rnodes # <<>> /\ n = p[i] /\ m = p[i + 1]
  BY <1>1, <1>2
<1>4. HoldsPath(x, br, nodes, p)
  BY <1>2, <1>3, PathsHeld
<1>5. p \in Seq(Nodes) /\ m \in ToSet(x.out[n]) /\ ToSet(p) \subseteq nodes
  BY <1>3, <1>4 DEF HoldsPath, IsPath
<1>6. PICK l \in Nat : l = Len(p)
  BY <1>5, LenProperties
<1>7. i \in 1..l /\ i + 1 \in 1..l
  BY <1>6
<1>8. p[i] \in ToSet(p) /\ p[i] \in Nodes /\ p[i + 1] \in ToSet(p) /\ p[i + 1] \in Nodes
  BY <1>5, <1>6, <1>7, InToSet
<1>9. QED  BY <1>3, <1>5, <1>8

\* The only source pin is the first.
LEMMA OneSource ==
  ASSUME NEW x \in Nets, Len(x.sources) = 1, NEW n \in ToSet(x.sources)
  PROVE  n = x.sources[1]
<1>1. x.sources \in Seq(Nodes)
  BY NetIs
<1>2. PICK i \in 1..Len(x.sources) : n = x.sources[i]
  BY <1>1, ToSetHas
<1>3. QED  BY <1>2

\* Paths that do not meet are a tree as they are.
LEMMA ApartIsTree ==
  ASSUME NEW x \in Nets, AreApart(x), NEW cs, AreConns(x, cs), NEW br, NEW nodes,
         SavedUpTo(cs, Len(cs), br, nodes), Apart(cs, Len(cs))
  PROVE  IsTree(x, cs, br, nodes)
<1>1. br \in [Nodes -> SUBSET Nodes] /\ nodes \subseteq Nodes
  BY DEF SavedUpTo
<1>2. cs \in Seq(ConnRecs)
  BY DEF AreConns
<1> DEFINE P(j) == TotalPath(cs[j])
           Held(j) == cs[j].rnodes # <<>>
<1>3. \A j \in 1..Len(cs) : Held(j) => /\ HoldsPath(x, br, nodes, P(j)) /\ IsInjective(P(j))
                                       /\ P(j)[Len(P(j))] = Last(cs[j].intToSinkPath)
  BY PathsHeld DEF Apart
<1>4. \A j \in 1..Len(cs) : Held(j) => P(j) \in Seq(Nodes)
  BY <1>3 DEF HoldsPath, IsPath
<1>5. \A n \in Nodes : \A m \in br[n] : \E j \in 1..Len(cs) : \E i \in 1..(Len(P(j)) - 1) :
        Held(j) /\ n = P(j)[i] /\ m = P(j)[i + 1]
  BY EdgeOfPath
<1>6. \A j, l \in 1..Len(cs) : j # l => ToSet(P(j)) \cap ToSet(P(l)) = {}
  <2>1. PICK N \in Nat : N = Len(cs)
    BY <1>2, LenProperties
  <2>2. \A j \in 1..N : \A l \in 1..(j - 1) : ToSet(P(j)) \cap ToSet(P(l)) = {}
    BY <2>1 DEF Apart
  <2> HIDE DEF P
  <2>3. ASSUME NEW j \in 1..N, NEW l \in 1..N, j # l PROVE ToSet(P(j)) \cap ToSet(P(l)) = {}
    <3>1. l \in 1..(j - 1) \/ j \in 1..(l - 1)
      BY <2>3
    <3>2. QED  BY <2>2, <3>1
  <2>4. QED  BY <2>1, <2>3
<1>7. \A j \in 1..Len(cs) : Held(j) => \A i \in 1..Len(P(j)) : P(j)[i] \in ToSet(P(j)) /\ P(j)[i] \in Nodes
  BY <1>4, InToSet
<1>8. \A j \in 1..Len(cs) : Held(j) => Len(P(j)) \in Nat /\ DOMAIN P(j) = 1..Len(P(j))
  BY <1>4, LenProperties
<1> HIDE DEF P, Held
<1>9. ASSUME NEW n \in Nodes, NEW m \in br[n], m \in ToSet(x.sources) PROVE FALSE
  <2>1. m \in ToSet(x.out[n])
    BY EdgeIs
  <2>2. Len(x.sources) = 1
    BY <1>9, <2>1 DEF AreApart
  <2>3. PICK j \in 1..Len(cs) : \E i \in 1..(Len(P(j)) - 1) : Held(j) /\ n = P(j)[i] /\ m = P(j)[i + 1]
    BY <1>5
  <2>4. PICK p : p = P(j)
    OBVIOUS
  <2>5. PICK i \in 1..(Len(p) - 1) : Held(j) /\ m = p[i + 1]
    BY <2>3, <2>4
  <2>6. p[1] \in ToSet(x.sources) /\ IsInjective(p) /\ Len(p) \in Nat /\ DOMAIN p = 1..Len(p)
    BY <1>3, <1>8, <2>4, <2>5 DEF HoldsPath
  <2>7. p[1] = m
    BY <1>9, <2>2, <2>6, OneSource
  <2>8. 1 \in DOMAIN p /\ i + 1 \in DOMAIN p /\ i + 1 # 1
    BY <2>6
  <2>9. QED  BY <2>5, <2>6, <2>7, <2>8 DEF IsInjective
<1>10. ASSUME NEW n1 \in Nodes, NEW n2 \in Nodes, NEW m \in br[n1], m \in br[n2] PROVE n1 = n2
  <2>1. PICK j \in 1..Len(cs) : \E i \in 1..(Len(P(j)) - 1) : Held(j) /\ n1 = P(j)[i] /\ m = P(j)[i + 1]
    BY <1>5
  <2>2. PICK l \in 1..Len(cs) : \E i \in 1..(Len(P(l)) - 1) : Held(l) /\ n2 = P(l)[i] /\ m = P(l)[i + 1]
    BY <1>5, <1>10
  <2>3. PICK i \in 1..(Len(P(j)) - 1) : Held(j) /\ n1 = P(j)[i] /\ m = P(j)[i + 1]
    BY <2>1
  <2>4. PICK h \in 1..(Len(P(l)) - 1) : Held(l) /\ n2 = P(l)[h] /\ m = P(l)[h + 1]
    BY <2>2
  <2>5. i + 1 \in 1..Len(P(j)) /\ h + 1 \in 1..Len(P(l))
    BY <1>8, <2>3, <2>4
  <2>6. m \in ToSet(P(j)) /\ m \in ToSet(P(l))
    BY <1>7, <2>3, <2>4, <2>5
  <2>7. j = l
    BY <1>6, <2>6
  <2>8. i + 1 = h + 1
    BY <1>3, <1>8, <2>3, <2>4, <2>5, <2>7 DEF IsInjective
  <2>9. i = h
    BY <2>8
  <2>10. QED  BY <2>3, <2>4, <2>7, <2>9
<1>11. ASSUME NEW c \in ToSet(cs), c.rnodes # <<>> PROVE \E n \in Nodes : Last(c.intToSinkPath) \in br[n]
  <2>1. PICK j \in 1..Len(cs) : c = cs[j]
    BY <1>2, ToSetHas
  <2>2. Held(j)
    BY <1>11, <2>1 DEF Held
  <2>3. PICK p : p = P(j)
    OBVIOUS
  <2>4. /\ Len(p) \in Nat /\ Len(p) > 1 /\ p[Len(p)] = Last(c.intToSinkPath)
        /\ \A i \in 1..(Len(p) - 1) : p[i + 1] \in br[p[i]]
    BY <1>3, <1>8, <2>1, <2>2, <2>3 DEF HoldsPath
  <2>5. PICK i \in 1..(Len(p) - 1) : i + 1 = Len(p)
    <3>1. Len(p) - 1 \in 1..(Len(p) - 1) /\ (Len(p) - 1) + 1 = Len(p)
      BY <2>4
    <3>2. QED  BY <3>1
  <2>6. i \in 1..Len(p)
    BY <2>4
  <2>7. p[i] \in Nodes
    BY <1>7, <2>2, <2>3, <2>6
  <2>8. Last(c.intToSinkPath) \in br[p[i]]
    BY <2>4, <2>5
  <2>9. QED  BY <2>7, <2>8
<1>12. ASSUME NEW R \in SUBSET Nodes, ToSet(x.sources) \cap nodes \subseteq R, \A n \in R : br[n] \subseteq R,
              NEW n0 \in Nodes, NEW m \in br[n0]
       PROVE  m \in R
  <2>1. PICK j \in 1..Len(cs) : \E i \in 1..(Len(P(j)) - 1) : Held(j) /\ n0 = P(j)[i] /\ m = P(j)[i + 1]
    BY <1>5
  <2>2. PICK p : p = P(j)
    OBVIOUS
  <2>3. PICK h \in 1..(Len(p) - 1) : Held(j) /\ m = p[h + 1]
    BY <2>1, <2>2
  <2>4. /\ Len(p) \in Nat /\ p[1] \in ToSet(x.sources) /\ ToSet(p) \subseteq nodes /\ p[1] \in ToSet(p)
        /\ \A i \in 1..(Len(p) - 1) : p[i + 1] \in br[p[i]]
    <3>1. /\ Len(p) \in Nat /\ p[1] \in ToSet(x.sources) /\ ToSet(p) \subseteq nodes /\ Len(p) > 1
          /\ \A i \in 1..(Len(p) - 1) : p[i + 1] \in br[p[i]]
      BY <1>3, <1>8, <2>2, <2>3 DEF HoldsPath
    <3>2. 1 \in 1..Len(p)
      BY <3>1
    <3>3. p[1] \in ToSet(p)
      BY <1>7, <2>2, <2>3, <3>2
    <3>4. QED  BY <3>1, <3>3
  <2> DEFINE T == {i \in 1..Len(p) : p[i] \notin R}
  <2>5. T = {}
    <3>1. SUFFICES ASSUME T # {} PROVE FALSE
      OBVIOUS
    <3>2. PICK a \in T : \A b \in T : a <= b
      <4>1. T \subseteq Nat
        OBVIOUS
      <4> HIDE DEF T
      <4>2. QED  BY <3>1, <4>1, LeastNumber
    <3>3. a # 1
      BY <1>12, <2>4, <3>2
    <3>4. a - 1 \in 1..(Len(p) - 1) /\ a - 1 \in 1..Len(p) /\ a - 1 \notin T /\ (a - 1) + 1 = a
      BY <2>4, <3>2, <3>3
    <3>5. p[a - 1] \in R
      BY <3>4
    <3>6. p[a] \in br[p[a - 1]]
      BY <2>4, <3>4
    <3>7. p[a] \in R
      BY <1>12, <3>5, <3>6
    <3>8. QED  BY <3>2, <3>7
  <2>6. h + 1 \in 1..Len(p)
    BY <2>4
  <2>7. QED  BY <2>3, <2>5, <2>6
<1>13. ASSUME NEW n \in Nodes, NEW m \in br[n], br[m] = {} PROVE m \in ToSet(x.sinks)
  <2>1. PICK j \in 1..Len(cs) : \E i \in 1..(Len(P(j)) - 1) : Held(j) /\ n = P(j)[i] /\ m = P(j)[i + 1]
    BY <1>5
  <2>2. PICK p : p = P(j)
    OBVIOUS
  <2>3. PICK i \in 1..(Len(p) - 1) : Held(j) /\ m = p[i + 1]
    BY <2>1, <2>2
  <2>4. /\ Len(p) \in Nat /\ p[Len(p)] \in ToSet(x.sinks)
        /\ \A h \in 1..(Len(p) - 1) : p[h + 1] \in br[p[h]]
    BY <1>3, <1>8, <2>2, <2>3 DEF HoldsPath
  <2>5. i + 1 = Len(p)
    <3>1. SUFFICES ASSUME i + 1 # Len(p) PROVE FALSE
      OBVIOUS
    <3>2. i + 1 \in 1..(Len(p) - 1)
      BY <2>4, <3>1
    <3>3. p[(i + 1) + 1] \in br[p[i + 1]]
      BY <2>4, <3>2
    <3>4. QED  BY <1>13, <2>3, <3>3
  <2>6. QED  BY <2>3, <2>4, <2>5
<1>14. \A n \in Nodes : \A m \in br[n] : m \in ToSet(x.out[n])
  BY EdgeIs
<1>15. QED  BY <1>1, <1>9, <1>10, <1>11, <1>12, <1>13, <1>14 DEF IsTree

\* What the search leaves of the paths is a tree: there is one way back from
\* every node, it cannot go round, and only the source pin ends it.
LEMMA FixIsTree ==
  ReaderInv /\ SaveInv /\ AreApart(net) /\ Fix /\ pc' = "write"
    => IsTree(net, conns, branches', netRNodes)
<1> SUFFICES ASSUME ReaderInv, SaveInv, AreApart(net), Fix, pc' = "write"
             PROVE  IsTree(net, conns, branches', netRNodes)
  OBVIOUS
<1>1. pc = "search" /\ rnodeQueue = {}
  BY DEF Fix
<1>2. PICK S : S = UNION {Upstream(n) : n \in SinkPins}
  OBVIOUS
<1>3. NoNode \notin S /\ branches' = BranchesIn(S \ {SourcePin})
  BY <1>2 DEF Fix
<1>4. /\ net \in Nets /\ conns # <<>> /\ AreConns(net, conns)
      /\ SavedUpTo(conns, Len(conns), branches, netRNodes)
      /\ Searched(SourcePin, baseCost, branches, upStreamPathCost, prevs, rnodeQueue)
  BY <1>1 DEF SaveInv, ReaderInv
<1>5. PICK pin \in Nodes : pin = SourcePin
  BY <1>4, SourcePinIs
<1>6. pin \in ToSet(net.sources)
  BY <1>4, <1>5, SourcePinIs
<1>7. ArePrevs(prevs) /\ NoPrevCycle(prevs) /\ \A m \in Nodes : prevs[m] # NoNode => m \in branches[prevs[m]]
  BY <1>4 DEF Searched
<1>8. SinkPins \subseteq Nodes
  <2>1. net.sinks \in Seq(Nodes)
    BY <1>4, NetIs
  <2>2. QED  BY <2>1, ToSetHas DEF SinkPins
<1>9. S \subseteq Nodes
  <2>1. \A n \in SinkPins : Upstream(n) \subseteq Nodes \cup {NoNode}
    BY <1>7, <1>8, UpstreamClosed
  <2>2. QED  BY <1>2, <1>3, <2>1
\* Behind a node of the tree is a node of the tree, from which a path led to it.
<1>10. ASSUME NEW m \in S, m # pin
       PROVE  /\ m \in Nodes /\ prevs[m] \in S /\ prevs[m] \in Nodes
              /\ m \in netRNodes /\ prevs[m] \in netRNodes /\ m \in ToSet(net.out[prevs[m]])
  <2>1. PICK t \in SinkPins : m \in Upstream(t)
    BY <1>2
  <2>2. m \in Nodes /\ m # NoNode
    BY <1>9, NodesFinite
  <2>3. prevs[m] \in Upstream(t)
    BY <1>5, <1>7, <1>8, <1>10, <2>1, <2>2, UpstreamClosed
  <2>4. PICK o : o = prevs[m]
    OBVIOUS
  <2>5. o \in S /\ o \in Nodes /\ o # NoNode
    BY <1>2, <1>9, <2>3, <2>4, NodesFinite
  <2>6. m \in branches[o]
    BY <1>7, <2>2, <2>4, <2>5
  <2>7. o \in netRNodes /\ m \in netRNodes /\ m \in ToSet(net.out[o])
    BY <1>4, <2>5, <2>6, EdgeIs
  <2>8. QED  BY <2>2, <2>4, <2>5, <2>7
<1>11. PICK br : br = branches'
  OBVIOUS
<1>12. br = [n \in Nodes |-> {m \in (S \ {pin}) \cap netRNodes : prevs[m] = n}]
  BY <1>3, <1>5, <1>11 DEF BranchesIn
<1>13. \A n \in Nodes : \A m : m \in br[n] <=> m \in S /\ m # pin /\ prevs[m] = n
  <2>1. ASSUME NEW n \in Nodes PROVE br[n] = {m \in (S \ {pin}) \cap netRNodes : prevs[m] = n}
    BY <1>12
  <2>2. QED  BY <1>10, <2>1
<1>14. br \in [Nodes -> SUBSET Nodes] /\ netRNodes \subseteq Nodes
  <2>1. \A n \in Nodes : br[n] \subseteq Nodes
    BY <1>9, <1>13
  <2>2. QED  BY <1>4, <1>12, <2>1 DEF SavedUpTo
<1>15. \A n \in ToSet(net.sources) : n = pin \/ \A m \in Nodes : n \notin ToSet(net.out[m])
  <2>1. CASE Len(net.sources) = 1
    BY <1>4, <1>6, <2>1, OneSource
  <2>2. CASE Len(net.sources) # 1
    BY <2>2 DEF AreApart
  <2>3. QED  BY <2>1, <2>2
<1>16. ASSUME NEW n \in Nodes, NEW m \in br[n]
       PROVE  m \in ToSet(net.out[n]) /\ m \notin ToSet(net.sources) \cap netRNodes
  <2>1. m \in S /\ m # pin /\ prevs[m] = n
    BY <1>13
  <2>2. m \in ToSet(net.out[n])
    BY <1>10, <2>1
  <2>3. QED  BY <1>15, <2>1, <2>2
<1>17. \A n1, n2 \in Nodes : \A m \in br[n1] : m \in br[n2] => n1 = n2
  BY <1>13
<1>18. ASSUME NEW c \in ToSet(conns), c.rnodes # <<>> PROVE \E n \in Nodes : Last(c.intToSinkPath) \in br[n]
  <2>1. conns \in Seq(ConnRecs)
    BY <1>4 DEF AreConns
  <2>2. PICK j \in 1..Len(conns) : c = conns[j]
    BY <2>1, ToSetHas
  <2>3. PICK p : p = TotalPath(conns[j])
    OBVIOUS
  <2>4. HoldsPath(net, branches, netRNodes, p) /\ p[Len(p)] = Last(c.intToSinkPath)
    BY <1>4, <1>18, <2>2, <2>3, PathsHeld
  <2>5. PICK t : t = Last(c.intToSinkPath)
    OBVIOUS
  <2>6. t \in SinkPins /\ t \in Nodes
    BY <1>8, <2>4, <2>5 DEF HoldsPath, SinkPins
  <2>7. t \in S
    BY <1>2, <1>7, <2>6, UpstreamClosed
  <2>8. t # pin
    <3>1. CASE Len(net.sources) = 1 /\ net.sources[1] \notin ToSet(net.sinks)
      BY <1>4, <1>6, <2>6, <3>1, OneSource DEF SinkPins
    <3>2. CASE ~(Len(net.sources) = 1 /\ net.sources[1] \notin ToSet(net.sinks))
      <4>1. \A n \in Nodes : ToSet(net.out[n]) \cap ToSet(net.sources) = {}
        BY <3>2 DEF AreApart
      <4>2. /\ p \in Seq(Nodes) /\ Len(p) > 1
            /\ \A i \in 1..(Len(p) - 1) : p[i + 1] \in ToSet(net.out[p[i]])
        BY <2>4 DEF HoldsPath, IsPath
      <4>3. PICK l \in Nat : l = Len(p)
        BY <4>2, LenProperties
      <4>4. l - 1 \in 1..(l - 1) /\ (l - 1) + 1 = l /\ l - 1 \in 1..l
        BY <4>2, <4>3
      <4>5. p[l - 1] \in Nodes /\ t \in ToSet(net.out[p[l - 1]])
        <5>1. p[(l - 1) + 1] \in ToSet(net.out[p[l - 1]])
          BY <4>2, <4>3, <4>4
        <5>2. p[l - 1] \in Nodes
          BY <4>2, <4>3, <4>4, ElementOfSeq
        <5>3. QED  BY <2>4, <2>5, <4>3, <4>4, <5>1, <5>2
      <4>6. QED  BY <1>6, <4>1, <4>5
    <3>3. QED  BY <3>1, <3>2
  <2>9. prevs[t] \in Nodes /\ t \in br[prevs[t]]
    BY <1>10, <1>13, <2>7, <2>8
  <2>10. QED  BY <2>5, <2>9
<1>19. ASSUME NEW R \in SUBSET Nodes, ToSet(net.sources) \cap netRNodes \subseteq R, \A n \in R : br[n] \subseteq R,
              NEW n0 \in Nodes, NEW m0 \in br[n0]
       PROVE  m0 \in R
  <2> DEFINE T == {m \in S : m # pin /\ m \notin R}
  <2>1. T = {}
    <3>1. SUFFICES ASSUME T # {} PROVE FALSE
      OBVIOUS
    <3>2. T \in SUBSET Nodes
      BY <1>9
    <3>3. PICK m \in T : prevs[m] \notin T
      <4> HIDE DEF T
      <4>1. QED  BY <1>7, <3>1, <3>2 DEF NoPrevCycle
    <3>4. m \in S /\ m # pin /\ m \notin R
      OBVIOUS
    <3>5. prevs[m] \in S /\ prevs[m] \in Nodes /\ prevs[m] \in netRNodes
      BY <1>10, <3>4
    <3>6. prevs[m] \in R
      <4>1. CASE prevs[m] = pin
        BY <1>6, <1>19, <3>5, <4>1
      <4>2. CASE prevs[m] # pin
        BY <3>3, <3>5, <4>2
      <4>3. QED  BY <4>1, <4>2
    <3>7. m \in br[prevs[m]]
      BY <1>13, <3>4, <3>5
    <3>8. QED  BY <1>19, <3>4, <3>6, <3>7
  <2>2. m0 \in S /\ m0 # pin
    BY <1>13
  <2>3. QED  BY <2>1, <2>2
<1>20. ASSUME NEW n \in Nodes, NEW m \in br[n], br[m] = {} PROVE m \in ToSet(net.sinks)
  <2>1. m \in S /\ m # pin /\ m \in Nodes
    BY <1>9, <1>13
  <2>2. PICK t \in SinkPins : m \in Upstream(t)
    BY <1>2, <2>1
  <2>3. m = t \/ \E x \in Upstream(t) : x \notin {SourcePin, NoNode} /\ prevs[x] = m
    BY <1>7, <1>8, <2>2, UpstreamClosed
  <2>4. CASE m = t
    BY <2>2, <2>4 DEF SinkPins
  <2>5. CASE \E x \in Upstream(t) : x \notin {SourcePin, NoNode} /\ prevs[x] = m
    <3>1. PICK x \in Upstream(t) : x \notin {SourcePin, NoNode} /\ prevs[x] = m
      BY <2>5
    <3>2. x \in S /\ x # pin
      BY <1>2, <1>5, <2>2, <3>1
    <3>3. x \in br[m]
      BY <1>13, <2>1, <3>1, <3>2
    <3>4. QED  BY <1>20, <3>3
  <2>6. QED  BY <2>3, <2>4, <2>5
<1>21. IsTree(net, conns, br, netRNodes)
  BY <1>14, <1>16, <1>17, <1>18, <1>19, <1>20 DEF IsTree
<1>22. QED  BY <1>11, <1>21

\* KeepRoutes and Fix hand a tree to the writer, which leaves it alone.
LEMMA TreeStep == ReaderInv /\ SaveInv /\ TreeInv /\ [Next]_vars => TreeInv'
<1> SUFFICES ASSUME ReaderInv, SaveInv, TreeInv, [Next]_vars, pc' = "write", SourcesApart'
             PROVE  IsTree(net', conns', branches', netRNodes')
  BY DEF TreeInv
<1> USE DEF settled
<1>1. CASE Read
  BY <1>1, ReaderPcIs DEF Read, ReaderPcs
<1>2. CASE KeepRoutes
  <2>1. /\ pc = "save" /\ k > Len(conns) /\ ~hasMultiDriver
        /\ net' = net /\ conns' = conns /\ branches' = branches /\ netRNodes' = netRNodes
    BY <1>2 DEF KeepRoutes
  <2>2. /\ AreConns(net, conns) /\ net \in Nets /\ k \in 1..(Len(conns) + 1)
        /\ SavedUpTo(conns, k - 1, branches, netRNodes) /\ Apart(conns, k - 1)
    BY <2>1 DEF ReaderInv, SaveInv
  <2>3. k - 1 = Len(conns)
    <3>1. PICK l \in Nat : l = Len(conns)
      BY <2>2, LenProperties DEF AreConns
    <3>2. QED  BY <2>1, <2>2, <3>1
  <2>4. AreApart(net)
    BY <2>1 DEF SourcesApart
  <2>5. SavedUpTo(conns, Len(conns), branches, netRNodes) /\ Apart(conns, Len(conns))
    BY <2>2, <2>3
  <2>6. IsTree(net, conns, branches, netRNodes)
    BY <2>2, <2>4, <2>5, ApartIsTree
  <2>7. QED  BY <2>1, <2>6
<1>3. CASE Fix
  <2>1. net' = net /\ conns' = conns /\ netRNodes' = netRNodes
    BY <1>3 DEF Fix
  <2>2. AreApart(net)
    BY <2>1 DEF SourcesApart
  <2>3. QED  BY <1>3, <2>1, <2>2, FixIsTree
<1>4. ASSUME UNCHANGED <<pc, net, conns, branches, netRNodes>>
      PROVE  IsTree(net', conns', branches', netRNodes')
  <2>1. SourcesApart
    BY <1>4 DEF SourcesApart
  <2>2. QED  BY <1>4, <2>1 DEF TreeInv
<1>5. CASE Write
  BY <1>4, <1>5 DEF Write
<1>6. CASE UNCHANGED vars
  BY <1>4, <1>6 DEF vars, readerVars, saveVars
<1>7. QED
  BY <1>1, <1>2, <1>3, <1>5, <1>6
     DEF Next, StartSave, SaveConnection, SaveOtherNet, StartFix, Relax, EndWrite, readerVars

\* One edge to each node makes as many edges as nodes.
LEMMA EdgesOfTree ==
  ASSUME NEW br \in [Nodes -> SUBSET Nodes],
         \A n1, n2 \in Nodes : \A m \in br[n1] : m \in br[n2] => n1 = n2,
         NEW edges, edges = UNION {{<<n, m>> : m \in br[n]} : n \in Nodes},
         NEW driven, driven = {e[2] : e \in edges}
  PROVE  Cardinality(edges) = Cardinality(driven)
<1>1. \A n, m : <<n, m>> \in edges <=> n \in Nodes /\ m \in br[n]
  OBVIOUS
<1>2. \A e \in edges : e = <<e[1], e[2]>> /\ e[1] \in Nodes /\ e[2] \in br[e[1]]
  OBVIOUS
<1>3. IsFiniteSet(edges)
  <2>1. IsFiniteSet(Nodes \X Nodes)
    BY NodesFinite, FS_Product
  <2>2. edges \subseteq Nodes \X Nodes
    BY <1>2
  <2>3. QED  BY <2>1, <2>2, FS_Subset
<1> DEFINE f == [e \in edges |-> e[2]]
<1>4. f \in Surjection(edges, driven)
  BY DEF Surjection
<1>5. IsInjective(f)
  BY <1>2 DEF IsInjective
<1>6. f \in Bijection(edges, driven)
  BY <1>4, <1>5 DEF Bijection, Injection, Surjection
<1>7. ExistsBijection(edges, driven)
  BY <1>6 DEF ExistsBijection
<1>8. QED  BY <1>3, <1>7, FS_Bijection

\* The tree edge by edge is the tree of SavedTree.
LEMMA TreeIsSaved == ReaderInv /\ TreeInv => (SourcesApart => SavedTree)
<1> SUFFICES ASSUME IsTree(net, conns, branches, netRNodes), net \in Nets PROVE SavedTree
  BY DEF ReaderInv, TreeInv, SavedTree
<1>1. PICK br \in [Nodes -> SUBSET Nodes] : br = branches
  BY DEF IsTree
<1>2. PICK sources : sources = ToSet(net.sources) \cap netRNodes
  OBVIOUS
<1>3. PICK edges : edges = UNION {{<<n, m>> : m \in br[n]} : n \in Nodes}
  OBVIOUS
<1>4. PICK driven : driven = {e[2] : e \in edges}
  OBVIOUS
<1>5. \A e \in edges : e[1] \in Nodes /\ e[2] \in br[e[1]] /\ e[2] \in Nodes
  BY <1>3
<1>6. \A m \in driven : m \in Nodes /\ \E n \in Nodes : m \in br[n]
  BY <1>4, <1>5
<1>7. ASSUME NEW n \in Nodes, NEW m \in br[n] PROVE m \in driven
  <2>1. PICK e : e = <<n, m>>
    OBVIOUS
  <2>2. e \in edges /\ e[2] = m
    BY <1>3, <2>1
  <2>3. QED  BY <1>4, <2>2
<1>8. \A e \in edges : e[2] \in ToSet(Outgoing(e[1]))
  BY <1>1, <1>5 DEF IsTree, Outgoing
<1>9. sources \cap driven = {}
  BY <1>1, <1>2, <1>6 DEF IsTree
<1>10. Cardinality(edges) = Cardinality(driven)
  <2>1. \A n1, n2 \in Nodes : \A m \in br[n1] : m \in br[n2] => n1 = n2
    BY <1>1 DEF IsTree
  <2>2. QED  BY <1>3, <1>4, <2>1, EdgesOfTree
<1>11. {Last(c.intToSinkPath) : c \in {y \in ToSet(conns) : y.rnodes # <<>>}} \subseteq driven
  <2>1. ASSUME NEW c \in ToSet(conns), c.rnodes # <<>> PROVE Last(c.intToSinkPath) \in driven
    BY <1>1, <1>7, <2>1 DEF IsTree
  <2>2. QED  BY <2>1
<1>12. sources \in SUBSET Nodes
  BY <1>2 DEF IsTree
<1>13. PICK F : IsReach(F, sources, br)
  BY <1>12, ReachExists
<1>14. PICK h : h = CHOOSE f : f = [j \in 0..Cardinality(Nodes) |->
                   IF j = 0 THEN ToSet(net.sources) \cap netRNodes
                            ELSE UNION {{n} \cup branches[n] : n \in f[j - 1]}]
  OBVIOUS
<1>15. IsReach(h, sources, br)
  <2>1. IsReach(F, ToSet(net.sources) \cap netRNodes, branches)
    BY <1>1, <1>2, <1>13
  <2>2. IsReach(h, ToSet(net.sources) \cap netRNodes, branches)
    BY <1>14, <2>1 DEF IsReach
  <2>3. QED  BY <1>1, <1>2, <2>2
<1>16. PICK R : R = h[Cardinality(Nodes)]
  OBVIOUS
<1>17. driven \subseteq R
  <2>1. sources \subseteq R /\ \A n \in R : br[n] \subseteq R
    BY <1>12, <1>15, <1>16, ReachClosed
  <2>2. PICK Q : Q = R \cap Nodes
    OBVIOUS
  <2>3. Q \in SUBSET Nodes /\ sources \subseteq Q /\ \A n \in Q : br[n] \subseteq Q
    BY <1>12, <2>1, <2>2
  <2>4. \A n \in Nodes : br[n] \subseteq Q
    BY <1>1, <1>2, <2>3 DEF IsTree
  <2>5. QED  BY <1>6, <2>2, <2>4
<1>18. \A m \in driven : br[m] = {} => m \in SinkPins
  BY <1>1, <1>6 DEF IsTree, SinkPins
<1>19. SavedTree
  <2>1. edges = UNION {{<<n, m>> : m \in branches[n]} : n \in Nodes}
    BY <1>1, <1>3
  <2>2. \A m \in driven : branches[m] = {} => m \in SinkPins
    BY <1>1, <1>18
  <2>3. h[Cardinality(Nodes)] = R
    BY <1>16
  <2>4. QED
    BY <1>2, <1>4, <1>8, <1>9, <1>10, <1>11, <1>14, <1>17, <2>1, <2>2, <2>3 DEF SavedTree, Reached
<1>20. QED  BY <1>19

\* SavedTree: what saveAllRoutingSolutions hands to the writer is a routing tree
\* on the device, kept as the routes were or fixed, if no edge leads into a
\* source pin or the net has only one.
THEOREM SavedIsTree == Spec => [](SourcesApart => SavedTree)
<1>1. Init => TreeInv
  BY DEF Init, ReaderInit, TreeInv
<1>2. ReaderInv /\ SaveInv /\ TreeInv /\ [Next]_vars => TreeInv'
  BY TreeStep
<1>3. ReaderInv /\ TreeInv => (SourcesApart => SavedTree)
  BY TreeIsSaved
<1>4. QED  BY <1>1, <1>2, <1>3, ReaderIsRight, SearchIsRight, PTL DEF Spec

=============================================================================
