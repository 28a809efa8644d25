-------------------------- MODULE RuntimeFirstProofs ------------------------
(***************************************************************************)
(* Whatever the nets, the threads and their interleaving, the occupancy of *)
(* a node is the number of nets that count it as used, no overuse between  *)
(* settled nets is hidden and the counts are those of the routes, but at   *)
(* the sinks of failed searches; and a price is out of date only after a   *)
(* race.                                                                   *)
(*                                                                         *)
(* A count is exact in the middle of a rip-up or a save as well, if it is  *)
(* compared with the part of the route that is charged at this point       *)
(* (Charged).  A failed search spoils this for the sink of its connection  *)
(* only: the sink waits for a route again, but has been given back.        *)
(***************************************************************************)
EXTENDS RuntimeFirst, TLAPS, FiniteSetTheorems, SequenceTheorems

AtHand(t) == pc[t] \notin {"check", "done"}

\* Whether the count of the i-th node of thread t's connection is in force.
InForce(t, i) ==
  \/ pc[t] = "ripup" /\ i >= k[t]
  \/ pc[t] \in {"ripupLoad", "ripupPrice"} /\ i > k[t]
  \/ pc[t] = "save" /\ i < k[t]
  \/ pc[t] \in {"saveLoad", "savePrice"} /\ i <= k[t]

\* The nodes that connection c has charged to its net.
ChargedAt(c, i) == \A t \in Threads : AtHand(t) /\ Conn(t) = c => InForce(t, i)
ChargedFor(c, n) == \E i \in 1..Len(RipNodes(c)) : RipNodes(c)[i] = n /\ ChargedAt(c, i)
Charged(net, n) == {c \in ConnsOf(net) : ChargedFor(c, n)}

\* Where a thread is in its list and its route.
InRange(t) ==
  /\ pc[t] # "done" => pos[t] \in 1..Len(WorkList[t])
  /\ pc[t] = "check" => isRouted[Conn(t)] \/ k[t] = 1
  /\ pc[t] \in {"ripup", "ripupLoad", "ripupPrice"} => k[t] <= Len(RipNodes(Conn(t)))
  /\ pc[t] = "search" => k[t] = 1 /\ rnodes[Conn(t)] = <<>>
  /\ pc[t] \in {"save", "saveLoad", "savePrice"} =>
       rnodes[Conn(t)] # <<>> /\ k[t] <= Len(rnodes[Conn(t)])

RoutesArePaths == \A c \in Conns : rnodes[c] # <<>> => rnodes[c] \in Paths[c]

CountsExact ==
  \A net \in Nets : \A n \in Nodes \ failedSinks :
    /\ Count(users[net], n) = Cardinality(Charged(net, n))
    /\ n \in DOMAIN users[net] => users[net][n] >= 1

\* Without a race a loaded occupancy is still right when it is stored, and
\* whoever has changed a node without having priced it is about to.
PricesFollow ==
  \A n \in Nodes \ raced :
    /\ \A t \in Threads : Loaded(t, n) => loaded[t] = occ[n]
    /\ (\A t \in Threads : ~Pricing(t, n)) => priced[n] = occ[n]

IInv ==
  /\ TypeOK /\ pos \in [Threads -> Nat \ {0}] /\ \A t \in Threads : InRange(t)
  /\ RoutesArePaths /\ CountsExact /\ OccupancyMatchesUsers /\ PricesFollow

-----------------------------------------------------------------------------
\* The user map of a net

LEMMA IncrementLemma ==
  ASSUME NEW m, IsUserMap(m, Nodes), NEW n \in Nodes
  PROVE  LET m1 == IncrementUser(m, n) IN
         /\ IsUserMap(m1, Nodes) /\ DOMAIN m1 = DOMAIN m \cup {n}
         /\ m1[n] = Count(m, n) + 1 /\ Count(m1, n) = Count(m, n) + 1
         /\ \A x \in DOMAIN m \ {n} : m1[x] = m[x]
         /\ \A x : x # n => Count(m1, x) = Count(m, x)
         /\ ~(n \in DOMAIN m /\ m[n] = 0) =>
              Used(m1) = IF NewlyAdded(m, n) THEN Used(m) \cup {n} ELSE Used(m)
<1> DEFINE m1 == IncrementUser(m, n)
<1>1. /\ DOMAIN m1 = DOMAIN m \cup {n}
      /\ \A x \in DOMAIN m \cup {n} : m1[x] = IF x = n THEN Count(m, n) + 1 ELSE m[x]
  BY DEF IncrementUser, IncrementUsers
<1>2. m \in [DOMAIN m -> Int] /\ DOMAIN m \subseteq Nodes /\ Count(m, n) \in Int
  BY DEF IsUserMap, Count
<1>3. IsUserMap(m1, Nodes)
  <2>1. \A x \in DOMAIN m \cup {n} : m1[x] \in Int
    BY <1>1, <1>2
  <2>2. m1 = [x \in DOMAIN m1 |-> m1[x]]
    BY <1>1 DEF IncrementUser, IncrementUsers
  <2> HIDE DEF m1
  <2>3. QED  BY <1>1, <1>2, <2>1, <2>2 DEF IsUserMap
<1> HIDE DEF m1
<1>4. Count(m1, n) = Count(m, n) + 1 /\ \A x : x # n => Count(m1, x) = Count(m, x)
  BY <1>1 DEF Count
<1>5. ASSUME ~(n \in DOMAIN m /\ m[n] = 0)
      PROVE  Used(m1) = IF NewlyAdded(m, n) THEN Used(m) \cup {n} ELSE Used(m)
  <2>1. \A x : x # n => (x \in Used(m1) <=> x \in Used(m))
    BY <1>1 DEF Used
  <2>2. n \in Used(m1) <=> Count(m, n) + 1 >= 1
    BY <1>1 DEF Used
  <2>3. CASE NewlyAdded(m, n)
    BY <1>2, <2>1, <2>2, <2>3 DEF Used, NewlyAdded, Count
  <2>4. CASE ~NewlyAdded(m, n)
    <3>1. n \in DOMAIN m /\ m[n] \in Int /\ m[n] # 0 /\ Count(m, n) = m[n]
      BY <1>2, <1>5, <2>4 DEF NewlyAdded, Count
    <3>2. n \in Used(m1) <=> n \in Used(m)
      BY <2>2, <3>1 DEF Used
    <3>3. QED  BY <2>1, <2>4, <3>2
  <2>5. QED  BY <2>3, <2>4
<1>6. QED  BY <1>1, <1>3, <1>4, <1>5 DEF m1

LEMMA DecrementLemma ==
  ASSUME NEW m, IsUserMap(m, Nodes), NEW n \in Nodes
  PROVE  LET m1 == DecrementUser(m, n) IN
         /\ IsUserMap(m1, Nodes)
         /\ DOMAIN m1 = IF Erased(m, n) THEN DOMAIN m \ {n} ELSE DOMAIN m \cup {n}
         /\ n \in DOMAIN m1 => m1[n] = Count(m, n) - 1 /\ m1[n] # 0
         /\ Count(m1, n) = Count(m, n) - 1
         /\ \A x \in DOMAIN m \ {n} : m1[x] = m[x]
         /\ \A x : x # n => Count(m1, x) = Count(m, x)
         /\ Used(m1) = IF Erased(m, n) THEN Used(m) \ {n} ELSE Used(m)
<1> DEFINE m1 == DecrementUser(m, n)
<1>1. /\ DOMAIN m1 = IF Erased(m, n) THEN DOMAIN m \ {n} ELSE DOMAIN m \cup {n}
      /\ \A x \in DOMAIN m1 : m1[x] = IF x = n THEN Count(m, n) - 1 ELSE m[x]
  <2> DEFINE left == (DOMAIN m \cup {n}) \ {x \in {n} : Erased(m, x)}
  <2>1. m1 = [x \in left |-> IF x \in {n} THEN Count(m, x) - 1 ELSE m[x]]
    BY DEF DecrementUser, DecrementUsers
  <2>2. left = IF Erased(m, n) THEN DOMAIN m \ {n} ELSE DOMAIN m \cup {n}
    OBVIOUS
  <2> HIDE DEF left, m1
  <2>3. QED  BY <2>1, <2>2
<1>2. m \in [DOMAIN m -> Int] /\ DOMAIN m \subseteq Nodes /\ Count(m, n) \in Int
  BY DEF IsUserMap, Count
<1>3. IsUserMap(m1, Nodes)
  <2>1. \A x \in DOMAIN m1 : m1[x] \in Int
    BY <1>1, <1>2
  <2>2. m1 = [x \in DOMAIN m1 |-> m1[x]]
    BY DEF DecrementUser, DecrementUsers
  <2>3. DOMAIN m1 \subseteq Nodes
    BY <1>1, <1>2
  <2> HIDE DEF m1
  <2>4. QED  BY <2>1, <2>2, <2>3 DEF IsUserMap
<1> HIDE DEF m1
<1>4. n \in DOMAIN m1 => m1[n] = Count(m, n) - 1 /\ m1[n] # 0
  BY <1>1, <1>2 DEF Erased
<1>5. Count(m1, n) = Count(m, n) - 1 /\ \A x : x # n => Count(m1, x) = Count(m, x)
  BY <1>1, <1>2 DEF Count, Erased
<1>6. Used(m1) = IF Erased(m, n) THEN Used(m) \ {n} ELSE Used(m)
  <2>1. \A x : x # n => (x \in Used(m1) <=> x \in Used(m))
    BY <1>1 DEF Used
  <2>2. CASE Erased(m, n)
    <3>1. n \notin Used(m1)
      BY <1>1, <2>2 DEF Used
    <3>2. QED  BY <2>1, <2>2, <3>1
  <2>3. CASE ~Erased(m, n)
    <3>1. n \in Used(m1) <=> Count(m, n) - 1 >= 1
      BY <1>1, <2>3 DEF Used
    <3>2. n \in Used(m) <=> Count(m, n) >= 1
      BY DEF Used, Count
    <3>3. n \in Used(m1) <=> n \in Used(m)
      BY <1>2, <2>3, <3>1, <3>2 DEF Erased
    <3>4. QED  BY <2>1, <2>3, <3>3
  <2>4. QED  BY <2>2, <2>3
<1>7. QED  BY <1>1, <1>3, <1>4, <1>5, <1>6 DEF m1

-----------------------------------------------------------------------------
\* Connections and threads

\* What ripup walks over is a route or the sink, without repetition.
LEMMA RipNodesFacts ==
  ASSUME RoutesArePaths, NEW c \in Conns
  PROVE  /\ RipNodes(c) \in Seq(Nodes) /\ Len(RipNodes(c)) \in Nat \ {0}
         /\ RipNodes(c)[1] = Sink[c] /\ Sink[c] \in Nodes /\ Sink[c] \in Sinks
         /\ \A i, j \in 1..Len(RipNodes(c)) : RipNodes(c)[i] = RipNodes(c)[j] => i = j
         /\ \A i \in 1..Len(RipNodes(c)) : RipNodes(c)[i] \in Nodes
         /\ rnodes[c] # <<>> => RipNodes(c) = rnodes[c] /\ Len(rnodes[c]) >= 2
<1>1. Sink[c] \in Nodes /\ NetOf[c] \in Nets /\ Sink[c] \in Sinks
  BY ConnectionsAssumption DEF Sinks
<1>2. CASE rnodes[c] = <<>>
  <2>1. RipNodes(c) = <<Sink[c]>>
    BY <1>2 DEF RipNodes
  <2>2. QED  BY <1>1, <1>2, <2>1
<1>3. CASE rnodes[c] # <<>>
  <2>1. RipNodes(c) = rnodes[c] /\ rnodes[c] \in Paths[c]
    BY <1>3 DEF RipNodes, RoutesArePaths
  <2>2. /\ rnodes[c] \in Seq(Nodes) /\ Len(rnodes[c]) >= 2 /\ rnodes[c][1] = Sink[c]
        /\ \A i, j \in 1..Len(rnodes[c]) : rnodes[c][i] = rnodes[c][j] => i = j
    BY <2>1, ConnectionsAssumption
  <2>3. Len(rnodes[c]) \in Nat /\ \A i \in 1..Len(rnodes[c]) : rnodes[c][i] \in Nodes
    BY <2>2, LenProperties, ElementOfSeq
  <2>4. QED  BY <1>1, <2>1, <2>2, <2>3
<1>4. QED  BY <1>2, <1>3

\* A thread that is not done is at one of its connections, and no other
\* thread is at a connection of the same net.
LEMMA AtConnection ==
  ASSUME NEW t \in Threads, InRange(t), pc[t] # "done"
  PROVE  /\ Conn(t) \in Conns /\ Net(t) \in Nets /\ WorkList[t] # <<>>
         /\ Len(WorkList[t]) \in Nat /\ pos[t] \in 1..Len(WorkList[t])
         /\ \A u \in Threads : InRange(u) /\ pc[u] # "done" /\ Net(u) = Net(t) => u = t
         /\ \A u \in Threads : InRange(u) /\ pc[u] # "done" /\ Conn(u) = Conn(t) => u = t
<1>1. WorkList[t] \in Seq(Conns) /\ pos[t] \in 1..Len(WorkList[t])
  BY WorkListAssumption DEF InRange
<1>2. Conn(t) \in Conns /\ Net(t) \in Nets /\ Len(WorkList[t]) \in Nat
  BY <1>1, ElementOfSeq, LenProperties, ConnectionsAssumption DEF Conn, Net
<1>3. WorkList[t] # <<>>
  BY <1>1, EmptySeq
<1>4. ASSUME NEW u \in Threads, InRange(u), pc[u] # "done", Net(u) = Net(t) PROVE u = t
  BY <1>1, <1>4, WorkListAssumption DEF InRange, Net, Conn
<1>5. QED  BY <1>1, <1>2, <1>3, <1>4 DEF Net

\* What every step of thread t leaves alone: the other threads, nets and routes.
LocalStep(t) ==
  /\ \A u \in Threads \ {t} : pc'[u] = pc[u] /\ pos'[u] = pos[u] /\ k'[u] = k[u]
  /\ \A d \in Conns \ {Conn(t)} : rnodes'[d] = rnodes[d] /\ isRouted'[d] = isRouted[d]
  /\ \A net \in Nets \ {Net(t)} : users'[net] = users[net]
  /\ AtHand(t)' => pos'[t] = pos[t]

LEMMA OtherThreads ==
  ASSUME IInv, NEW t \in Threads, pc[t] # "done", LocalStep(t), NEW u \in Threads \ {t}
  PROVE  /\ InRange(u)'
         /\ \A n : (Loaded(u, n)' <=> Loaded(u, n)) /\ (Pricing(u, n)' <=> Pricing(u, n))
<1>1. /\ pc'[u] = pc[u] /\ pos'[u] = pos[u] /\ k'[u] = k[u] /\ InRange(u) /\ InRange(t)
      /\ Conn(u)' = Conn(u) /\ Net(u)' = Net(u)
  BY DEF IInv, LocalStep, Conn, Net
<1>2. CASE pc[u] = "done"
  BY <1>1, <1>2 DEF InRange, Loaded, Pricing
<1>3. CASE pc[u] # "done"
  <2>1. Conn(u) \in Conns \ {Conn(t)}
    BY <1>1, <1>3, AtConnection
  <2>2. rnodes'[Conn(u)] = rnodes[Conn(u)] /\ isRouted'[Conn(u)] = isRouted[Conn(u)]
    BY <2>1 DEF LocalStep
  <2>3. RipNodes(Conn(u))' = RipNodes(Conn(u))
    BY <1>1, <2>2 DEF RipNodes
  <2>4. InRange(u)'
    BY <1>1, <2>2, <2>3 DEF InRange
  <2>5. \A n : (Loaded(u, n)' <=> Loaded(u, n)) /\ (Pricing(u, n)' <=> Pricing(u, n))
    BY <1>1, <2>2, <2>3 DEF Loaded, Pricing
  <2>6. QED  BY <2>4, <2>5
<1>4. QED  BY <1>2, <1>3

-----------------------------------------------------------------------------
\* What a step of thread t does to the charges

\* Only the charges of its own connection may change, and these are the nodes
\* in force if t is at hand and all nodes otherwise.
LEMMA ChargesOf ==
  ASSUME IInv, NEW t \in Threads, pc[t] # "done", LocalStep(t), NEW c, c = Conn(t)
  PROVE  /\ \A i : ChargedAt(c, i) <=> (AtHand(t) => InForce(t, i))
         /\ \A i : ChargedAt(c, i)' <=> (AtHand(t) => InForce(t, i))'
         /\ \A d \in Conns \ {c} : \A n : ChargedFor(d, n)' <=> ChargedFor(d, n)
<1>1. /\ \A u \in Threads : InRange(u)
      /\ \A u \in Threads \ {t} : /\ Conn(u)' = Conn(u) /\ AtHand(u)' = AtHand(u)
                                  /\ \A i : InForce(u, i)' = InForce(u, i)
  BY DEF IInv, LocalStep, Conn, AtHand, InForce
<1>2. \A u \in Threads \ {t} : AtHand(u) => Conn(u) # c
  BY <1>1, AtConnection DEF AtHand
<1>3. AtHand(t)' => Conn(t)' = c
  BY DEF LocalStep, Conn
<1>4. \A i : ChargedAt(c, i) <=> (AtHand(t) => InForce(t, i))
  BY <1>2 DEF ChargedAt
<1>5. \A i : ChargedAt(c, i)' <=> (AtHand(t) => InForce(t, i))'
  BY <1>1, <1>2, <1>3 DEF ChargedAt
<1>6. ASSUME NEW d \in Conns \ {c}, NEW n PROVE ChargedFor(d, n)' <=> ChargedFor(d, n)
  <2>1. RipNodes(d)' = RipNodes(d)
    BY DEF RipNodes, LocalStep
  <2>2. \A i : ChargedAt(d, i)' <=> ChargedAt(d, i)
    BY <1>1, <1>3 DEF ChargedAt
  <2>3. QED  BY <2>1, <2>2 DEF ChargedFor
<1>7. QED  BY <1>4, <1>5, <1>6

\* The nodes a connection has charged.
LEMMA ChargedNode ==
  ASSUME RoutesArePaths, NEW c \in Conns, NEW i \in 1..Len(RipNodes(c))
  PROVE  ChargedFor(c, RipNodes(c)[i]) <=> ChargedAt(c, i)
BY RipNodesFacts DEF ChargedFor

LEMMA ChargedIsFinite ==
  ASSUME NEW net, NEW n
  PROVE  IsFiniteSet(Charged(net, n)) /\ Cardinality(Charged(net, n)) \in Nat
<1>1. Charged(net, n) \subseteq Conns
  BY DEF Charged, ConnsOf
<1>2. QED  BY <1>1, ConnectionsAssumption, FS_Subset, FS_CardinalityType

\* A step that changes no count and no charge.
LEMMA QuietCounts ==
  ASSUME IInv, NEW t \in Threads, pc[t] # "done", LocalStep(t), users' = users,
         failedSinks \subseteq failedSinks', NEW c, c = Conn(t),
         \A n \in Nodes \ failedSinks' : ChargedFor(c, n)' <=> ChargedFor(c, n)
  PROVE  CountsExact'
<1>1. ASSUME NEW net \in Nets, NEW n \in Nodes \ failedSinks'
      PROVE  Charged(net, n)' = Charged(net, n)
  BY ChargesOf DEF Charged, ConnsOf
<1>2. QED  BY <1>1 DEF IInv, CountsExact

\* ... because the route and what is in force of it stay the same.
LEMMA SameForce ==
  ASSUME IInv, NEW t \in Threads, pc[t] # "done", LocalStep(t), users' = users,
         failedSinks \subseteq failedSinks', rnodes' = rnodes,
         \A i \in 1..Len(RipNodes(Conn(t))) : (AtHand(t) => InForce(t, i))' <=> (AtHand(t) => InForce(t, i))
  PROVE  CountsExact'
<1> DEFINE c == Conn(t)
<1>1. PICK d : d = c
  OBVIOUS
<1>2. RipNodes(d)' = RipNodes(d)
  BY DEF RipNodes
<1>3. \A i \in 1..Len(RipNodes(d)) : ChargedAt(d, i)' <=> ChargedAt(d, i)
  BY <1>1, ChargesOf
<1>4. \A n : ChargedFor(d, n)' <=> ChargedFor(d, n)
  BY <1>2, <1>3 DEF ChargedFor
<1>5. QED  BY <1>1, <1>4, QuietCounts

\* The occupancy follows a change of one key of one user map.
LEMMA OccupancyFollows ==
  ASSUME IInv, NEW net \in Nets, NEW n \in Nodes, failedSinks' = failedSinks,
         \A a \in Nets \ {net} : users'[a] = users[a],
         \A x : x # n => (x \in Used(users'[net]) <=> x \in Used(users[net])),
         \A x \in Nodes \ {n} : occ'[x] = occ[x],
         n \notin failedSinks =>
           \/ /\ n \in Used(users'[net]) <=> n \in Used(users[net])
              /\ occ'[n] = occ[n]
           \/ n \in Used(users'[net]) /\ n \notin Used(users[net]) /\ occ'[n] = occ[n] + 1
           \/ n \notin Used(users'[net]) /\ n \in Used(users[net]) /\ occ'[n] = occ[n] - 1
  PROVE  OccupancyMatchesUsers'
<1> DEFINE U(x) == {a \in Nets : x \in Used(users[a])}
           V(x) == {a \in Nets : x \in Used(users'[a])}
<1>1. \A x \in Nodes \ failedSinks :
        occ[x] = Cardinality(U(x)) /\ IsFiniteSet(U(x)) /\ Cardinality(U(x)) \in Nat
  BY ConnectionsAssumption, FS_Subset, FS_CardinalityType DEF IInv, OccupancyMatchesUsers
<1>2. \A x \in Nodes \ {n} : V(x) = U(x) /\ occ'[x] = occ[x]
  OBVIOUS
<1>3. ASSUME n \notin failedSinks PROVE occ'[n] = Cardinality(V(n))
  <2>1. CASE /\ n \in Used(users'[net]) <=> n \in Used(users[net])
             /\ occ'[n] = occ[n]
    <3>1. V(n) = U(n)
      BY <2>1
    <3>2. QED  BY <1>1, <1>3, <2>1, <3>1
  <2>2. CASE n \in Used(users'[net]) /\ n \notin Used(users[net]) /\ occ'[n] = occ[n] + 1
    <3>1. V(n) = U(n) \cup {net} /\ net \notin U(n)
      BY <2>2
    <3> HIDE DEF U, V
    <3>2. IsFiniteSet(U(n)) /\ Cardinality(U(n)) \in Nat
      BY <1>1, <1>3
    <3>3. Cardinality(V(n)) = Cardinality(U(n)) + 1
      BY <3>1, <3>2, FS_AddElement
    <3>4. QED  BY <1>1, <1>3, <2>2, <3>3
  <2>3. CASE n \notin Used(users'[net]) /\ n \in Used(users[net]) /\ occ'[n] = occ[n] - 1
    <3>1. V(n) = U(n) \ {net} /\ net \in U(n)
      BY <2>3
    <3> HIDE DEF U, V
    <3>2. Cardinality(V(n)) = Cardinality(U(n)) - 1
      BY <1>1, <1>3, <3>1, FS_RemoveElement
    <3>3. QED  BY <1>1, <1>3, <2>3, <3>2
  <2> HIDE DEF U, V
  <2>4. QED  BY <1>3, <2>1, <2>2, <2>3
<1>4. \A x \in Nodes \ failedSinks : occ'[x] = Cardinality(V(x))
  BY <1>1, <1>2, <1>3
<1>5. QED  BY <1>4 DEF OccupancyMatchesUsers

LEMMA OccupancyKept ==
  ASSUME IInv, users' = users, occ' = occ, failedSinks \subseteq failedSinks'
  PROVE  OccupancyMatchesUsers'
BY DEF IInv, OccupancyMatchesUsers

\* A step of a thread that neither is nor comes to price a node.
LEMMA PricesKept ==
  ASSUME IInv, NEW t \in Threads, pc[t] # "done", LocalStep(t),
         UNCHANGED <<occ, priced, loaded, raced>>,
         pc[t] \notin {"ripupLoad", "ripupPrice", "saveLoad", "savePrice"},
         pc'[t] \notin {"ripupLoad", "ripupPrice", "saveLoad", "savePrice"}
  PROVE  PricesFollow'
<1>1. \A n : ~Pricing(t, n) /\ ~Pricing(t, n)' /\ ~Loaded(t, n) /\ ~Loaded(t, n)'
  BY DEF Pricing, Loaded
<1>2. \A u \in Threads : \A n : (Loaded(u, n)' <=> Loaded(u, n)) /\ (Pricing(u, n)' <=> Pricing(u, n))
  BY <1>1, OtherThreads
<1>3. QED  BY <1>2 DEF IInv, PricesFollow

\* A thread that changes a node is about to price it; and if its occupancy
\* changes without a race, no other thread holds an older one.
LEMMA PricesOfCounting ==
  ASSUME IInv, NEW t \in Threads, pc[t] # "done", LocalStep(t), NEW n \in Nodes,
         UNCHANGED <<priced, loaded>>, pc[t] \in {"ripup", "save"},
         Pricing(t, n)', \A x : ~Loaded(t, x)',
         \A x \in Nodes \ {n} : occ'[x] = occ[x],
         (occ'[n] = occ[n] /\ raced' = raced) \/ raced' = Races(t, n)
  PROVE  PricesFollow'
<1>1. \A x : ~Pricing(t, x) /\ ~Loaded(t, x)
  BY DEF Pricing, Loaded
<1>2. \A u \in Threads \ {t} : \A x : (Loaded(u, x)' <=> Loaded(u, x)) /\ (Pricing(u, x)' <=> Pricing(u, x))
  BY OtherThreads
<1>3. ASSUME NEW x \in Nodes \ raced', x # n
      PROVE  /\ \A u \in Threads : Loaded(u, x)' => loaded'[u] = occ'[x]
             /\ (\A u \in Threads : ~Pricing(u, x)') => priced'[x] = occ'[x]
  <2>1. x \notin raced
    BY <1>3 DEF Races
  <2>2. QED  BY <1>1, <1>2, <1>3, <2>1 DEF IInv, PricesFollow
<1>4. ASSUME n \notin raced', NEW u \in Threads, Loaded(u, n)' PROVE loaded'[u] = occ'[n]
  <2>1. u # t /\ Loaded(u, n)
    BY <1>2, <1>4
  <2>2. occ'[n] = occ[n] /\ raced' = raced
    BY <1>4, <2>1 DEF Races
  <2>3. QED  BY <1>4, <2>1, <2>2 DEF IInv, PricesFollow
<1>5. QED  BY <1>3, <1>4 DEF PricesFollow

\* A thread that stores a price has loaded the right one, but for a race.
LEMMA PricesOfStoring ==
  ASSUME IInv, NEW t \in Threads, pc[t] # "done", LocalStep(t), NEW n \in Nodes,
         UNCHANGED <<occ, loaded, raced>>, Loaded(t, n),
         pc'[t] \notin {"ripupLoad", "ripupPrice", "saveLoad", "savePrice"},
         priced' = [priced EXCEPT ![n] = loaded[t]]
  PROVE  PricesFollow'
<1>1. \A x : ~Pricing(t, x)' /\ ~Loaded(t, x)' /\ (x # n => ~Pricing(t, x))
  BY DEF Pricing, Loaded
<1>2. \A u \in Threads \ {t} : \A x : (Loaded(u, x)' <=> Loaded(u, x)) /\ (Pricing(u, x)' <=> Pricing(u, x))
  BY OtherThreads
<1>3. \A x \in Nodes : priced'[x] = IF x = n THEN loaded[t] ELSE priced[x]
  BY DEF IInv, TypeOK
<1>4. \A x \in Nodes \ raced : \A u \in Threads : Loaded(u, x)' => loaded[u] = occ[x]
  BY <1>1, <1>2 DEF IInv, PricesFollow
<1>5. n \notin raced => loaded[t] = occ[n]
  BY DEF IInv, PricesFollow
<1>6. \A x \in Nodes \ raced : x # n /\ (\A u \in Threads : ~Pricing(u, x)') => priced[x] = occ[x]
  BY <1>1, <1>2 DEF IInv, PricesFollow
<1>7. QED  BY <1>3, <1>4, <1>5, <1>6 DEF PricesFollow

LEMMA AssembleStep ==
  ASSUME IInv, NEW t \in Threads, pc[t] # "done", LocalStep(t), TypeOK',
         pos' \in [Threads -> Nat \ {0}], InRange(t)', RoutesArePaths', CountsExact',
         OccupancyMatchesUsers', PricesFollow'
  PROVE  IInv'
<1>1. \A u \in Threads : InRange(u)'
  BY OtherThreads
<1>2. QED  BY <1>1 DEF IInv

-----------------------------------------------------------------------------
\* The steps that change no count

\* Where thread t stands, and what its indices mean.
LEMMA AtNode ==
  ASSUME IInv, NEW t \in Threads, pc[t] # "done"
  PROVE  LET c == Conn(t) IN
         /\ c \in Conns /\ Net(t) \in Nets /\ WorkList[t] # <<>> /\ k[t] \in Nat \ {0}
         /\ Len(WorkList[t]) \in Nat /\ pos[t] \in 1..Len(WorkList[t]) /\ InRange(t)
         /\ RipNodes(c) \in Seq(Nodes) /\ Len(RipNodes(c)) \in Nat \ {0}
         /\ rnodes[c] \in Seq(Nodes) /\ Len(rnodes[c]) \in Nat
         /\ pc[t] \in {"ripup", "ripupLoad", "ripupPrice"} =>
              k[t] \in 1..Len(RipNodes(c)) /\ RipNodes(c)[k[t]] \in Nodes
         /\ pc[t] \in {"save", "saveLoad", "savePrice"} =>
              /\ k[t] \in 1..Len(rnodes[c]) /\ rnodes[c][k[t]] \in Nodes
              /\ rnodes[c] # <<>> /\ RipNodes(c) = rnodes[c]
<1>1. InRange(t) /\ k[t] \in Nat \ {0} /\ rnodes \in [Conns -> Seq(Nodes)] /\ RoutesArePaths
  BY DEF IInv, TypeOK
<1>2. /\ Conn(t) \in Conns /\ Net(t) \in Nets /\ WorkList[t] # <<>>
      /\ Len(WorkList[t]) \in Nat /\ pos[t] \in 1..Len(WorkList[t])
  BY <1>1, AtConnection
<1>3. /\ RipNodes(Conn(t)) \in Seq(Nodes) /\ Len(RipNodes(Conn(t))) \in Nat \ {0}
      /\ \A i \in 1..Len(RipNodes(Conn(t))) : RipNodes(Conn(t))[i] \in Nodes
      /\ rnodes[Conn(t)] # <<>> => RipNodes(Conn(t)) = rnodes[Conn(t)]
  BY <1>1, <1>2, RipNodesFacts
<1>4. rnodes[Conn(t)] \in Seq(Nodes) /\ Len(rnodes[Conn(t)]) \in Nat
  BY <1>1, <1>2, LenProperties
<1>5. pc[t] \in {"ripup", "ripupLoad", "ripupPrice"} => k[t] \in 1..Len(RipNodes(Conn(t)))
  BY <1>1, <1>3 DEF InRange
<1>6. pc[t] \in {"save", "saveLoad", "savePrice"} =>
        rnodes[Conn(t)] # <<>> /\ k[t] \in 1..Len(rnodes[Conn(t)])
  BY <1>1, <1>4 DEF InRange
<1>7. QED  BY <1>1, <1>2, <1>3, <1>4, <1>5, <1>6

LEMMA NextConnectionFacts ==
  ASSUME IInv, NEW t \in Threads, pc[t] # "done", NextConnection(t)
  PROVE  /\ pos' \in [Threads -> Nat \ {0}] /\ k' \in [Threads -> Nat \ {0}]
         /\ \A u \in Threads : pos'[u] \in 1..(Len(WorkList[u]) + 1)
         /\ pos'[t] >= 2 /\ k'[t] = 1 /\ pc'[t] \in {"check", "done"} /\ ~AtHand(t)'
         /\ pc'[t] = "check" => pos'[t] \in 1..Len(WorkList[t])
         /\ pc' \in [Threads -> {"check", "ripup", "ripupLoad", "ripupPrice", "search",
                                 "save", "saveLoad", "savePrice", "done"}]
         /\ \A u \in Threads \ {t} : pc'[u] = pc[u] /\ pos'[u] = pos[u] /\ k'[u] = k[u]
<1>1. Len(WorkList[t]) \in Nat /\ pos[t] \in 1..Len(WorkList[t])
  BY AtNode
<1>2. pos'[t] = pos[t] + 1 /\ pc'[t] = IF pos[t] = Len(WorkList[t]) THEN "done" ELSE "check"
  BY DEF NextConnection, IInv, TypeOK
<1>3. pos' \in [Threads -> Nat \ {0}] /\ k' \in [Threads -> Nat \ {0}] /\ k'[t] = 1
  BY <1>1 DEF NextConnection, IInv, TypeOK
<1>4. \A u \in Threads \ {t} : pc'[u] = pc[u] /\ pos'[u] = pos[u] /\ k'[u] = k[u]
  BY DEF NextConnection, IInv, TypeOK
<1>5. ASSUME NEW u \in Threads PROVE pos'[u] \in 1..(Len(WorkList[u]) + 1)
  <2>1. CASE u = t
    BY <1>1, <1>2, <2>1
  <2>2. CASE u # t
    BY <1>4, <2>2 DEF IInv, TypeOK
  <2>3. QED  BY <2>1, <2>2
<1>6. pc' \in [Threads -> {"check", "ripup", "ripupLoad", "ripupPrice", "search",
                           "save", "saveLoad", "savePrice", "done"}]
  BY DEF NextConnection, IInv, TypeOK
<1>7. QED  BY <1>1, <1>2, <1>3, <1>4, <1>5, <1>6 DEF AtHand

LEMMA CheckRoutedIInv ==
  ASSUME IInv, NEW t \in Threads, phase = "route", CheckRouted(t)
  PROVE  IInv'
<1>1. /\ pc[t] = "check" /\ pc[t] # "done" /\ ~AtHand(t)
      /\ UNCHANGED <<rnodes, isRouted, users, occ, priced, loaded, iter, phase, failedSinks, raced>>
  BY DEF CheckRouted, loopVars, AtHand
<1>2. /\ Conn(t) \in Conns /\ k[t] \in Nat \ {0} /\ InRange(t)
      /\ Len(RipNodes(Conn(t))) \in Nat \ {0} /\ pos[t] \in 1..Len(WorkList[t])
  BY <1>1, AtNode
<1>3. /\ pc' \in [Threads -> {"check", "ripup", "ripupLoad", "ripupPrice", "search",
                              "save", "saveLoad", "savePrice", "done"}]
      /\ pos' \in [Threads -> Nat \ {0}] /\ k' \in [Threads -> Nat \ {0}]
      /\ \A u \in Threads : pos'[u] \in 1..(Len(WorkList[u]) + 1)
      /\ \A u \in Threads \ {t} : pc'[u] = pc[u] /\ pos'[u] = pos[u] /\ k'[u] = k[u]
      /\ \/ pc'[t] = "ripup" /\ k'[t] = 1 /\ pos' = pos
         \/ pc'[t] = "check" /\ pos' = pos /\ isRouted[Conn(t)]
         \/ /\ ~AtHand(t)' /\ pos'[t] >= 2 /\ k'[t] = 1
            /\ pc'[t] = "check" => pos'[t] \in 1..Len(WorkList[t])
  <2>1. CASE NextConnection(t)
    BY <1>1, <2>1, NextConnectionFacts
  <2>2. CASE pc' = [pc EXCEPT ![t] = "ripup"] /\ k' = [k EXCEPT ![t] = 1] /\ pos' = pos
    BY <2>2 DEF IInv, TypeOK
  <2>3. CASE pc' = [pc EXCEPT ![t] = "ripup"] /\ k' = k /\ pos' = pos /\ ~isRouted[Conn(t)]
    BY <1>1, <1>2, <2>3 DEF IInv, TypeOK, InRange
  <2>4. CASE pc' = pc /\ k' = [k EXCEPT ![t] = @ + 1] /\ pos' = pos /\ isRouted[Conn(t)]
    BY <1>1, <2>4 DEF IInv, TypeOK
  <2>5. QED  BY <2>1, <2>2, <2>3, <2>4 DEF CheckRouted
<1>4. LocalStep(t)
  BY <1>1, <1>3 DEF LocalStep, AtHand
<1>5. TypeOK'
  BY <1>1, <1>3 DEF IInv, TypeOK
<1>6. InRange(t)'
  <2>1. pos' = pos => Conn(t)' = Conn(t) /\ RipNodes(Conn(t))' = RipNodes(Conn(t))
    BY <1>1 DEF Conn, RipNodes
  <2>2. QED  BY <1>1, <1>2, <1>3, <2>1 DEF InRange, AtHand
<1>7. RoutesArePaths'
  BY <1>1 DEF IInv, RoutesArePaths
<1>8. CountsExact'
  <2>1. \A i \in 1..Len(RipNodes(Conn(t))) : (AtHand(t) => InForce(t, i)) /\ (AtHand(t) => InForce(t, i))'
    BY <1>1, <1>3 DEF AtHand, InForce
  <2>2. QED  BY <1>1, <1>4, <2>1, SameForce
<1>9. OccupancyMatchesUsers'
  BY <1>1, OccupancyKept
<1>10. PricesFollow'
  BY <1>1, <1>3, <1>4, PricesKept DEF AtHand
<1>11. QED  BY <1>1, <1>3, <1>4, <1>5, <1>6, <1>7, <1>8, <1>9, <1>10, AssembleStep

LEMMA LoadOccupancyIInv ==
  ASSUME IInv, NEW t \in Threads, phase = "route", LoadOccupancy(t)
  PROVE  IInv'
<1>1. /\ pc[t] \in {"ripupLoad", "saveLoad"} /\ pc[t] # "done"
      /\ UNCHANGED <<rnodes, isRouted, users, occ, priced, pos, k, iter, phase, failedSinks, raced>>
  BY DEF LoadOccupancy, loopVars
<1>2. PICK n \in Nodes :
        /\ pc' = [pc EXCEPT ![t] = IF pc[t] = "ripupLoad" THEN "ripupPrice" ELSE "savePrice"]
        /\ loaded' = [loaded EXCEPT ![t] = occ[n]]
        /\ n = IF pc[t] = "ripupLoad" THEN RipNodes(Conn(t))[k[t]] ELSE rnodes[Conn(t)][k[t]]
  BY <1>1, AtNode DEF LoadOccupancy
<1>3. LocalStep(t)
  BY <1>1, <1>2 DEF LocalStep, IInv, TypeOK
<1>4. TypeOK'
  BY <1>1, <1>2 DEF IInv, TypeOK
<1>5. pc'[t] = IF pc[t] = "ripupLoad" THEN "ripupPrice" ELSE "savePrice"
  BY <1>2 DEF IInv, TypeOK
<1>6. InRange(t)'
  <2>1. InRange(t) /\ Conn(t)' = Conn(t)
    BY <1>1 DEF IInv, Conn
  <2>2. QED  BY <1>1, <1>5, <2>1 DEF InRange, RipNodes
<1>7. RoutesArePaths'
  BY <1>1 DEF IInv, RoutesArePaths
<1>8. CountsExact'
  <2>1. \A i \in 1..Len(RipNodes(Conn(t))) : (AtHand(t) => InForce(t, i))' <=> (AtHand(t) => InForce(t, i))
    BY <1>1, <1>5 DEF AtHand, InForce
  <2>2. QED  BY <1>1, <1>3, <2>1, SameForce
<1>9. OccupancyMatchesUsers'
  BY <1>1, OccupancyKept
<1>10. PricesFollow'
  <2>1. Conn(t)' = Conn(t) /\ RipNodes(Conn(t))' = RipNodes(Conn(t))
    BY <1>1 DEF Conn, RipNodes
  <2>2. \A x : (Pricing(t, x)' <=> Pricing(t, x)) /\ (Loaded(t, x)' => x = n)
    BY <1>1, <1>2, <1>5, <2>1 DEF Pricing, Loaded
  <2>3. \A u \in Threads \ {t} : \A x : (Loaded(u, x)' <=> Loaded(u, x)) /\ (Pricing(u, x)' <=> Pricing(u, x))
    BY <1>1, <1>3, OtherThreads
  <2>4. loaded'[t] = occ[n] /\ \A u \in Threads \ {t} : loaded'[u] = loaded[u]
    BY <1>2 DEF IInv, TypeOK
  <2>5. \A x \in Nodes \ raced : \A u \in Threads : Loaded(u, x)' => loaded'[u] = occ[x]
    BY <2>2, <2>3, <2>4 DEF IInv, PricesFollow
  <2>6. \A x \in Nodes \ raced : (\A u \in Threads : ~Pricing(u, x)') => priced[x] = occ[x]
    BY <2>2, <2>3 DEF IInv, PricesFollow
  <2>7. QED  BY <1>1, <2>5, <2>6 DEF PricesFollow
<1>11. pos' \in [Threads -> Nat \ {0}]
  BY <1>1 DEF IInv
<1>12. QED  BY <1>1, <1>3, <1>4, <1>6, <1>7, <1>8, <1>9, <1>10, <1>11, AssembleStep

LEMMA SearchAbortsIInv ==
  ASSUME IInv, NEW t \in Threads, phase = "route", SearchAborts(t)
  PROVE  IInv'
<1>1. /\ pc[t] = "search" /\ phase' = "aborted"
      /\ UNCHANGED <<rnodes, isRouted, users, occ, priced, pc, pos, k, loaded, iter, failedSinks, raced>>
  BY DEF SearchAborts, threadVars
<1>2. LocalStep(t)
  BY <1>1 DEF LocalStep
<1>3. TypeOK' /\ RoutesArePaths' /\ pos' \in [Threads -> Nat \ {0}]
  BY <1>1 DEF IInv, TypeOK, RoutesArePaths
<1>4. InRange(t)'
  BY <1>1 DEF IInv, InRange, Conn
<1>5. CountsExact'
  <2>1. \A i \in 1..Len(RipNodes(Conn(t))) : (AtHand(t) => InForce(t, i))' <=> (AtHand(t) => InForce(t, i))
    BY <1>1 DEF AtHand, InForce
  <2>2. QED  BY <1>1, <1>2, <2>1, SameForce
<1>6. OccupancyMatchesUsers'
  BY <1>1, OccupancyKept
<1>7. PricesFollow'
  BY <1>1, <1>2, PricesKept
<1>8. QED  BY <1>1, <1>2, <1>3, <1>4, <1>5, <1>6, <1>7, AssembleStep

LEMMA SearchFailsIInv ==
  ASSUME IInv, NEW t \in Threads, phase = "route", SearchFails(t)
  PROVE  IInv'
<1>1. /\ pc[t] = "search" /\ pc[t] # "done" /\ NextConnection(t)
      /\ failedSinks' = failedSinks \cup {Sink[Conn(t)]}
      /\ UNCHANGED <<rnodes, isRouted, users, occ, priced, loaded, iter, phase, raced>>
  BY DEF SearchFails
<1>2. /\ pos' \in [Threads -> Nat \ {0}] /\ k' \in [Threads -> Nat \ {0}]
      /\ \A u \in Threads : pos'[u] \in 1..(Len(WorkList[u]) + 1)
      /\ pos'[t] >= 2 /\ k'[t] = 1 /\ ~AtHand(t)'
      /\ pc'[t] = "check" => pos'[t] \in 1..Len(WorkList[t])
      /\ pc' \in [Threads -> {"check", "ripup", "ripupLoad", "ripupPrice", "search",
                              "save", "saveLoad", "savePrice", "done"}]
      /\ \A u \in Threads \ {t} : pc'[u] = pc[u] /\ pos'[u] = pos[u] /\ k'[u] = k[u]
  BY <1>1, NextConnectionFacts
<1>3. LocalStep(t)
  BY <1>1, <1>2 DEF LocalStep
<1>4. TypeOK' /\ RoutesArePaths'
  <2>1. failedSinks' \subseteq Sinks
    BY <1>1, AtNode DEF Sinks, IInv, TypeOK
  <2>2. QED  BY <1>1, <1>2, <2>1 DEF IInv, TypeOK, RoutesArePaths
<1>5. InRange(t)'
  BY <1>2 DEF InRange, AtHand
<1>6. CountsExact'
  <2>1. PICK c \in Conns : c = Conn(t)
    BY <1>1, AtNode
  <2>2. rnodes[c] = <<>> /\ rnodes'[c] = <<>>
    BY <1>1, <2>1, AtNode DEF InRange
  <2>3. RipNodes(c) = <<Sink[c]>> /\ RipNodes(c)' = <<Sink[c]>> /\ Sink[c] \in failedSinks'
    BY <1>1, <2>1, <2>2 DEF RipNodes
  <2>4. \A n : n \notin failedSinks' => ~ChargedFor(c, n) /\ ~ChargedFor(c, n)'
    BY <2>3 DEF ChargedFor
  <2>5. QED  BY <1>1, <1>3, <2>1, <2>4, QuietCounts
<1>7. OccupancyMatchesUsers'
  BY <1>1, OccupancyKept
<1>8. PricesFollow'
  BY <1>1, <1>2, <1>3, PricesKept DEF AtHand
<1>9. QED  BY <1>1, <1>2, <1>3, <1>4, <1>5, <1>6, <1>7, <1>8, AssembleStep

\* The found path is not charged yet.
LEMMA SearchSucceedsIInv ==
  ASSUME IInv, NEW t \in Threads, phase = "route", SearchSucceeds(t)
  PROVE  IInv'
<1>1. /\ pc[t] = "search" /\ pc[t] # "done"
      /\ pc' = [pc EXCEPT ![t] = "save"] /\ isRouted' = [isRouted EXCEPT ![Conn(t)] = TRUE]
      /\ UNCHANGED <<users, occ, priced, pos, k, loaded, iter, phase, failedSinks, raced>>
  BY DEF SearchSucceeds, loopVars
<1>2. PICK c \in Conns : c = Conn(t)
  BY <1>1, AtNode
<1>3. PICK p \in Paths[c] : rnodes' = [rnodes EXCEPT ![c] = p]
  BY <1>2 DEF SearchSucceeds
<1>4. /\ p \in Seq(Nodes) /\ Len(p) >= 2 /\ Len(p) \in Nat /\ p[1] = Sink[c] /\ p # <<>>
      /\ \A i \in 1..Len(p) : p[i] \in Nodes
      /\ rnodes'[c] = p /\ \A d \in Conns \ {c} : rnodes'[d] = rnodes[d]
  <2>1. p \in Seq(Nodes) /\ Len(p) >= 2 /\ p[1] = Sink[c]
    BY ConnectionsAssumption
  <2>2. rnodes'[c] = p /\ \A d \in Conns \ {c} : rnodes'[d] = rnodes[d]
    BY <1>3 DEF IInv, TypeOK
  <2>3. p # <<>>
    BY <2>1
  <2>4. QED  BY <2>1, <2>2, <2>3, ElementOfSeq, LenProperties
<1>5. /\ pc'[t] = "save" /\ k'[t] = 1 /\ pos'[t] = pos[t] /\ Conn(t)' = c
      /\ rnodes[c] = <<>> /\ InRange(t)
  <2>1. InRange(t)
    BY <1>1, <1>2, AtNode
  <2>2. k[t] = 1 /\ rnodes[c] = <<>>
    BY <1>1, <1>2, <2>1 DEF InRange
  <2>3. QED  BY <1>1, <1>2, <2>1, <2>2 DEF Conn, IInv, TypeOK
<1>6. LocalStep(t)
  BY <1>1, <1>2, <1>4 DEF LocalStep, IInv, TypeOK
<1>7. TypeOK' /\ pos' \in [Threads -> Nat \ {0}]
  BY <1>1, <1>2, <1>3, <1>4 DEF IInv, TypeOK
<1>9. InRange(t)'
  BY <1>1, <1>2, <1>4, <1>5, AtNode DEF InRange
<1>10. RoutesArePaths'
  BY <1>4 DEF IInv, RoutesArePaths
<1>11. CountsExact'
  <2>1. \A i : i \in Nat \ {0} => ~ChargedAt(c, i) /\ ~ChargedAt(c, i)'
    BY <1>1, <1>2, <1>5, <1>6, ChargesOf DEF AtHand, InForce
  <2>2. \A n : ~ChargedFor(c, n) /\ ~ChargedFor(c, n)'
    BY <2>1 DEF ChargedFor
  <2>3. QED  BY <1>1, <1>2, <1>6, <2>2, QuietCounts
<1>12. OccupancyMatchesUsers'
  BY <1>1, OccupancyKept
<1>13. PricesFollow'
  BY <1>1, <1>5, <1>6, PricesKept
<1>14. QED  BY <1>1, <1>6, <1>7, <1>9, <1>10, <1>11, <1>12, <1>13, AssembleStep

\* Pricing the node of a rip-up; the last one resets the route.
LEMMA PriceRippedIInv ==
  ASSUME IInv, NEW t \in Threads, phase = "route", PriceRipped(t)
  PROVE  IInv'
<1>1. PICK c \in Conns : c = Conn(t)
  BY AtNode DEF PriceRipped
<1>2. /\ pc[t] = "ripupPrice" /\ pc[t] # "done"
      /\ priced' = [priced EXCEPT ![RipNodes(c)[k[t]]] = loaded[t]]
      /\ UNCHANGED <<users, occ, pos, loaded, iter, phase, failedSinks, raced>>
  BY <1>1 DEF PriceRipped, loopVars
<1>3. /\ k[t] \in 1..Len(RipNodes(c)) /\ RipNodes(c)[k[t]] \in Nodes /\ k[t] \in Nat \ {0}
      /\ InRange(t) /\ Len(RipNodes(c)) \in Nat \ {0} /\ pos[t] \in 1..Len(WorkList[t])
  BY <1>1, <1>2, AtNode
<1>4. \/ /\ k[t] < Len(RipNodes(c)) /\ k' = [k EXCEPT ![t] = @ + 1]
         /\ pc' = [pc EXCEPT ![t] = "ripup"] /\ rnodes' = rnodes /\ isRouted' = isRouted
      \/ /\ k[t] = Len(RipNodes(c)) /\ k' = [k EXCEPT ![t] = 1] /\ pc' = [pc EXCEPT ![t] = "search"]
         /\ rnodes' = [rnodes EXCEPT ![c] = <<>>] /\ isRouted' = [isRouted EXCEPT ![c] = FALSE]
  BY <1>1 DEF PriceRipped
<1>5. /\ pc' \in [Threads -> {"check", "ripup", "ripupLoad", "ripupPrice", "search",
                              "save", "saveLoad", "savePrice", "done"}]
      /\ pc'[t] \in {"ripup", "search"} /\ k' \in [Threads -> Nat \ {0}]
      /\ \A u \in Threads \ {t} : pc'[u] = pc[u] /\ k'[u] = k[u]
      /\ isRouted' \in [Conns -> BOOLEAN] /\ rnodes' \in [Conns -> Seq(Nodes)]
      /\ \A d \in Conns \ {c} : rnodes'[d] = rnodes[d] /\ isRouted'[d] = isRouted[d]
      /\ rnodes'[c] = rnodes[c] \/ rnodes'[c] = <<>>
  <2>1. <<>> \in Seq(Nodes)
    BY EmptySeq
  <2>2. CASE /\ k[t] < Len(RipNodes(c)) /\ k' = [k EXCEPT ![t] = @ + 1]
             /\ pc' = [pc EXCEPT ![t] = "ripup"] /\ rnodes' = rnodes /\ isRouted' = isRouted
    BY <1>3, <2>2 DEF IInv, TypeOK
  <2>3. CASE /\ k[t] = Len(RipNodes(c)) /\ k' = [k EXCEPT ![t] = 1] /\ pc' = [pc EXCEPT ![t] = "search"]
             /\ rnodes' = [rnodes EXCEPT ![c] = <<>>] /\ isRouted' = [isRouted EXCEPT ![c] = FALSE]
    <3>1. rnodes' \in [Conns -> Seq(Nodes)] /\ isRouted' \in [Conns -> BOOLEAN]
      BY <2>1, <2>3 DEF IInv, TypeOK
    <3>2. QED  BY <2>3, <3>1 DEF IInv, TypeOK
  <2>4. QED  BY <1>4, <2>2, <2>3
<1>6. LocalStep(t)
  BY <1>1, <1>2, <1>5 DEF LocalStep
<1>7. TypeOK' /\ pos' \in [Threads -> Nat \ {0}]
  <2>1. priced' \in [Nodes -> Int]
    BY <1>2, <1>3 DEF IInv, TypeOK
  <2>2. QED  BY <1>2, <1>5, <2>1 DEF IInv, TypeOK
<1>8. Conn(t)' = c
  BY <1>1, <1>2 DEF Conn
<1>9. InRange(t)'
  <2>1. CASE /\ k[t] < Len(RipNodes(c)) /\ k' = [k EXCEPT ![t] = @ + 1]
             /\ pc' = [pc EXCEPT ![t] = "ripup"] /\ rnodes' = rnodes /\ isRouted' = isRouted
    <3>1. k'[t] = k[t] + 1 /\ pc'[t] = "ripup" /\ RipNodes(c)' = RipNodes(c)
      BY <2>1 DEF IInv, TypeOK, RipNodes
    <3>2. QED  BY <1>2, <1>3, <1>8, <2>1, <3>1 DEF InRange
  <2>2. CASE /\ k[t] = Len(RipNodes(c)) /\ k' = [k EXCEPT ![t] = 1] /\ pc' = [pc EXCEPT ![t] = "search"]
             /\ rnodes' = [rnodes EXCEPT ![c] = <<>>] /\ isRouted' = [isRouted EXCEPT ![c] = FALSE]
    <3>1. k'[t] = 1 /\ pc'[t] = "search" /\ rnodes'[c] = <<>>
      BY <2>2 DEF IInv, TypeOK
    <3>2. QED  BY <1>2, <1>3, <1>8, <3>1 DEF InRange
  <2>3. QED  BY <1>4, <2>1, <2>2
<1>10. RoutesArePaths'
  <2>1. \A d \in Conns : rnodes'[d] = rnodes[d] \/ rnodes'[d] = <<>>
    BY <1>5
  <2>2. QED  BY <1>2, <2>1 DEF IInv, RoutesArePaths
<1>11. CountsExact'
  <2>1. CASE /\ k[t] < Len(RipNodes(c)) /\ k' = [k EXCEPT ![t] = @ + 1]
             /\ pc' = [pc EXCEPT ![t] = "ripup"] /\ rnodes' = rnodes /\ isRouted' = isRouted
    <3>1. pc'[t] = "ripup" /\ k'[t] = k[t] + 1
      BY <2>1 DEF IInv, TypeOK
    <3>2. \A i \in 1..Len(RipNodes(Conn(t))) : (AtHand(t) => InForce(t, i))' <=> (AtHand(t) => InForce(t, i))
      BY <1>2, <1>3, <3>1 DEF AtHand, InForce
    <3>3. QED  BY <1>2, <1>6, <2>1, <3>2, SameForce
  <2>2. CASE /\ k[t] = Len(RipNodes(c)) /\ k' = [k EXCEPT ![t] = 1] /\ pc' = [pc EXCEPT ![t] = "search"]
             /\ rnodes' = [rnodes EXCEPT ![c] = <<>>] /\ isRouted' = [isRouted EXCEPT ![c] = FALSE]
    <3>1. pc'[t] = "search"
      BY <2>2 DEF IInv, TypeOK
    <3>2. /\ \A i \in 1..Len(RipNodes(c)) : ~ChargedAt(c, i)
          /\ \A i : ~ChargedAt(c, i)'
      BY <1>1, <1>2, <1>3, <1>6, <2>2, <3>1, ChargesOf DEF AtHand, InForce
    <3>3. \A n : ~ChargedFor(c, n) /\ ~ChargedFor(c, n)'
      BY <3>2 DEF ChargedFor
    <3>4. QED  BY <1>1, <1>2, <1>6, <3>3, QuietCounts
  <2>3. QED  BY <1>4, <2>1, <2>2
<1>12. OccupancyMatchesUsers'
  BY <1>2, OccupancyKept
<1>13. PricesFollow'
  <2>1. PICK n \in Nodes : n = RipNodes(c)[k[t]]
    BY <1>3
  <2>2. Loaded(t, n)
    BY <1>1, <1>2, <2>1 DEF Loaded
  <2>3. QED  BY <1>2, <1>5, <1>6, <2>1, <2>2, PricesOfStoring
<1>14. QED  BY <1>2, <1>6, <1>7, <1>9, <1>10, <1>11, <1>12, <1>13, AssembleStep

LEMMA PriceSavedIInv ==
  ASSUME IInv, NEW t \in Threads, phase = "route", PriceSaved(t)
  PROVE  IInv'
<1>1. PICK c \in Conns : c = Conn(t)
  BY AtNode DEF PriceSaved
<1>2. /\ pc[t] = "savePrice" /\ pc[t] # "done"
      /\ priced' = [priced EXCEPT ![rnodes[c][k[t]]] = loaded[t]]
      /\ UNCHANGED <<rnodes, isRouted, users, occ, loaded, iter, phase, failedSinks, raced>>
  BY <1>1 DEF PriceSaved, loopVars
<1>3. /\ k[t] \in 1..Len(rnodes[c]) /\ rnodes[c][k[t]] \in Nodes /\ k[t] \in Nat \ {0}
      /\ InRange(t) /\ Len(rnodes[c]) \in Nat /\ pos[t] \in 1..Len(WorkList[t])
      /\ rnodes[c] # <<>> /\ RipNodes(c) = rnodes[c]
  BY <1>1, <1>2, AtNode
<1>4. \/ /\ k[t] < Len(rnodes[c]) /\ k' = [k EXCEPT ![t] = @ + 1]
         /\ pc' = [pc EXCEPT ![t] = "save"] /\ pos' = pos
      \/ k[t] = Len(rnodes[c]) /\ NextConnection(t)
  BY <1>1 DEF PriceSaved
<1>5. /\ pc' \in [Threads -> {"check", "ripup", "ripupLoad", "ripupPrice", "search",
                              "save", "saveLoad", "savePrice", "done"}]
      /\ pos' \in [Threads -> Nat \ {0}] /\ k' \in [Threads -> Nat \ {0}]
      /\ \A u \in Threads : pos'[u] \in 1..(Len(WorkList[u]) + 1)
      /\ \A u \in Threads \ {t} : pc'[u] = pc[u] /\ pos'[u] = pos[u] /\ k'[u] = k[u]
      /\ \/ k[t] < Len(rnodes[c]) /\ pc'[t] = "save" /\ k'[t] = k[t] + 1 /\ pos'[t] = pos[t]
         \/ /\ k[t] = Len(rnodes[c]) /\ ~AtHand(t)' /\ pos'[t] >= 2 /\ k'[t] = 1
            /\ pc'[t] = "check" => pos'[t] \in 1..Len(WorkList[t])
  <2>1. CASE /\ k[t] < Len(rnodes[c]) /\ k' = [k EXCEPT ![t] = @ + 1]
             /\ pc' = [pc EXCEPT ![t] = "save"] /\ pos' = pos
    <3>1. /\ k \in [Threads -> Nat \ {0}] /\ pos \in [Threads -> Nat \ {0}]
          /\ pc \in [Threads -> {"check", "ripup", "ripupLoad", "ripupPrice", "search",
                                 "save", "saveLoad", "savePrice", "done"}]
          /\ \A u \in Threads : pos[u] \in 1..(Len(WorkList[u]) + 1)
      BY DEF IInv, TypeOK
    <3>2. /\ pc' \in [Threads -> {"check", "ripup", "ripupLoad", "ripupPrice", "search",
                                  "save", "saveLoad", "savePrice", "done"}]
          /\ k' \in [Threads -> Nat \ {0}]
      BY <1>3, <2>1, <3>1
    <3>3. k'[t] = k[t] + 1 /\ pc'[t] = "save" /\ \A u \in Threads \ {t} : pc'[u] = pc[u] /\ k'[u] = k[u]
      BY <2>1, <3>1
    <3>4. QED  BY <2>1, <3>1, <3>2, <3>3
  <2>2. CASE k[t] = Len(rnodes[c]) /\ NextConnection(t)
    <3>1. NextConnection(t) /\ pc[t] # "done"
      BY <1>2, <2>2
    <3>2. /\ pos' \in [Threads -> Nat \ {0}] /\ k' \in [Threads -> Nat \ {0}]
          /\ \A u \in Threads : pos'[u] \in 1..(Len(WorkList[u]) + 1)
          /\ pos'[t] >= 2 /\ k'[t] = 1 /\ ~AtHand(t)'
          /\ pc'[t] = "check" => pos'[t] \in 1..Len(WorkList[t])
      BY <3>1, NextConnectionFacts
    <3>3. /\ pc' \in [Threads -> {"check", "ripup", "ripupLoad", "ripupPrice", "search",
                                  "save", "saveLoad", "savePrice", "done"}]
          /\ \A u \in Threads \ {t} : pc'[u] = pc[u] /\ pos'[u] = pos[u] /\ k'[u] = k[u]
      BY <3>1, NextConnectionFacts
    <3>4. QED  BY <2>2, <3>2, <3>3
  <2>3. QED  BY <1>4, <2>1, <2>2
<1>6. LocalStep(t)
  BY <1>2, <1>5 DEF LocalStep, AtHand
<1>7. TypeOK'
  <2>1. priced' \in [Nodes -> Int]
    BY <1>2, <1>3 DEF IInv, TypeOK
  <2>2. QED  BY <1>2, <1>5, <2>1 DEF IInv, TypeOK
<1>8. InRange(t)'
  <2>1. CASE k[t] < Len(rnodes[c]) /\ pc'[t] = "save" /\ k'[t] = k[t] + 1 /\ pos'[t] = pos[t]
    <3>1. Conn(t)' = c
      BY <1>1, <2>1 DEF Conn
    <3>2. QED  BY <1>2, <1>3, <2>1, <3>1 DEF InRange
  <2>2. CASE ~AtHand(t)' /\ k'[t] = 1 /\ (pc'[t] = "check" => pos'[t] \in 1..Len(WorkList[t]))
    BY <2>2 DEF InRange, AtHand
  <2>3. QED  BY <1>5, <2>1, <2>2
<1>9. RoutesArePaths'
  BY <1>2 DEF IInv, RoutesArePaths
<1>10. CountsExact'
  <2>1. \A i \in 1..Len(rnodes[c]) : (AtHand(t) => InForce(t, i))' <=> (AtHand(t) => InForce(t, i))
    BY <1>2, <1>3, <1>5 DEF AtHand, InForce
  <2>2. QED  BY <1>1, <1>2, <1>3, <1>6, <2>1, SameForce
<1>11. OccupancyMatchesUsers'
  BY <1>2, OccupancyKept
<1>12. PricesFollow'
  <2>1. PICK n \in Nodes : n = rnodes[c][k[t]]
    BY <1>3
  <2>2. Loaded(t, n)
    BY <1>1, <1>2, <2>1 DEF Loaded
  <2>3. pc'[t] \notin {"ripupLoad", "ripupPrice", "saveLoad", "savePrice"}
    BY <1>5 DEF AtHand
  <2>4. QED  BY <1>2, <1>6, <2>1, <2>2, <2>3, PricesOfStoring
<1>13. QED  BY <1>2, <1>5, <1>6, <1>7, <1>8, <1>9, <1>10, <1>11, <1>12, AssembleStep

-----------------------------------------------------------------------------
\* The steps that count: the charge and the count of one node move together

\* Thread t's connection gains or loses the charge of its k-th node only.
LEMMA ChargeMoves ==
  ASSUME IInv, NEW t \in Threads, LocalStep(t), rnodes' = rnodes, k' = k,
         \/ pc[t] = "ripup" /\ pc'[t] = "ripupLoad"
         \/ pc[t] = "save" /\ pc'[t] = "saveLoad",
         NEW c \in Conns, c = Conn(t), NEW n \in Nodes, n = RipNodes(c)[k[t]],
         NEW a \in Nets, NEW x \in Nodes
  PROVE  /\ a # Net(t) \/ x # n => Charged(a, x)' = Charged(a, x)
         /\ a = Net(t) /\ x = n /\ pc[t] = "ripup" =>
              c \in Charged(a, x) /\ Charged(a, x)' = Charged(a, x) \ {c}
         /\ a = Net(t) /\ x = n /\ pc[t] = "save" =>
              c \notin Charged(a, x) /\ Charged(a, x)' = Charged(a, x) \cup {c}
<1>1. k[t] \in 1..Len(RipNodes(c)) /\ pc[t] # "done" /\ RipNodes(c)' = RipNodes(c) /\ Net(t) = NetOf[c]
  BY AtNode DEF RipNodes, Net
<1>2. \A i, j \in 1..Len(RipNodes(c)) : RipNodes(c)[i] = RipNodes(c)[j] => i = j
  BY RipNodesFacts DEF IInv
<1>3. Len(RipNodes(c)) \in Nat
  BY <1>1, AtNode
<1>4. \A i \in 1..Len(RipNodes(c)) : i # k[t] => (ChargedAt(c, i)' <=> ChargedAt(c, i))
  BY <1>1, <1>3, ChargesOf DEF AtHand, InForce
<1>5. /\ pc[t] = "ripup" => ChargedAt(c, k[t]) /\ ~ChargedAt(c, k[t])'
      /\ pc[t] = "save" => ~ChargedAt(c, k[t]) /\ ChargedAt(c, k[t])'
  <2>1. k[t] \in Nat
    BY <1>1, <1>3
  <2>2. /\ pc[t] = "ripup" => (AtHand(t) => InForce(t, k[t])) /\ ~(AtHand(t)' => InForce(t, k[t])')
        /\ pc[t] = "save" => ~(AtHand(t) => InForce(t, k[t])) /\ (AtHand(t)' => InForce(t, k[t])')
    BY <1>1, <2>1 DEF AtHand, InForce
  <2>3. PICK i : i = k[t]
    OBVIOUS
  <2>4. /\ ChargedAt(c, i) <=> (AtHand(t) => InForce(t, i))
        /\ ChargedAt(c, i)' <=> (AtHand(t) => InForce(t, i))'
    BY <1>1, ChargesOf
  <2>5. InForce(t, k[t])' <=> InForce(t, i)'
    BY <2>3
  <2>6. ChargedAt(c, k[t])' <=> ChargedAt(c, i)'
    BY <2>3
  <2>7. QED  BY <2>2, <2>3, <2>4, <2>5, <2>6
<1>6. x # n => (ChargedFor(c, x)' <=> ChargedFor(c, x))
  BY <1>1, <1>4 DEF ChargedFor
<1>7. /\ pc[t] = "ripup" => ChargedFor(c, n) /\ ~ChargedFor(c, n)'
      /\ pc[t] = "save" => ~ChargedFor(c, n) /\ ChargedFor(c, n)'
  BY <1>1, <1>2, <1>5 DEF ChargedFor
<1>8. \A d \in Conns \ {c} : ChargedFor(d, x)' <=> ChargedFor(d, x)
  BY <1>1, ChargesOf
<1>9. a # Net(t) \/ x # n => Charged(a, x)' = Charged(a, x)
  BY <1>1, <1>6, <1>8 DEF Charged, ConnsOf
<1>10. a = Net(t) /\ x = n => Charged(a, x)' \ {c} = Charged(a, x) \ {c}
  BY <1>8 DEF Charged, ConnsOf
<1>11. a = Net(t) /\ x = n => (c \in Charged(a, x)' <=> ChargedFor(c, n)') /\ (c \in Charged(a, x) <=> ChargedFor(c, n))
  BY <1>1 DEF Charged, ConnsOf
<1>12. QED  BY <1>7, <1>9, <1>10, <1>11

LEMMA RipupIInv ==
  ASSUME IInv, NEW t \in Threads, phase = "route", Ripup(t)
  PROVE  IInv'
<1>1. PICK c \in Conns : c = Conn(t)
  BY AtNode DEF Ripup
<1>2. PICK n \in Nodes : n = RipNodes(c)[k[t]]
  BY <1>1, AtNode DEF Ripup
<1>3. PICK a \in Nets : a = Net(t)
  BY AtNode DEF Ripup
<1>4. /\ pc[t] = "ripup" /\ pc[t] # "done" /\ pc' = [pc EXCEPT ![t] = "ripupLoad"]
      /\ users' = [users EXCEPT ![a] = DecrementUser(@, n)]
      /\ occ' = [occ EXCEPT ![n] = IF Erased(users[a], n) THEN @ - 1 ELSE @]
      /\ raced' = IF Erased(users[a], n) THEN Races(t, n) ELSE raced
      /\ UNCHANGED <<rnodes, isRouted, priced, pos, k, loaded, iter, phase, failedSinks>>
  BY <1>1, <1>2, <1>3 DEF Ripup, loopVars
<1>5. /\ k[t] \in 1..Len(RipNodes(c)) /\ k[t] \in Nat \ {0} /\ InRange(t) /\ a = NetOf[c]
      /\ Len(RipNodes(c)) \in Nat \ {0} /\ Conn(t)' = c /\ Net(t)' = a /\ pc'[t] = "ripupLoad"
  BY <1>1, <1>3, <1>4, AtNode DEF Conn, Net, IInv, TypeOK
<1> DEFINE m == users[a]
           m1 == users'[a]
<1>6. m1 = DecrementUser(m, n) /\ \A b \in Nets \ {a} : users'[b] = users[b]
  BY <1>4 DEF IInv, TypeOK
<1>7. IsUserMap(m, Nodes)
  BY DEF IInv, TypeOK
<1> HIDE DEF m, m1
<1>8. /\ IsUserMap(m1, Nodes)
      /\ DOMAIN m1 = IF Erased(m, n) THEN DOMAIN m \ {n} ELSE DOMAIN m \cup {n}
      /\ n \in DOMAIN m1 => m1[n] = Count(m, n) - 1 /\ m1[n] # 0
      /\ Count(m1, n) = Count(m, n) - 1
      /\ \A x \in DOMAIN m \ {n} : m1[x] = m[x]
      /\ \A x : x # n => Count(m1, x) = Count(m, x)
      /\ Used(m1) = IF Erased(m, n) THEN Used(m) \ {n} ELSE Used(m)
  BY <1>6, <1>7, DecrementLemma
<1>9. LocalStep(t)
  BY <1>3, <1>4, <1>6 DEF LocalStep, IInv, TypeOK
<1>10. TypeOK' /\ pos' \in [Threads -> Nat \ {0}]
  <2>1. DOMAIN users' = Nets /\ \A b \in Nets : IsUserMap(users'[b], Nodes)
    BY <1>4, <1>6, <1>8 DEF IInv, TypeOK, m1
  <2>2. occ' \in [Nodes -> Int] /\ raced' \subseteq Nodes
    BY <1>4 DEF IInv, TypeOK, Races
  <2>3. QED  BY <1>4, <2>1, <2>2 DEF IInv, TypeOK
<1>11. InRange(t)'
  BY <1>1, <1>4, <1>5 DEF InRange, RipNodes
<1>12. RoutesArePaths'
  BY <1>4 DEF IInv, RoutesArePaths
<1>13. CountsExact'
  <2> SUFFICES ASSUME NEW b \in Nets, NEW x \in Nodes \ failedSinks
               PROVE  /\ Count(users'[b], x) = Cardinality(Charged(b, x)')
                      /\ x \in DOMAIN users'[b] => users'[b][x] >= 1
    BY <1>4 DEF CountsExact
  <2>0. /\ b # a \/ x # n => Charged(b, x)' = Charged(b, x)
        /\ b = a /\ x = n => c \in Charged(b, x) /\ Charged(b, x)' = Charged(b, x) \ {c}
    <3>1. rnodes' = rnodes /\ k' = k /\ pc[t] = "ripup" /\ pc'[t] = "ripupLoad" /\ n = RipNodes(c)[k[t]]
      BY <1>2, <1>4, <1>5
    <3>2. QED  BY <1>1, <1>3, <1>9, <3>1, ChargeMoves
  <2>1. /\ Count(users[b], x) = Cardinality(Charged(b, x))
        /\ x \in DOMAIN users[b] => users[b][x] >= 1
    BY DEF IInv, CountsExact
  <2>2. CASE b # a
    <3>1. Charged(b, x)' = Charged(b, x)
      BY <2>0, <2>2
    <3>2. QED  BY <1>6, <2>1, <2>2, <3>1
  <2>3. CASE b = a /\ x # n
    <3>1. Charged(b, x)' = Charged(b, x)
      BY <2>0, <2>3
    <3>2. /\ Count(m1, x) = Count(m, x)
          /\ x \in DOMAIN m1 => x \in DOMAIN m /\ m1[x] = m[x]
      BY <1>8, <2>3
    <3>3. QED  BY <2>1, <2>3, <3>1, <3>2 DEF m, m1
  <2>4. CASE b = a /\ x = n
    <3>1. c \in Charged(b, x) /\ Charged(b, x)' = Charged(b, x) \ {c}
      BY <2>0, <2>4
    <3>2. Cardinality(Charged(b, x)') = Cardinality(Charged(b, x)) - 1
      BY <3>1, ChargedIsFinite, FS_RemoveElement
    <3>3. Cardinality(Charged(b, x)') \in Nat
      <4>1. IsFiniteSet(Charged(b, x)')
        BY <3>1, ChargedIsFinite, FS_Subset
      <4>2. QED  BY <4>1, FS_CardinalityType
    <3>4. Count(m, n) = Cardinality(Charged(b, x))
      BY <2>1, <2>4 DEF m
    <3>5. Count(m1, n) = Cardinality(Charged(b, x)')
      BY <1>8, <3>2, <3>4
    <3>6. n \in DOMAIN m1 => m1[n] >= 1
      BY <1>8, <3>3, <3>5
    <3>7. QED  BY <2>4, <3>5, <3>6 DEF m1
  <2>5. QED  BY <2>2, <2>3, <2>4
<1>14. /\ \A x \in Nodes \ {n} : occ'[x] = occ[x]
       /\ Pricing(t, n)' /\ \A x : ~Loaded(t, x)'
  <2>1. \A x \in Nodes \ {n} : occ'[x] = occ[x]
    BY <1>4 DEF IInv, TypeOK
  <2>2. Pricing(t, n)' /\ \A x : ~Loaded(t, x)'
    BY <1>2, <1>4, <1>5 DEF Pricing, Loaded, RipNodes
  <2>3. QED  BY <2>1, <2>2
<1>15. OccupancyMatchesUsers' /\ PricesFollow'
  <2>1. n \in Used(m1) <=> n \in Used(m) /\ ~Erased(m, n)
    BY <1>8
  <2>2. \A x : x # n => (x \in Used(m1) <=> x \in Used(m))
    BY <1>8
  <2>3. CASE Erased(m, n)
    <3>1. n \in Used(m)
      BY <2>3 DEF Erased, Count, Used
    <3>2. occ'[n] = occ[n] - 1 /\ raced' = Races(t, n)
      BY <1>4, <2>3 DEF m, IInv, TypeOK
    <3>3. OccupancyMatchesUsers'
      BY <1>4, <1>6, <1>14, <2>1, <2>2, <2>3, <3>1, <3>2, OccupancyFollows DEF m, m1
    <3>4. QED  BY <1>4, <1>9, <1>14, <3>2, <3>3, PricesOfCounting
  <2>4. CASE ~Erased(m, n)
    <3>1. occ'[n] = occ[n] /\ raced' = raced
      BY <1>4, <2>4 DEF m, IInv, TypeOK
    <3>2. OccupancyMatchesUsers'
      BY <1>4, <1>6, <1>14, <2>1, <2>2, <2>4, <3>1, OccupancyFollows DEF m, m1
    <3>3. QED  BY <1>4, <1>9, <1>14, <3>1, <3>2, PricesOfCounting
  <2>5. QED  BY <2>3, <2>4
<1>16. QED  BY <1>4, <1>9, <1>10, <1>11, <1>12, <1>13, <1>15, AssembleStep

\* A key that is counted up is not at 0: the counts are exact.
LEMMA SaveIInv ==
  ASSUME IInv, NEW t \in Threads, phase = "route", Save(t)
  PROVE  IInv'
<1>1. PICK c \in Conns : c = Conn(t)
  BY AtNode DEF Save
<1>2. PICK n \in Nodes : n = rnodes[c][k[t]]
  BY <1>1, AtNode DEF Save
<1>3. PICK a \in Nets : a = Net(t)
  BY AtNode DEF Save
<1>4. /\ pc[t] = "save" /\ pc[t] # "done" /\ pc' = [pc EXCEPT ![t] = "saveLoad"]
      /\ users' = [users EXCEPT ![a] = IncrementUser(@, n)]
      /\ occ' = [occ EXCEPT ![n] = IF NewlyAdded(users[a], n) THEN @ + 1 ELSE @]
      /\ raced' = IF NewlyAdded(users[a], n) THEN Races(t, n) ELSE raced
      /\ UNCHANGED <<rnodes, isRouted, priced, pos, k, loaded, iter, phase, failedSinks>>
  BY <1>1, <1>2, <1>3 DEF Save, loopVars
<1>5. /\ k[t] \in 1..Len(rnodes[c]) /\ k[t] \in Nat \ {0} /\ InRange(t) /\ a = NetOf[c]
      /\ Len(rnodes[c]) \in Nat /\ Conn(t)' = c /\ Net(t)' = a /\ pc'[t] = "saveLoad"
      /\ rnodes[c] # <<>> /\ RipNodes(c) = rnodes[c]
  BY <1>1, <1>3, <1>4, AtNode DEF Conn, Net, IInv, TypeOK
<1> DEFINE m == users[a]
           m1 == users'[a]
<1>6. m1 = IncrementUser(m, n) /\ \A b \in Nets \ {a} : users'[b] = users[b]
  BY <1>4 DEF IInv, TypeOK
<1>7. IsUserMap(m, Nodes)
  BY DEF IInv, TypeOK
<1> HIDE DEF m, m1
<1>8. /\ IsUserMap(m1, Nodes) /\ DOMAIN m1 = DOMAIN m \cup {n}
      /\ m1[n] = Count(m, n) + 1 /\ Count(m1, n) = Count(m, n) + 1
      /\ \A x \in DOMAIN m \ {n} : m1[x] = m[x]
      /\ \A x : x # n => Count(m1, x) = Count(m, x)
      /\ ~(n \in DOMAIN m /\ m[n] = 0) =>
           Used(m1) = IF NewlyAdded(m, n) THEN Used(m) \cup {n} ELSE Used(m)
  BY <1>6, <1>7, IncrementLemma
<1>9. LocalStep(t)
  BY <1>3, <1>4, <1>6 DEF LocalStep, IInv, TypeOK
<1>10. TypeOK' /\ pos' \in [Threads -> Nat \ {0}]
  <2>1. DOMAIN users' = Nets /\ \A b \in Nets : IsUserMap(users'[b], Nodes)
    BY <1>4, <1>6, <1>8 DEF IInv, TypeOK, m1
  <2>2. occ' \in [Nodes -> Int] /\ raced' \subseteq Nodes
    BY <1>4 DEF IInv, TypeOK, Races
  <2>3. QED  BY <1>4, <2>1, <2>2 DEF IInv, TypeOK
<1>11. /\ n \notin failedSinks => ~(n \in DOMAIN m /\ m[n] = 0)
       /\ \A x : x # n => (x \in Used(m1) <=> x \in Used(m))
  <2>1. n \notin failedSinks => ~(n \in DOMAIN m /\ m[n] = 0)
    BY DEF IInv, CountsExact, m
  <2>2. \A x : x # n => (x \in Used(m1) <=> x \in Used(m))
    BY <1>8 DEF Used
  <2>3. QED  BY <2>1, <2>2
<1>12. InRange(t)'
  BY <1>1, <1>4, <1>5 DEF InRange
<1>13. RoutesArePaths'
  BY <1>4 DEF IInv, RoutesArePaths
<1>14. CountsExact'
  <2> SUFFICES ASSUME NEW b \in Nets, NEW x \in Nodes \ failedSinks
               PROVE  /\ Count(users'[b], x) = Cardinality(Charged(b, x)')
                      /\ x \in DOMAIN users'[b] => users'[b][x] >= 1
    BY <1>4 DEF CountsExact
  <2>0. /\ b # a \/ x # n => Charged(b, x)' = Charged(b, x)
        /\ b = a /\ x = n => c \notin Charged(b, x) /\ Charged(b, x)' = Charged(b, x) \cup {c}
    <3>1. rnodes' = rnodes /\ k' = k /\ pc[t] = "save" /\ pc'[t] = "saveLoad" /\ n = RipNodes(c)[k[t]]
      BY <1>2, <1>4, <1>5
    <3>2. QED  BY <1>1, <1>3, <1>9, <3>1, ChargeMoves
  <2>1. /\ Count(users[b], x) = Cardinality(Charged(b, x))
        /\ x \in DOMAIN users[b] => users[b][x] >= 1
    BY DEF IInv, CountsExact
  <2>2. CASE b # a
    <3>1. Charged(b, x)' = Charged(b, x)
      BY <2>0, <2>2
    <3>2. QED  BY <1>6, <2>1, <2>2, <3>1
  <2>3. CASE b = a /\ x # n
    <3>1. Charged(b, x)' = Charged(b, x)
      BY <2>0, <2>3
    <3>2. /\ Count(m1, x) = Count(m, x)
          /\ x \in DOMAIN m1 => x \in DOMAIN m /\ m1[x] = m[x]
      BY <1>8, <2>3
    <3>3. QED  BY <2>1, <2>3, <3>1, <3>2 DEF m, m1
  <2>4. CASE b = a /\ x = n
    <3>1. c \notin Charged(b, x) /\ Charged(b, x)' = Charged(b, x) \cup {c}
      BY <2>0, <2>4
    <3>2. Cardinality(Charged(b, x)') = Cardinality(Charged(b, x)) + 1
      BY <3>1, ChargedIsFinite, FS_AddElement
    <3>3. Count(m, n) = Cardinality(Charged(b, x)) /\ Count(m, n) \in Nat
      BY <2>1, <2>4, ChargedIsFinite DEF m
    <3>4. QED  BY <1>8, <2>4, <3>2, <3>3 DEF m1
  <2>5. QED  BY <2>2, <2>3, <2>4
<1>15. /\ \A x \in Nodes \ {n} : occ'[x] = occ[x]
       /\ Pricing(t, n)' /\ \A x : ~Loaded(t, x)'
  <2>1. \A x \in Nodes \ {n} : occ'[x] = occ[x]
    BY <1>4 DEF IInv, TypeOK
  <2>2. Pricing(t, n)' /\ \A x : ~Loaded(t, x)'
    BY <1>2, <1>4, <1>5 DEF Pricing, Loaded
  <2>3. QED  BY <2>1, <2>2
<1>16. OccupancyMatchesUsers' /\ PricesFollow'
  <2>1. CASE NewlyAdded(m, n)
    <3>1. occ'[n] = occ[n] + 1 /\ raced' = Races(t, n)
      BY <1>4, <2>1 DEF m, IInv, TypeOK
    <3>2. n \notin failedSinks => n \in Used(m1) /\ n \notin Used(m)
      BY <1>8, <1>11, <2>1 DEF NewlyAdded, Used
    <3>3. OccupancyMatchesUsers'
      BY <1>4, <1>6, <1>11, <1>15, <3>1, <3>2, OccupancyFollows DEF m, m1
    <3>4. QED  BY <1>4, <1>9, <1>15, <3>1, <3>3, PricesOfCounting
  <2>2. CASE ~NewlyAdded(m, n)
    <3>1. occ'[n] = occ[n] /\ raced' = raced
      BY <1>4, <2>2 DEF m, IInv, TypeOK
    <3>2. n \notin failedSinks => (n \in Used(m1) <=> n \in Used(m))
      BY <1>8, <1>11, <2>2
    <3>3. OccupancyMatchesUsers'
      BY <1>4, <1>6, <1>11, <1>15, <3>1, <3>2, OccupancyFollows DEF m, m1
    <3>4. QED  BY <1>4, <1>9, <1>15, <3>1, <3>3, PricesOfCounting
  <2>3. QED  BY <2>1, <2>2
<1>17. QED  BY <1>4, <1>9, <1>10, <1>12, <1>13, <1>14, <1>16, AssembleStep

-----------------------------------------------------------------------------
\* The end of an iteration, and the initial states

LEMMA EndIterationIInv ==
  ASSUME IInv, EndIteration
  PROVE  IInv'
<1>1. /\ \A t \in Threads : pc[t] = "done"
      /\ priced' = UpdatedPrices /\ raced' = {n \in raced : occ[n] < 1}
      /\ UNCHANGED <<rnodes, isRouted, users, occ, loaded, failedSinks>>
  BY DEF EndIteration
<1>2. \/ phase' \in {"converged", "handedOver"} /\ UNCHANGED <<pc, pos, k, iter>>
      \/ /\ iter' = iter + 1 /\ phase' = phase
         /\ pc' = [t \in Threads |-> IF WorkList[t] = <<>> THEN "done" ELSE "check"]
         /\ pos' = [t \in Threads |-> 1] /\ k' = [t \in Threads |-> 1]
  BY DEF EndIteration
<1>3. \A t \in Threads : ~AtHand(t) /\ ~AtHand(t)'
  BY <1>1, <1>2 DEF AtHand
<1>4. \A t \in Threads : \A n : /\ ~Pricing(t, n) /\ ~Pricing(t, n)'
                                /\ ~Loaded(t, n) /\ ~Loaded(t, n)'
  BY <1>3 DEF AtHand, Pricing, Loaded
<1>5. \A n \in Nodes : /\ priced'[n] = IF occ[n] >= 1 THEN occ[n] ELSE priced[n]
                       /\ priced'[n] \in Int /\ occ[n] \in Int
  BY <1>1 DEF UpdatedPrices, IInv, TypeOK
<1>6. \A t \in Threads : WorkList[t] \in Seq(Conns) /\ Len(WorkList[t]) \in Nat
  BY WorkListAssumption, LenProperties
<1>7. /\ pc' \in [Threads -> {"check", "ripup", "ripupLoad", "ripupPrice", "search",
                              "save", "saveLoad", "savePrice", "done"}]
      /\ pos' \in [Threads -> Nat \ {0}] /\ k' \in [Threads -> Nat \ {0}]
      /\ \A t \in Threads : pos'[t] \in 1..(Len(WorkList[t]) + 1)
      /\ \A t \in Threads : pc'[t] = "check" => k'[t] = 1 /\ pos'[t] = 1 /\ WorkList[t] # <<>>
  <2>1. CASE UNCHANGED <<pc, pos, k, iter>>
    BY <1>1, <2>1 DEF IInv, TypeOK
  <2>2. CASE /\ pc' = [t \in Threads |-> IF WorkList[t] = <<>> THEN "done" ELSE "check"]
             /\ pos' = [t \in Threads |-> 1] /\ k' = [t \in Threads |-> 1]
    BY <1>6, <2>2
  <2>3. QED  BY <1>2, <2>1, <2>2
<1>8. TypeOK'
  <2>1. priced' \in [Nodes -> Int]
    BY <1>1, <1>5 DEF UpdatedPrices
  <2>2. iter' \in Nat /\ phase' \in {"route", "converged", "handedOver", "aborted"}
    BY <1>2 DEF IInv, TypeOK
  <2>3. QED  BY <1>1, <1>7, <2>1, <2>2 DEF IInv, TypeOK
<1>9. ASSUME NEW t \in Threads PROVE InRange(t)'
  <2>1. pc'[t] = "check" => pos'[t] \in 1..Len(WorkList[t])
    BY <1>6, <1>7, EmptySeq
  <2>2. QED  BY <1>3, <1>7, <2>1 DEF InRange, AtHand
<1>10. RoutesArePaths'
  BY <1>1 DEF IInv, RoutesArePaths
<1>11. CountsExact'
  <2>1. \A c, n : ChargedFor(c, n)' <=> ChargedFor(c, n)
    BY <1>1, <1>3 DEF ChargedFor, ChargedAt, RipNodes
  <2>2. \A a, n : Charged(a, n)' = Charged(a, n)
    BY <2>1 DEF Charged, ConnsOf
  <2>3. QED  BY <1>1, <2>2 DEF IInv, CountsExact
<1>12. OccupancyMatchesUsers'
  BY <1>1, OccupancyKept
<1>13. PricesFollow'
  <2>1. ASSUME NEW n \in Nodes \ raced' PROVE priced'[n] = occ[n]
    <3>1. CASE n \in raced
      BY <1>1, <1>5, <2>1, <3>1
    <3>2. CASE n \notin raced
      BY <1>4, <1>5, <3>2 DEF IInv, PricesFollow
    <3>3. QED  BY <3>1, <3>2
  <2>2. QED  BY <1>1, <1>4, <2>1 DEF PricesFollow
<1>14. QED  BY <1>7, <1>8, <1>9, <1>10, <1>11, <1>12, <1>13 DEF IInv

\* At the start every sink is charged by its own connection and nothing else.
LEMMA InitIInv == Init => IInv
<1> SUFFICES ASSUME Init PROVE IInv
  OBVIOUS
<1>1. /\ \A c \in Conns : NetOf[c] \in Nets /\ Sink[c] \in Nodes
      /\ \A t \in Threads : WorkList[t] \in Seq(Conns) /\ Len(WorkList[t]) \in Nat
      /\ \A a \in Nets : SinksOf(a) \subseteq Nodes \cap Sinks
  BY ConnectionsAssumption, WorkListAssumption, LenProperties DEF SinksOf, Sinks
<1>2. \A t \in Threads : ~AtHand(t)
  BY DEF Init, AtHand
<1>3. \A a \in Nets : users[a] = [n \in SinksOf(a) |-> 1]
  BY DEF Init
<1>4. TypeOK /\ pos \in [Threads -> Nat \ {0}]
  <2>1. ASSUME NEW a \in Nets PROVE IsUserMap(users[a], Nodes)
    <3>1. users[a] = [n \in SinksOf(a) |-> 1] /\ SinksOf(a) \subseteq Nodes
      BY <1>1, <1>3
    <3> HIDE DEF SinksOf
    <3>2. QED  BY <3>1 DEF IsUserMap
  <2>2. \A t \in Threads : pos[t] \in 1..(Len(WorkList[t]) + 1)
    BY <1>1 DEF Init
  <2>3. isRouted \in [Conns -> BOOLEAN] /\ rnodes \in [Conns -> Seq(Nodes)]
    BY BoundsAssumption, EmptySeq DEF Init
  <2>4. occ \in [Nodes -> Int] /\ priced \in [Nodes -> Int] /\ DOMAIN users = Nets
    BY DEF Init
  <2>5. pc \in [Threads -> {"check", "ripup", "ripupLoad", "ripupPrice", "search",
                            "save", "saveLoad", "savePrice", "done"}]
    BY DEF Init
  <2>6. /\ pos \in [Threads -> Nat \ {0}] /\ k \in [Threads -> Nat \ {0}] /\ loaded \in [Threads -> Int]
        /\ iter \in Nat /\ phase = "route" /\ failedSinks \subseteq Sinks /\ raced \subseteq Nodes
    <3>1. /\ pos = [t \in Threads |-> 1] /\ k = [t \in Threads |-> 1] /\ loaded = [t \in Threads |-> 0]
          /\ iter = 1 /\ phase = "route" /\ failedSinks = {} /\ raced = {}
      BY DEF Init
    <3>2. pos \in [Threads -> Nat \ {0}] /\ k \in [Threads -> Nat \ {0}]
      BY <3>1
    <3>3. loaded \in [Threads -> Int]
      BY <3>1
    <3>4. QED  BY <3>1, <3>2, <3>3
  <2>7. QED  BY <2>1, <2>2, <2>3, <2>4, <2>5, <2>6 DEF TypeOK
<1>5. ASSUME NEW t \in Threads PROVE InRange(t)
  <2>1. pc[t] = "check" => pos[t] \in 1..Len(WorkList[t])
    BY <1>1, EmptySeq DEF Init
  <2>2. k[t] = 1
    BY DEF Init
  <2>3. QED  BY <1>2, <2>1, <2>2 DEF InRange, AtHand
<1>6. RoutesArePaths
  BY DEF Init, RoutesArePaths
<1>7. ASSUME NEW a \in Nets, NEW n \in Nodes
      PROVE  /\ Count(users[a], n) = Cardinality(Charged(a, n))
             /\ n \in DOMAIN users[a] => users[a][n] >= 1
  <2>1. Charged(a, n) = {c \in Conns : NetOf[c] = a /\ Sink[c] = n}
    <3>1. \A c \in Conns : RipNodes(c) = <<Sink[c]>>
      BY DEF Init, RipNodes
    <3>2. \A c \in Conns : ChargedFor(c, n) <=> Sink[c] = n
      BY <1>2, <3>1 DEF ChargedFor, ChargedAt
    <3>3. QED  BY <3>2 DEF Charged, ConnsOf
  <2>2. CASE n \in SinksOf(a)
    <3>1. PICK c \in Conns : NetOf[c] = a /\ Sink[c] = n
      BY <2>2 DEF SinksOf
    <3>2. Charged(a, n) = {c}
      BY <2>1, <3>1, ConnectionsAssumption
    <3>3. Cardinality(Charged(a, n)) = 1
      BY <3>2, FS_Singleton
    <3>4. Count(users[a], n) = 1 /\ users[a][n] = 1
      BY <1>3, <2>2 DEF Count
    <3>5. QED  BY <3>3, <3>4
  <2>3. CASE n \notin SinksOf(a)
    <3>1. Charged(a, n) = {}
      BY <2>1, <2>3 DEF SinksOf
    <3>2. n \notin DOMAIN users[a]
      BY <1>3, <2>3
    <3>3. QED  BY <3>1, <3>2, FS_EmptySet DEF Count
  <2>4. QED  BY <2>2, <2>3
<1>8. ASSUME NEW n \in Nodes
      PROVE  occ[n] = Cardinality({a \in Nets : n \in Used(users[a])})
  <2>1. {a \in Nets : n \in Used(users[a])} = {a \in Nets : n \in SinksOf(a)}
    <3>1. ASSUME NEW a \in Nets PROVE n \in Used(users[a]) <=> n \in SinksOf(a)
      <4>1. DOMAIN users[a] = SinksOf(a) /\ \A x \in SinksOf(a) : users[a][x] = 1
        BY <1>3
      <4>2. QED  BY <4>1 DEF Used
    <3>2. QED  BY <3>1
  <2>2. CASE n \in Sinks
    <3>1. PICK c \in Conns : Sink[c] = n
      BY <2>2 DEF Sinks
    <3>2. {a \in Nets : n \in SinksOf(a)} = {NetOf[c]}
      BY <1>1, <3>1, ConnectionsAssumption DEF SinksOf
    <3>3. QED  BY <2>1, <2>2, <3>2, FS_Singleton DEF Init
  <2>3. CASE n \notin Sinks
    <3>1. {a \in Nets : n \in SinksOf(a)} = {}
      BY <1>1, <2>3
    <3>2. QED  BY <2>1, <2>3, <3>1, FS_EmptySet DEF Init
  <2>4. QED  BY <2>2, <2>3
<1>9. CountsExact /\ OccupancyMatchesUsers
  BY <1>7, <1>8 DEF CountsExact, OccupancyMatchesUsers
<1>10. PricesFollow
  <2>1. \A t \in Threads : \A n : ~Loaded(t, n)
    BY <1>2 DEF AtHand, Loaded
  <2>2. QED  BY <2>1 DEF Init, PricesFollow
<1>11. QED  BY <1>4, <1>5, <1>6, <1>9, <1>10 DEF IInv

LEMMA NextIInv == IInv /\ [Next]_vars => IInv'
<1> SUFFICES ASSUME IInv, [Next]_vars PROVE IInv'
  OBVIOUS
<1>1. CASE EndIteration
  BY <1>1, EndIterationIInv
<1>2. ASSUME NEW t \in Threads, phase = "route", RouteConnection(t) PROVE IInv'
  BY <1>2, CheckRoutedIInv, RipupIInv, LoadOccupancyIInv, PriceRippedIInv, SearchSucceedsIInv,
     SearchFailsIInv, SearchAbortsIInv, SaveIInv, PriceSavedIInv DEF RouteConnection
<1>3. CASE UNCHANGED vars
  <2>1. UNCHANGED <<rnodes, isRouted, users, occ, priced, pc, pos, k, loaded, iter, phase,
                  failedSinks, raced>>
    BY <1>3 DEF vars
  <2>2. TypeOK' /\ pos' \in [Threads -> Nat \ {0}]
    BY <2>1 DEF IInv, TypeOK
  <2>3. \A t \in Threads : InRange(t)'
    BY <2>1 DEF IInv, InRange, Conn, RipNodes
  <2>4. RoutesArePaths' /\ OccupancyMatchesUsers' /\ PricesFollow'
    BY <2>1 DEF IInv, RoutesArePaths, OccupancyMatchesUsers, PricesFollow, Loaded, Pricing,
                Conn, RipNodes
  <2>5. CountsExact'
    <3>1. \A c, n : ChargedFor(c, n)' <=> ChargedFor(c, n)
      BY <2>1 DEF ChargedFor, ChargedAt, RipNodes, AtHand, InForce, Conn
    <3>2. \A a, n : Charged(a, n)' = Charged(a, n)
      BY <3>1 DEF Charged, ConnsOf
    <3>3. QED  BY <2>1, <3>2 DEF IInv, CountsExact
  <2>6. QED  BY <2>2, <2>3, <2>4, <2>5 DEF IInv
<1>4. QED  BY <1>1, <1>2, <1>3 DEF Next

THEOREM RuntimeFirstInvariant == Spec => []IInv
<1>1. QED  BY InitIInv, NextIInv, PTL DEF Spec

-----------------------------------------------------------------------------
\* What follows for the properties

\* A settled net has charged its routes, and the sinks that wait for one.
LEMMA SettledCharges ==
  ASSUME IInv, NEW net \in Nets, Settled(net), NEW n \in Nodes
  PROVE  /\ Charged(net, n) = {c \in ConnsOf(net) : \E i \in 1..Len(RipNodes(c)) : RipNodes(c)[i] = n}
         /\ RoutesOver(net, n) \subseteq Charged(net, n)
         /\ \A c \in Charged(net, n) : c \notin RoutesOver(net, n) => Sink[c] = n /\ rnodes[c] = <<>>
         /\ \A c \in ConnsOf(net) : Sink[c] = n /\ rnodes[c] = <<>> =>
              c \in Charged(net, n) /\ c \notin RoutesOver(net, n)
<1>1. ASSUME NEW c \in ConnsOf(net), NEW i PROVE ChargedAt(c, i)
  BY DEF ChargedAt, Settled, AtHand, Net, ConnsOf
<1>2. Charged(net, n) = {c \in ConnsOf(net) : \E i \in 1..Len(RipNodes(c)) : RipNodes(c)[i] = n}
  BY <1>1 DEF Charged, ChargedFor
<1>3. \A c \in Conns : rnodes[c] # <<>> => RipNodes(c) = rnodes[c]
  BY DEF RipNodes
<1>4. \A c \in Conns : rnodes[c] = <<>> => RipNodes(c) = <<Sink[c]>>
  BY DEF RipNodes
<1>5. \A c \in Conns : rnodes[c] = <<>> => ~Visits(c, n)
  BY DEF Visits
<1>6. \A c \in ConnsOf(net) : c \in Conns
  BY DEF ConnsOf
<1>7. ASSUME NEW c \in ConnsOf(net)
      PROVE  /\ rnodes[c] # <<>> => (c \in Charged(net, n) <=> c \in RoutesOver(net, n))
             /\ rnodes[c] = <<>> => c \notin RoutesOver(net, n) /\ (c \in Charged(net, n) <=> Sink[c] = n)
  <2>1. CASE rnodes[c] # <<>>
    BY <1>2, <1>3, <1>6, <2>1 DEF RoutesOver, Visits
  <2>2. CASE rnodes[c] = <<>>
    BY <1>2, <1>4, <1>5, <1>6, <2>2 DEF RoutesOver
  <2>3. QED  BY <2>1, <2>2
<1>8. Charged(net, n) \subseteq ConnsOf(net) /\ RoutesOver(net, n) \subseteq ConnsOf(net)
  BY DEF Charged, RoutesOver
<1>9. QED  BY <1>2, <1>7, <1>8

LEMMA IInvNoHiddenOveruse == IInv => NoHiddenOveruse
<1> SUFFICES ASSUME IInv, NEW n \in Nodes \ failedSinks
             PROVE  LET nets == {net \in Nets : Settled(net) /\ RoutesOver(net, n) # {}}
                    IN  Cardinality(nets) >= 2 => occ[n] >= Cardinality(nets)
  BY DEF NoHiddenOveruse
<1> DEFINE nets == {net \in Nets : Settled(net) /\ RoutesOver(net, n) # {}}
           U == {net \in Nets : n \in Used(users[net])}
<1>1. IsFiniteSet(nets) /\ IsFiniteSet(U)
  BY ConnectionsAssumption, FS_Subset
<1>2. ASSUME NEW net \in nets PROVE net \in U
  <2>1. PICK c \in RoutesOver(net, n) : TRUE
    OBVIOUS
  <2>2. c \in Charged(net, n)
    BY <2>1, SettledCharges
  <2>3. Cardinality(Charged(net, n)) # 0 /\ Cardinality(Charged(net, n)) \in Nat
    BY <2>2, ChargedIsFinite, FS_EmptySet
  <2>4. Count(users[net], n) >= 1
    BY <2>3 DEF IInv, CountsExact
  <2>5. QED  BY <2>4 DEF Count, Used
<1>3. Cardinality(nets) <= Cardinality(U)
  BY <1>1, <1>2, FS_Subset
<1>4. occ[n] = Cardinality(U)
  BY DEF IInv, OccupancyMatchesUsers
<1>5. Cardinality(U) \in Nat /\ Cardinality(nets) \in Nat
  BY <1>1, FS_CardinalityType
<1>6. QED  BY <1>3, <1>4, <1>5

LEMMA IInvUsersMatchRoutes == IInv => UsersMatchRoutes
<1> SUFFICES ASSUME IInv, NEW net \in Nets, Settled(net), NEW n \in Nodes \ failedSinks
             PROVE  Count(users[net], n) =
                      Cardinality(RoutesOver(net, n))
                        + (IF \E c \in ConnsOf(net) : Sink[c] = n /\ rnodes[c] = <<>> THEN 1 ELSE 0)
  BY DEF UsersMatchRoutes
<1>1. Count(users[net], n) = Cardinality(Charged(net, n))
  BY DEF IInv, CountsExact
<1>2. /\ RoutesOver(net, n) \subseteq Charged(net, n)
      /\ \A c \in Charged(net, n) : c \notin RoutesOver(net, n) => Sink[c] = n /\ rnodes[c] = <<>>
      /\ \A c \in ConnsOf(net) : Sink[c] = n /\ rnodes[c] = <<>> =>
           c \in Charged(net, n) /\ c \notin RoutesOver(net, n)
  BY SettledCharges
<1>3. IsFiniteSet(RoutesOver(net, n)) /\ Cardinality(RoutesOver(net, n)) \in Nat
  BY <1>2, ChargedIsFinite, FS_Subset, FS_CardinalityType
<1>4. CASE \E c \in ConnsOf(net) : Sink[c] = n /\ rnodes[c] = <<>>
  <2>1. PICK c \in ConnsOf(net) : Sink[c] = n /\ rnodes[c] = <<>>
    BY <1>4
  <2>2. \A d \in Charged(net, n) : d \notin RoutesOver(net, n) => d = c
    BY <1>2, <2>1, ConnectionsAssumption DEF ConnsOf, Charged
  <2>3. Charged(net, n) = RoutesOver(net, n) \cup {c} /\ c \notin RoutesOver(net, n)
    BY <1>2, <2>1, <2>2
  <2>4. Cardinality(Charged(net, n)) = Cardinality(RoutesOver(net, n)) + 1
    BY <1>3, <2>3, FS_AddElement
  <2>5. QED  BY <1>1, <1>4, <2>4
<1>5. CASE ~\E c \in ConnsOf(net) : Sink[c] = n /\ rnodes[c] = <<>>
  <2>1. Charged(net, n) = RoutesOver(net, n)
    BY <1>2, <1>5 DEF Charged
  <2>2. QED  BY <1>1, <1>3, <1>5, <2>1
<1>6. QED  BY <1>4, <1>5

\* The occupancy of a node is the number of nets that count it as used, after
\* every step of every thread, but for the sinks of failed searches: also for
\* the pins that a stale target mark has let a route into.
THEOREM OccupancyIsExact == Spec => []OccupancyMatchesUsers
<1>1. IInv => OccupancyMatchesUsers
  BY DEF IInv
<1>2. QED  BY <1>1, RuntimeFirstInvariant, PTL

\* The test for overused nodes sees every two settled nets that meet, but at
\* the sink of a failed search.
THEOREM OveruseIsSeen == Spec => []NoHiddenOveruse
<1>1. QED  BY IInvNoHiddenOveruse, RuntimeFirstInvariant, PTL

\* The user counts of a settled net are those of its routes and waiting sinks,
\* but at the sinks of failed searches.
THEOREM CountsMatchRoutes == Spec => []UsersMatchRoutes
<1>1. QED  BY IInvUsersMatchRoutes, RuntimeFirstInvariant, PTL

\* In every interleaving, a price that nobody is about to store again is that
\* of the occupancy, unless the occupancy has changed between the load and the
\* store of another thread.
THEOREM PricesFollowButForRaces == Spec => []PriceLostOnlyInRace
<1>1. IInv => PriceLostOnlyInRace
  BY DEF IInv, PricesFollow, PriceLostOnlyInRace
<1>2. QED  BY <1>1, RuntimeFirstInvariant, PTL

=============================================================================
