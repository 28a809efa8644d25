----------------------------- MODULE RuntimeFirst ---------------------------
(***************************************************************************)
(* The runtime-first parallel router: runtimeFirstParallelRouting          *)
(* (src/src/route/runtimeFirstRouting.cpp) with the rip-up and re-route of *)
(* one connection (src/src/route/aStarRoute.cpp, sync = false).  Threads   *)
(* route disjoint sets of nets over the same route nodes and update        *)
(* occupancies and present congestion costs without any lock: occupancy is *)
(* an atomic counter, the cost is a plain float that is recomputed from it *)
(* by a load and a later store.                                            *)
(*                                                                         *)
(* The A* search is a choice among the paths of the connection (Search     *)
(* models it); a price is represented by the occupancy it was computed     *)
(* from, since a cost is a function of that occupancy.                     *)
(***************************************************************************)
EXTENDS NetUsers, Sequences, FiniteSets

CONSTANTS
  Nodes, Nets, Conns, Threads,
  NetOf,           \* NetOf[c]: the net of connection c
  Sink,            \* Sink[c]: the sink node of c
  Paths,           \* Paths[c]: node sequences from Sink[c] to the source
  PinBounce,       \* the sinks that other connections may pass through
  StaleTargets,    \* StaleTargets[c]: the sinks whose stale target mark may
                   \* carry the identifier of c (AStarRouter models the marks)
  WorkList,        \* WorkList[t]: the connections of the nets of thread t
  MayFail,         \* whether a search may find no path
  InitiallyRouted, \* the values isRouted may have before it is first set
  MaxIter          \* bound on the number of iterations

Sinks == {Sink[c] : c \in Conns}

ASSUME ConnectionsAssumption ==
  /\ IsFiniteSet(Nets) /\ IsFiniteSet(Conns)
  /\ NetOf \in [Conns -> Nets]
  /\ Sink \in [Conns -> Nodes]
  /\ \A c, d \in Conns : c # d => Sink[c] # Sink[d]
  /\ \A c \in Conns : \A p \in Paths[c] :
       /\ p \in Seq(Nodes) /\ Len(p) >= 2 /\ p[1] = Sink[c]
       /\ \A i, j \in 1..Len(p) : p[i] = p[j] => i = j
  /\ PinBounce \subseteq Sinks /\ StaleTargets \in [Conns -> SUBSET Sinks]

\* Every net is routed by one thread, all its connections in a row.
ASSUME WorkListAssumption ==
  /\ WorkList \in [Threads -> Seq(Conns)]
  /\ \A t, u \in Threads : \A i \in 1..Len(WorkList[t]), j \in 1..Len(WorkList[u]) :
       /\ NetOf[WorkList[t][i]] = NetOf[WorkList[u][j]] => t = u
       /\ t = u /\ WorkList[t][i] = WorkList[u][j] => i = j

ASSUME BoundsAssumption ==
  MayFail \in BOOLEAN /\ InitiallyRouted \subseteq BOOLEAN /\ MaxIter \in Nat

VARIABLES
  rnodes,    \* rnodes[c]: the nodes of the route of c, sink first
  isRouted,  \* isRouted[c]
  users,     \* users[net]: its usersConnectionCounts
  occ,       \* occ[n]: the atomic occupancy
  priced,    \* priced[n]: the occupancy presentCongestionCost stands for
  pc,        \* what each thread does next
  pos,       \* the position of its connection in WorkList
  k,         \* its index into the nodes it walks over
  loaded,    \* the occupancy it has loaded and not yet priced
  iter,      \* the iteration of routeIndirectConnections
  phase,     \* "route", or how the iterations ended
  failedSinks, \* history: the sinks for which a search has failed
  raced      \* history: the nodes whose occupancy has changed while another
             \* thread held an occupancy loaded for their price

vars == <<rnodes, isRouted, users, occ, priced, pc, pos, k, loaded, iter, phase,
          failedSinks, raced>>
threadVars == <<pc, pos, k, loaded>>
loopVars == <<iter, phase, failedSinks>>

\* The initial users and occupancies are those of updateSinkNodeUsage: every
\* sink is pre-counted as used by its own net, and priced.
SinksOf(net) == {Sink[c] : c \in {d \in Conns : NetOf[d] = net}}

Init ==
  /\ rnodes = [c \in Conns |-> <<>>]
  /\ isRouted \in [Conns -> InitiallyRouted]
  /\ users = [net \in Nets |-> [n \in SinksOf(net) |-> 1]]
  /\ occ = [n \in Nodes |-> IF n \in Sinks THEN 1 ELSE 0]
  /\ priced = occ
  /\ pc = [t \in Threads |-> IF WorkList[t] = <<>> THEN "done" ELSE "check"]
  /\ pos = [t \in Threads |-> 1]
  /\ k = [t \in Threads |-> 1]
  /\ loaded = [t \in Threads |-> 0]
  /\ iter = 1
  /\ phase = "route"
  /\ failedSinks = {}
  /\ raced = {}

Conn(t) == WorkList[t][pos[t]]
Net(t) == NetOf[Conn(t)]

\* ripup: a connection without a route gives back the count of its sink.
RipNodes(c) == IF rnodes[c] = <<>> THEN <<Sink[c]>> ELSE rnodes[c]

\* Thread t goes on with its next connection, or is finished.
NextConnection(t) ==
  /\ pos' = [pos EXCEPT ![t] = @ + 1]
  /\ k' = [k EXCEPT ![t] = 1]
  /\ pc' = [pc EXCEPT ![t] = IF pos[t] = Len(WorkList[t]) THEN "done" ELSE "check"]

-----------------------------------------------------------------------------

\* shouldRoute: not routed, or one of the nodes is seen overused.  The nodes
\* are looked at one after the other while other threads change them.
CheckRouted(t) ==
  /\ pc[t] = "check"
  /\ \/ /\ ~isRouted[Conn(t)]
        /\ pc' = [pc EXCEPT ![t] = "ripup"]
        /\ UNCHANGED <<pos, k>>
     \/ /\ isRouted[Conn(t)]
        /\ k[t] <= Len(rnodes[Conn(t)])
        /\ occ[rnodes[Conn(t)][k[t]]] > 1
        /\ pc' = [pc EXCEPT ![t] = "ripup"]
        /\ k' = [k EXCEPT ![t] = 1]
        /\ UNCHANGED pos
     \/ /\ isRouted[Conn(t)]
        /\ k[t] <= Len(rnodes[Conn(t)])
        /\ occ[rnodes[Conn(t)][k[t]]] <= 1
        /\ k' = [k EXCEPT ![t] = @ + 1]
        /\ UNCHANGED <<pos, pc>>
     \/ /\ isRouted[Conn(t)]
        /\ k[t] > Len(rnodes[Conn(t)])
        /\ NextConnection(t)
  /\ UNCHANGED <<rnodes, isRouted, users, occ, priced, loaded, loopVars, raced>>

\* A thread is between its change of node n and its store of the price of n;
\* or already past the load, so that the price it will store is fixed.
Loaded(t, n) ==
  \/ pc[t] = "ripupPrice" /\ RipNodes(Conn(t))[k[t]] = n
  \/ pc[t] = "savePrice" /\ rnodes[Conn(t)][k[t]] = n
Pricing(t, n) ==
  \/ pc[t] = "ripupLoad" /\ RipNodes(Conn(t))[k[t]] = n
  \/ pc[t] = "saveLoad" /\ rnodes[Conn(t)][k[t]] = n
  \/ Loaded(t, n)

\* The raced nodes after thread t has changed the occupancy of n.
Races(t, n) ==
  IF \E u \in Threads \ {t} : Loaded(u, n) THEN raced \cup {n} ELSE raced \ {n}

\* ripup: decrementUser and, if the key was erased, decrementOccupancy.
Ripup(t) ==
  LET n == RipNodes(Conn(t))[k[t]] IN
  /\ pc[t] = "ripup"
  /\ users' = [users EXCEPT ![Net(t)] = DecrementUser(@, n)]
  /\ occ' = [occ EXCEPT ![n] = IF Erased(users[Net(t)], n) THEN @ - 1 ELSE @]
  /\ raced' = IF Erased(users[Net(t)], n) THEN Races(t, n) ELSE raced
  /\ pc' = [pc EXCEPT ![t] = "ripupLoad"]
  /\ UNCHANGED <<rnodes, isRouted, priced, pos, k, loaded, loopVars>>

\* updatePresentCongestionCost: first the atomic load of the occupancy ...
LoadOccupancy(t) ==
  LET c == Conn(t) IN
  /\ \/ /\ pc[t] = "ripupLoad"
        /\ loaded' = [loaded EXCEPT ![t] = occ[RipNodes(c)[k[t]]]]
        /\ pc' = [pc EXCEPT ![t] = "ripupPrice"]
     \/ /\ pc[t] = "saveLoad"
        /\ loaded' = [loaded EXCEPT ![t] = occ[rnodes[c][k[t]]]]
        /\ pc' = [pc EXCEPT ![t] = "savePrice"]
  /\ UNCHANGED <<rnodes, isRouted, users, occ, priced, pos, k, loopVars, raced>>

\* ... then the store of the price; after the last node the route is reset.
PriceRipped(t) ==
  LET c == Conn(t) IN
  /\ pc[t] = "ripupPrice"
  /\ priced' = [priced EXCEPT ![RipNodes(c)[k[t]]] = loaded[t]]
  /\ \/ /\ k[t] < Len(RipNodes(c))
        /\ k' = [k EXCEPT ![t] = @ + 1]
        /\ pc' = [pc EXCEPT ![t] = "ripup"]
        /\ UNCHANGED <<rnodes, isRouted>>
     \/ /\ k[t] = Len(RipNodes(c))
        /\ k' = [k EXCEPT ![t] = 1]
        /\ pc' = [pc EXCEPT ![t] = "search"]
        /\ rnodes' = [rnodes EXCEPT ![c] = <<>>]
        /\ isRouted' = [isRouted EXCEPT ![c] = FALSE]
  /\ UNCHANGED <<users, occ, pos, loaded, loopVars, raced>>

\* isAccessiblePinfeedI: a sink other than the own one may be passed if the
\* net already counts it and it is a pin bounce; and, whatever the net, if its
\* target mark is taken for one of this search.
Accessible(c, p) ==
  \A i \in 2..Len(p) : p[i] \in Sinks =>
    \/ p[i] \in StaleTargets[c]
    \/ p[i] \in PinBounce /\ Count(users[NetOf[c]], p[i]) # 0

\* getNodeCost asserts that no count is negative.
Countable(c, p) == \A i \in 2..Len(p) : Count(users[NetOf[c]], p[i]) >= 0

\* routeOneConnection finds a path and saveRouting stores it.
SearchSucceeds(t) ==
  /\ pc[t] = "search"
  /\ \E p \in Paths[Conn(t)] :
       /\ Accessible(Conn(t), p)
       /\ Countable(Conn(t), p)
       /\ rnodes' = [rnodes EXCEPT ![Conn(t)] = p]
  /\ isRouted' = [isRouted EXCEPT ![Conn(t)] = TRUE]
  /\ pc' = [pc EXCEPT ![t] = "save"]
  /\ UNCHANGED <<users, occ, priced, pos, k, loaded, loopVars, raced>>

\* routeOneConnection returns false: the failure is only logged.
SearchFails(t) ==
  /\ MayFail
  /\ pc[t] = "search"
  /\ NextConnection(t)
  /\ failedSinks' = failedSinks \cup {Sink[Conn(t)]}
  /\ UNCHANGED <<rnodes, isRouted, users, occ, priced, loaded, iter, phase, raced>>

\* The search expands a node with a negative count: assert_t ends the program.
SearchAborts(t) ==
  /\ pc[t] = "search"
  /\ \E p \in Paths[Conn(t)] : Accessible(Conn(t), p) /\ ~Countable(Conn(t), p)
  /\ phase' = "aborted"
  /\ UNCHANGED <<rnodes, isRouted, users, occ, priced, threadVars, iter, failedSinks, raced>>

\* updateUsersAndPresentCongestionCost: incrementUser and, if the key is new,
\* incrementOccupancy.
Save(t) ==
  LET n == rnodes[Conn(t)][k[t]] IN
  /\ pc[t] = "save"
  /\ users' = [users EXCEPT ![Net(t)] = IncrementUser(@, n)]
  /\ occ' = [occ EXCEPT ![n] = IF NewlyAdded(users[Net(t)], n) THEN @ + 1 ELSE @]
  /\ raced' = IF NewlyAdded(users[Net(t)], n) THEN Races(t, n) ELSE raced
  /\ pc' = [pc EXCEPT ![t] = "saveLoad"]
  /\ UNCHANGED <<rnodes, isRouted, priced, pos, k, loaded, loopVars>>

PriceSaved(t) ==
  LET c == Conn(t) IN
  /\ pc[t] = "savePrice"
  /\ priced' = [priced EXCEPT ![rnodes[c][k[t]]] = loaded[t]]
  /\ \/ /\ k[t] < Len(rnodes[c])
        /\ k' = [k EXCEPT ![t] = @ + 1]
        /\ pc' = [pc EXCEPT ![t] = "save"]
        /\ UNCHANGED pos
     \/ /\ k[t] = Len(rnodes[c])
        /\ NextConnection(t)
  /\ UNCHANGED <<rnodes, isRouted, users, occ, loaded, loopVars, raced>>

OverUsed == {n \in Nodes : occ[n] > 1}

\* Slip: only the overused nodes are priced.
OverusedPrices == [n \in Nodes |-> IF occ[n] > 1 THEN occ[n] ELSE priced[n]]

\* dynamicCostFactorUpdating prices every node whose occupancy reaches the
\* capacity and leaves the price of the others alone.
UpdatedPrices == [n \in Nodes |-> IF occ[n] >= 1 THEN occ[n] ELSE priced[n]]

\* All threads are joined and the prices updated.  No search failure is
\* counted in this mode, so the loop ends as soon as no node is overused.
EndIteration ==
  /\ phase = "route"
  /\ \A t \in Threads : pc[t] = "done"
  /\ priced' = UpdatedPrices
  /\ raced' = {n \in raced : occ[n] < 1}
  /\ \/ /\ OverUsed = {}
        /\ phase' = "converged"
        /\ UNCHANGED <<pc, pos, k, iter>>
     \/ /\ OverUsed # {}
        /\ iter < MaxIter
        /\ iter' = iter + 1
        /\ pc' = [t \in Threads |-> IF WorkList[t] = <<>> THEN "done" ELSE "check"]
        /\ pos' = [t \in Threads |-> 1]
        /\ k' = [t \in Threads |-> 1]
        /\ UNCHANGED phase
     \/ /\ OverUsed # {}
        /\ iter = MaxIter
        /\ phase' = "handedOver"
        /\ UNCHANGED <<pc, pos, k, iter>>
  /\ UNCHANGED <<rnodes, isRouted, users, occ, loaded, failedSinks>>

RouteConnection(t) ==
  \/ CheckRouted(t) \/ Ripup(t) \/ LoadOccupancy(t) \/ PriceRipped(t)
  \/ SearchSucceeds(t) \/ SearchFails(t) \/ SearchAborts(t)
  \/ Save(t) \/ PriceSaved(t)

Next ==
  \/ EndIteration
  \/ phase = "route" /\ \E t \in Threads : RouteConnection(t)

Spec == Init /\ [][Next]_vars

-----------------------------------------------------------------------------

TypeOK ==
  /\ rnodes \in [Conns -> Seq(Nodes)]
  /\ isRouted \in [Conns -> BOOLEAN]
  /\ DOMAIN users = Nets /\ \A net \in Nets : IsUserMap(users[net], Nodes)
  /\ occ \in [Nodes -> Int]
  /\ priced \in [Nodes -> Int]
  /\ pc \in [Threads -> {"check", "ripup", "ripupLoad", "ripupPrice", "search",
                         "save", "saveLoad", "savePrice", "done"}]
  /\ \A t \in Threads : pos[t] \in 1..(Len(WorkList[t]) + 1)
  /\ k \in [Threads -> Nat \ {0}]
  /\ loaded \in [Threads -> Int]
  /\ iter \in Nat
  /\ phase \in {"route", "converged", "handedOver", "aborted"}
  /\ failedSinks \subseteq Sinks
  /\ raced \subseteq Nodes

\* A net is settled when no thread is in the middle of one of its connections.
Settled(net) ==
  \A t \in Threads : pc[t] \notin {"check", "done"} => Net(t) # net

Visits(c, n) == \E i \in 1..Len(rnodes[c]) : rnodes[c][i] = n
ConnsOf(net) == {c \in Conns : NetOf[c] = net}
RoutesOver(net, n) == {c \in ConnsOf(net) : Visits(c, n)}

\* The occupancy of a node is the number of nets that count it as used, after
\* every single step of every thread: no interleaving of ripup
\* (aStarRoute.cpp:799-804) and updateUsersAndPresentCongestionCost
\* (aStarRoute.cpp:733-738) loses or doubles a net.  A failed search spoils
\* this for the sink it has searched and for no other node, pins that are
\* passed by a stale target mark (aStarRoute.cpp:828-830) included: the sink
\* is given back once too often, and its key may stay in the map with 0.
OccupancyMatchesUsers ==
  \A n \in Nodes \ failedSinks :
    occ[n] = Cardinality({net \in Nets : n \in Used(users[net])})

\* Congestion between nets is never hidden from the test that ends the loop
\* (aStarRoute.cpp:763-766, 130) but at the sink of a failed search: when the
\* routes of two settled nets meet in a node, its occupancy counts both.
NoHiddenOveruse ==
  \A n \in Nodes \ failedSinks :
    LET nets == {net \in Nets : Settled(net) /\ RoutesOver(net, n) # {}}
    IN  Cardinality(nets) >= 2 => occ[n] >= Cardinality(nets)

\* A settled net counts each node once per route through it and once for a
\* sink that waits for its first route (updateSinkNodeUsage,
\* aStarRoute.cpp:418-432): the counts that later rip-ups give back.  Again
\* only the sink of a failed search is excepted.
UsersMatchRoutes ==
  \A net \in Nets : Settled(net) =>
    \A n \in Nodes \ failedSinks :
      Count(users[net], n) =
        Cardinality(RoutesOver(net, n))
          + (IF \E c \in ConnsOf(net) : Sink[c] = n /\ rnodes[c] = <<>> THEN 1 ELSE 0)

\* A price is an older one than that of the occupancy (routeNode.h:94-100)
\* only if the occupancy has changed between another thread's load and its
\* store.  In all other interleavings the last of the threads that change a
\* node leaves the right price, in the middle of an iteration too; and a
\* raced node keeps a wrong price into the next iteration only if no net is
\* left on it (dynamicCostFactorUpdating, aStarRoute.cpp:761-772).
PriceLostOnlyInRace ==
  \A n \in Nodes \ raced :
    (\A t \in Threads : ~Pricing(t, n)) => priced[n] = occ[n]

=============================================================================
