----------------------------- MODULE BatchCommit ----------------------------
(***************************************************************************)
(* What stable-first routing promises ("stable"): a batch of nets is       *)
(* re-routed as if in one atomic step, against the routes and occupancies  *)
(* of the last synchronization barrier.  Only the connections of the batch *)
(* that are unrouted or congested at that barrier change.  After the last  *)
(* batch the labeled connections are re-routed one at a time.  Occupancies *)
(* are exact until a search fails.                                         *)
(***************************************************************************)
EXTENDS Integers, Sequences, FiniteSets

CONSTANTS
  Nodes, Nets, Conns, NetOf, Sink, Paths, NumBatches,
  BatchConns       \* BatchConns[b]: the connections of the nets of batch b

VARIABLES
  routes,          \* routes[c] at the last barrier, <<>> if none
  occupancy,       \* occupancy[n] at the last barrier
  nextBatch,       \* the batch to commit next, NumBatches after the last one
  ignored,         \* connections that are taken for routed from the start
  exact            \* every search so far has found a path

commitVars == <<routes, occupancy, nextBatch, ignored, exact>>

Visited(p) == {p[i] : i \in 1..Len(p)}

\* The number of nets over each node under the routes r; a sink that waits
\* for its first route counts its net.
OccupancyOf(r) ==
  [n \in Nodes |-> Cardinality({net \in Nets : \E c \in Conns :
     NetOf[c] = net /\ (n \in Visited(r[c]) \/ (r[c] = <<>> /\ Sink[c] = n))})]

MustReroute(c) ==
  /\ c \notin ignored
  /\ routes[c] = <<>> \/ \E n \in Visited(routes[c]) : occupancy[n] > 1

\* Exactly the connections of C that must be re-routed get a new path.
Reroute(C) ==
  LET moved == {c \in C : MustReroute(c)} IN
  /\ DOMAIN routes' = Conns
  /\ \A c \in moved : routes'[c] \in Paths[c] \cup {<<>>}
  /\ \A c \in Conns \ moved : routes'[c] = routes[c]
  /\ exact' = (exact /\ \A c \in moved : routes'[c] # <<>>)
  /\ exact' => occupancy' = OccupancyOf(routes')
  /\ UNCHANGED ignored

CommitInit ==
  /\ routes = [c \in Conns |-> <<>>]
  /\ occupancy = OccupancyOf(routes)
  /\ nextBatch = 0
  /\ ignored \subseteq Conns
  /\ exact = TRUE

Commit ==
  /\ nextBatch < NumBatches
  /\ Reroute(BatchConns[nextBatch])
  /\ nextBatch' = nextBatch + 1

RerouteLabeled ==
  /\ nextBatch = NumBatches
  /\ \E c \in Conns : Reroute({c})
  /\ UNCHANGED nextBatch

NextIteration ==
  /\ nextBatch = NumBatches
  /\ nextBatch' = 0
  /\ UNCHANGED <<routes, occupancy, ignored, exact>>

CommitSpec == CommitInit /\ [][Commit \/ RerouteLabeled \/ NextIteration]_commitVars

=============================================================================
