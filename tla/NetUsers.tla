------------------------------- MODULE NetUsers -----------------------------
(***************************************************************************)
(* The map usersConnectionCounts of a net (src/src/db/connection.h): from  *)
(* a route node to the number of connections of the net that use it.  It   *)
(* is an unordered_map<RouteNode*, int>, so a missing key and a key with   *)
(* value 0 are different states: operator[] creates the key it reads, and  *)
(* only the step from 1 to 0 erases it.  The occupancy of a node counts    *)
(* the nets for which NewlyAdded minus Erased has happened.                *)
(***************************************************************************)
EXTENDS Integers

EmptyMap == [n \in {} |-> 0]

\* countConnectionsOfUser(rnode)
Count(m, n) == IF n \in DOMAIN m THEN m[n] ELSE 0

\* Slip: a shared node is counted once.
IncrementToOne(m, S) == [x \in DOMAIN m \cup S |-> IF x \in S THEN 1 ELSE m[x]]

\* Slip: the second connection of a net is taken for a new user, too.
NewlyAddedTwice(m, n) == Count(m, n) \in {0, 1}

\* incrementUser(rnode) for every node of S: the new map, and whether the
\* caller sees true for n.
IncrementUsers(m, S) ==
  [x \in DOMAIN m \cup S |-> IF x \in S THEN Count(m, x) + 1 ELSE m[x]]
IncrementUser(m, n) == IncrementUsers(m, {n})
NewlyAdded(m, n) == n \notin DOMAIN m

\* Slip: the node is given up with any count.
ErasedAlways(m, n) == Count(m, n) >= 1

\* decrementUser(rnode) for every node of S: the new map, and whether the
\* caller sees true for n.
Erased(m, n) == Count(m, n) = 1
DecrementUsers(m, S) ==
  LET erased == {x \in S : Erased(m, x)}
  IN  [x \in (DOMAIN m \cup S) \ erased |-> IF x \in S THEN Count(m, x) - 1 ELSE m[x]]
DecrementUser(m, n) == DecrementUsers(m, {n})

\* The nodes a net counts as used.
Used(m) == {n \in DOMAIN m : m[n] >= 1}

\* m is a user map over these nodes.
IsUserMap(m, Nodes) == DOMAIN m \subseteq Nodes /\ m \in [DOMAIN m -> Int]

=============================================================================
