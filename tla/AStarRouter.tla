----------------------------- MODULE AStarRouter ----------------------------
(***************************************************************************)
(* The iterations of routeIndirectConnections, the A* search               *)
(* routeOneConnection, the backtrace saveRouting and the check of the      *)
(* routes that are saved (src/src/route/aStarRoute.cpp), on one thread.    *)
(* The searches of a thread share one array of NodeInfo that is never      *)
(* reset: a node counts as visited, or as the target, when its mark is the *)
(* identifier of the current search.                                       *)
(*                                                                         *)
(* An iteration routes in one of the overlapped modes or over the          *)
(* partition tree.  Here both take the connections one by one; what they   *)
(* do at the same time is the subject of RuntimeFirst, StableFirst and     *)
(* PartitionTree.  Costs are abstracted: the queue may yield any of its    *)
(* nodes.                                                                  *)
(***************************************************************************)
EXTENDS Integers, Sequences, FiniteSets

CONSTANTS
  Nodes,
  Children,   \* Children[n]: the sequence of children of node n
  NumConns,
  NetOf, Source, Sink,   \* of the connections 0..NumConns-1
  EnterableSets, \* what enterable may be
  Bounce,     \* the nodes whose isNodePinBounce is true
  Labeled,    \* the connections of the labeled nets of the stable-first mode
  Garbage,    \* the first value of routedConnectionNum, which is not initialised
  WatchDog,   \* the number of nodes at which the backtrace gives up
  MaxIter     \* 500 in the code

Conns == 0..(NumConns - 1)
NoNode == "none"

ASSUME GraphAssumption ==
  /\ EnterableSets \subseteq [Conns -> SUBSET Nodes]
  /\ IsFiniteSet(Nodes) /\ NoNode \notin Nodes
  /\ WatchDog \in Nat \ {0}
  /\ NumConns \in Nat /\ MaxIter \in Nat \ {0, 1}
  /\ Children \in [Nodes -> Seq(Nodes)]
  /\ \A c \in Conns : Source[c] \in Nodes /\ Sink[c] \in Nodes /\ Source[c] # Sink[c]
  /\ Bounce \subseteq Nodes /\ Labeled \subseteq Conns /\ Garbage \subseteq Int

VARIABLES
  enterable,   \* enterable[d]: the nodes the search for d may enter, by the
               \* rules on bounding box, node type and accessibility
  iter, connectionIdBase, routedConnectionNum, failRouteNum,
  useOverlapRouting,
  mode,        \* "overlap" or "tree": how the iteration routes
  congestion,  \* history: numOverUsedRNodes and routedConnectionNum after each iteration
  c,           \* the connection the loop is at, in sortedConnectionIds order
  pc,          \* "iterate", "next" connection, "search", "save" a route, "end"
               \* of the loop, "saved", "unsaved"; "asserted" or "aborted" (by
               \* the watchdog) when the program ends in a search
  isVisited, isTarget, prev,   \* the fields of the nodes' NodeInfo
  queue,       \* the nodes in the priority queue
  rnode,       \* the node the backtrace is at
  rnodes,      \* rnodes[d]: the route of d, sink first
  opened       \* history: the nodes this search has visited

nodeInfos == <<isVisited, isTarget, prev>>
searchVars == <<nodeInfos, queue, rnode, rnodes, opened>>
counters == <<iter, connectionIdBase, routedConnectionNum, failRouteNum>>
modes == <<useOverlapRouting, mode, congestion>>
vars == <<enterable, counters, modes, c, pc, searchVars>>

Init ==
  /\ enterable \in EnterableSets
  /\ iter = 1 /\ connectionIdBase = 0 /\ routedConnectionNum \in Garbage /\ failRouteNum = 0
  /\ useOverlapRouting = TRUE /\ mode = "overlap" /\ congestion = <<>>
  /\ c = 0 /\ pc = "iterate"
  /\ isVisited = [n \in Nodes |-> -1]
  /\ isTarget = [n \in Nodes |-> -1]
  /\ prev = [n \in Nodes |-> NoNode]
  /\ queue = {} /\ rnode = NoNode /\ opened = {}
  /\ rnodes = [d \in Conns |-> <<>>]

NodesOf(p) == {p[i] : i \in 1..Len(p)}
Congested(d) ==
  \E e \in Conns : NetOf[e] # NetOf[d] /\ NodesOf(rnodes[e]) \cap NodesOf(rnodes[d]) # {}
ShouldRoute(d) == rnodes[d] = <<>> \/ Congested(d)

-----------------------------------------------------------------------------
(* An iteration begins: new identifiers, and the mode *)

\* The ratios decreaseRatio > 0.2 and shareIncreaseRatio > 0.15 between the
\* iterations i - 1 and i, multiplied out.  Where the code divides by zero its
\* ratio is infinite or not a number, and the comparison comes out the same.
Decreased(i) == 5 * (congestion[i - 1].over - congestion[i].over) > congestion[i - 1].over
ShareIncreased(i) ==
  20 * congestion[i].routed * congestion[i - 1].over
    > 23 * congestion[i - 1].routed * congestion[i].over

\* Slip: the first ratio is not asked for.
OverlapIfShared == useOverlapRouting /\ (iter <= 3 \/ ShareIncreased(iter - 1))

StaysOverlapped ==
  useOverlapRouting /\ (iter <= 3 \/ (Decreased(iter - 1) /\ ShareIncreased(iter - 1)))

StartIteration ==
  /\ pc = "iterate"
  /\ connectionIdBase' = connectionIdBase + routedConnectionNum + 1
  /\ routedConnectionNum' = 0 /\ failRouteNum' = 0
  /\ mode' = IF StaysOverlapped THEN "overlap" ELSE "tree"
  /\ useOverlapRouting' = (mode' = "overlap")
  /\ pc' = "next" /\ c' = 0
  /\ UNCHANGED <<enterable, iter, congestion, searchVars>>

-----------------------------------------------------------------------------
(* The search for a connection *)

connectionUniqueId == c + connectionIdBase

Keep ==
  /\ pc = "next" /\ c \in Conns /\ ~ShouldRoute(c)
  /\ c' = c + 1
  /\ UNCHANGED <<enterable, counters, modes, pc, searchVars>>

\* ripup, then push the source and write the target mark of the sink.
StartSearch ==
  /\ pc = "next" /\ c \in Conns /\ ShouldRoute(c)
  /\ rnodes' = [rnodes EXCEPT ![c] = <<>>]
  /\ routedConnectionNum' = routedConnectionNum + 1
  /\ isVisited' = [isVisited EXCEPT ![Source[c]] = connectionUniqueId, ![Sink[c]] = -1]
  /\ isTarget' = [isTarget EXCEPT ![Source[c]] = -1, ![Sink[c]] = connectionUniqueId]
  /\ prev' = [prev EXCEPT ![Source[c]] = NoNode, ![Sink[c]] = NoNode]
  /\ queue' = {Source[c]}
  /\ opened' = {Source[c]}
  /\ pc' = "search"
  /\ UNCHANGED <<enterable, iter, connectionIdBase, failRouteNum, modes, c, rnode>>

\* The children of n without the marked ones, all or those before the sink.
Unmarked(n) == {i \in 1..Len(Children[n]) : isVisited[Children[n][i]] # connectionUniqueId}
ReachesSink(n) == \E i \in Unmarked(n) : Children[n][i] = Sink[c]
SeenChildren(n) ==
  {Children[n][i] : i \in {j \in Unmarked(n) : \A h \in Unmarked(n) \cap (1..j) : Children[n][h] # Sink[c]}}

\* Sink pins: as a target, or as a bounce pin that the net uses; the net uses
\* the sink of a connection from the start (updateSinkNodeUsage).
Sinks == {Sink[d] : d \in Conns}
UsedByNet(n) ==
  \E d \in Conns : NetOf[d] = NetOf[c] /\ (n \in NodesOf(rnodes[d]) \/ (iter = 1 /\ d > c /\ n = Sink[d]))
isAccessiblePinfeedI(n) == isTarget[n] = connectionUniqueId \/ (UsedByNet(n) /\ n \in Bounce)

MayEnter(n) == n \in enterable[c] /\ (n \in Sinks => isAccessiblePinfeedI(n))

\* Slips: nodes that may not be entered are, nodes are entered again, or
\* nodes that any search has visited are not entered.
PushedAnywhere(n) == SeenChildren(n)
PushedAgain(n) == {m \in NodesOf(Children[n]) \ Sinks : m \in enterable[c]}
PushedIfNew(n) == {m \in SeenChildren(n) : isVisited[m] = -1 /\ MayEnter(m)}

PushedChildren(n) == {m \in SeenChildren(n) : MayEnter(m)}

\* A PINBOUNCE that carries the target mark fails an assertion.
FalseTargets(n) ==
  {m \in SeenChildren(n) : m \in (Bounce \ Sinks) \cap enterable[c] /\ isTarget[m] = connectionUniqueId}

\* Pop a node and push its children, or stop at the sink.
Expand ==
  /\ pc = "search"
  /\ \E n \in queue :
       LET pushed == PushedChildren(n) IN
       /\ isVisited' = [m \in Nodes |-> IF m \in pushed THEN connectionUniqueId ELSE isVisited[m]]
       /\ isTarget' = [m \in Nodes |-> IF m \in pushed THEN -1 ELSE isTarget[m]]
       /\ prev' = [m \in Nodes |->
            IF m \in pushed \/ (m = Sink[c] /\ ReachesSink(n)) THEN n ELSE prev[m]]
       /\ queue' = (queue \ {n}) \cup pushed
       /\ opened' = opened \cup pushed
       /\ IF FalseTargets(n) # {} THEN pc' = "asserted" /\ UNCHANGED rnode
          ELSE IF ReachesSink(n) THEN pc' = "save" /\ rnode' = Sink[c]
          ELSE UNCHANGED <<pc, rnode>>
  /\ UNCHANGED <<enterable, counters, modes, c, rnodes>>

\* The failures that are counted: those of the partition trees, the tree for
\* the labeled nets among them, and none of the workers.
FailureCounts == mode = "tree" \/ c \in Labeled

\* The queue has run empty: the connection stays without a route.
Fail ==
  /\ pc = "search" /\ queue = {}
  /\ failRouteNum' = IF FailureCounts THEN failRouteNum + 1 ELSE failRouteNum
  /\ pc' = "next" /\ c' = c + 1
  /\ UNCHANGED <<enterable, iter, connectionIdBase, routedConnectionNum, modes, searchVars>>

\* saveRouting: follow prev until it is null or the watchdog ends the program.
Backtrace ==
  /\ pc = "save"
  /\ rnodes' = [rnodes EXCEPT ![c] = Append(@, rnode)]
  /\ rnode' = prev[rnode]
  /\ IF Len(rnodes'[c]) = WatchDog THEN pc' = "aborted" /\ UNCHANGED c
     ELSE IF prev[rnode] = NoNode THEN pc' = "next" /\ c' = c + 1
     ELSE UNCHANGED <<pc, c>>
  /\ UNCHANGED <<enterable, counters, modes, nodeInfos, queue, opened>>

-----------------------------------------------------------------------------
(* An iteration ends, and the loop *)

OverUsed ==
  {n \in Nodes : \E d, e \in Conns : NetOf[d] # NetOf[e] /\ n \in NodesOf(rnodes[d]) \cap NodesOf(rnodes[e])}

\* Slip: the last iteration's failures are not asked for.
ConvergedIfLegal == OverUsed = {}

Converged == OverUsed = {} /\ failRouteNum = 0

EndIteration ==
  /\ pc = "next" /\ c = NumConns
  /\ congestion' = Append(congestion, [over |-> Cardinality(OverUsed), routed |-> routedConnectionNum])
  /\ IF Converged
     THEN pc' = "end" /\ UNCHANGED iter
     ELSE /\ iter' = iter + 1
          /\ pc' = IF iter + 1 < MaxIter THEN "iterate" ELSE "end"
  /\ UNCHANGED <<enterable, connectionIdBase, routedConnectionNum, failRouteNum,
                 useOverlapRouting, mode, c, searchVars>>

\* saveAllRoutingSolutions: its assertions end the program at a connection
\* without a route and at a node of two nets.
Save ==
  /\ pc = "end"
  /\ pc' = IF \E d \in Conns : Len(rnodes[d]) < 2 \/ Congested(d) THEN "unsaved" ELSE "saved"
  /\ UNCHANGED <<enterable, counters, modes, c, searchVars>>

Next ==
  \/ StartIteration \/ Keep \/ StartSearch \/ Expand \/ Fail \/ Backtrace
  \/ EndIteration \/ Save

Spec == Init /\ [][Next]_vars
FairSpec == Spec /\ WF_vars(Next)

-----------------------------------------------------------------------------

TypeOK ==
  /\ enterable \in EnterableSets
  /\ iter \in 1..MaxIter /\ connectionIdBase \in Int
  /\ routedConnectionNum \in Garbage \cup (0..NumConns) /\ failRouteNum \in 0..NumConns
  /\ useOverlapRouting \in BOOLEAN /\ mode \in {"overlap", "tree"}
  /\ congestion \in Seq([over : Nat, routed : Nat])
  /\ c \in 0..NumConns
  /\ pc \in {"iterate", "next", "search", "save", "end", "saved", "unsaved", "asserted", "aborted"}
  /\ isVisited \in [Nodes -> Int] /\ isTarget \in [Nodes -> Int]
  /\ prev \in [Nodes -> Nodes \cup {NoNode}]
  /\ queue \subseteq Nodes /\ opened \subseteq Nodes
  /\ rnode \in Nodes \cup {NoNode}
  /\ rnodes \in [Conns -> Seq(Nodes)]

\* The assertions of saveRouting (aStarRoute.cpp:707-726) and what they stand
\* for: a stored route leads from the sink along existing edges back to the
\* source, enters only nodes it may enter and no node twice - also when the
\* array is full of the marks and prev pointers of earlier searches, and when
\* the identifiers start at any value.  The route at hand is stored by parts.
RouteWellFormed ==
  \A d \in Conns : rnodes[d] # <<>> /\ ~(pc \in {"save", "aborted"} /\ c = d) =>
    LET p == rnodes[d] IN
    /\ Len(p) > 1 /\ p[1] = Sink[d] /\ p[Len(p)] = Source[d]
    /\ \A i \in 1..(Len(p) - 1) : p[i] \in NodesOf(Children[p[i + 1]])
    /\ \A i \in 2..(Len(p) - 1) : p[i] \in enterable[d]
    /\ Cardinality(NodesOf(p)) = Len(p)

\* No search has met a mark that an earlier search, or the first value of the
\* array, has left on a node.
MarkedOnlyByThisSearch ==
  pc = "search" => \A n \in Nodes :
    /\ isVisited[n] = connectionUniqueId => n \in opened
    /\ isTarget[n] = connectionUniqueId => n = Sink[c]

\* aStarRoute.cpp:832-834: a sink pin is "inaccessible if child is not a sink
\* pin of another connection on the same net".
ForeignSinksAvoided ==
  \A d, e \in Conns : NetOf[d] # NetOf[e] => Sink[e] \notin NodesOf(rnodes[d])

\* A search that meets no foreign mark gives up only when no path of nodes it
\* may enter reaches the sink (aStarRoute.cpp:507-594, 628): when some set of
\* nodes that the search cannot leave holds the source and not the sink.
Wires(d) == enterable[d] \ Sinks
Closed(S, d) == \A n \in S : NodesOf(Children[n]) \cap Wires(d) \subseteq S
Reaches(d) ==
  \A S \in SUBSET (Wires(d) \cup {Source[d]}) :
    Source[d] \in S /\ Closed(S, d) => \E n \in S : Sink[d] \in NodesOf(Children[n])
FailsOnlyIfUnreachable ==
  pc = "search" /\ queue = {} /\ MarkedOnlyByThisSearch => ~Reaches(c)

\* The routing comes to an end: every search, every backtrace, and the loop.
\* With a watchdog above the number of nodes it never ends by that, because no
\* chain of stale prev pointers leads the backtrace in circles
\* (aStarRoute.cpp:70, 712-724).
RoutingEnds == <>(pc \in {"saved", "unsaved", "asserted"})

\* A loop that ends before its last iteration over the tree has a complete
\* and legal routing, because the exit test (aStarRoute.cpp:130) counts the
\* failures of this mode.  In the overlapped modes it may lack a route, and
\* after the last iteration (70) it may also be illegal; neither is saved.
Complete == \A d \in Conns : rnodes[d] # <<>> /\ ~Congested(d)
ConvergedMeansRouted ==
  /\ pc = "end" /\ iter < MaxIter /\ mode = "tree" => Complete
  /\ pc = "saved" => Complete

\* After its third iteration the router stays in the overlapped mode only as
\* long as every single iteration has taken away more than a fifth of the
\* congestion, divisions by zero included (aStarRoute.cpp:75-92, 123-127).
OverlapOnlyWhileImproving ==
  pc = "next" /\ mode = "overlap" =>
    \A i \in 3..(iter - 1) : 5 * congestion[i].over < 4 * congestion[i - 1].over

=============================================================================
