----------------------------- MODULE SaveRoutes -----------------------------
(***************************************************************************)
(* How the routes of a net's connections become the routing tree that is   *)
(* written (saveAllRoutingSolutions and fixNetRoutes of                    *)
(* src/src/route/aStarRoute.cpp, the walk of Netlist::write), from the     *)
(* connections and routes of NetReader.  Each route was found on its own,  *)
(* so the routes may part and meet again, or use the nodes of each other   *)
(* in opposite orders.                                                     *)
(*                                                                         *)
(* The nets are saved by concurrent jobs.  A job writes the entries of the *)
(* nodes of its net only, and the nets share no node when the iterations   *)
(* have ended without an overused node, so one net is modelled.            *)
(***************************************************************************)
EXTENDS NetReader

CONSTANTS
  Costs,       \* what baseCost may be
  Infinity     \* INT32_MAX, above the cost of any path

ASSUME SaveAssumption ==
  Infinity \in Nat /\ Costs \subseteq [Nodes -> 0..Infinity]

VARIABLES
  baseCost,
  pinfeeds,    \* the nodes whose type is PINFEED_I
  netRNodes, hasMultiDriver,
  branches,    \* of nodeRoutingResults
  upStreamPathCost, prevs,
  rnodeQueue,  \* the nodes in the priority queue; a second copy of a node
               \* would improve nothing when it comes out
  graphQueue, routedPinNum

saveVars == <<baseCost, pinfeeds, netRNodes, hasMultiDriver, branches,
              upStreamPathCost, prevs, rnodeQueue, graphQueue, routedPinNum>>
vars == <<readerVars, saveVars>>
settled == <<net, k, walkVars, srcPaths, conns, baseCost>>  \* once the routes are saved

Init ==
  /\ ReaderInit
  /\ baseCost \in Costs
  /\ pinfeeds = {} /\ netRNodes = {} /\ hasMultiDriver = FALSE
  /\ branches = [n \in Nodes |-> {}]
  /\ upStreamPathCost = [n \in Nodes |-> Infinity]
  /\ prevs = [n \in Nodes |-> NoNode]
  /\ rnodeQueue = {} /\ graphQueue = <<>> /\ routedPinNum = 0

Read ==
  ReaderNext /\ UNCHANGED saveVars

\* The indirect connections are saved first.
SaveOrder ==
  LET only(direct) == [j \in DOMAIN conns |-> IF conns[j].direct = direct THEN <<conns[j]>> ELSE <<>>]
  IN  FlattenSeq(only(FALSE)) \o FlattenSeq(only(TRUE))
Mixed == {c.direct : c \in ToSet(conns)} = BOOLEAN

\* The reader has marked the ends of the routes in the INT tiles as pins.
StartSave ==
  /\ pc = "route" /\ k > Len(conns)
  /\ pc' = "save" /\ k' = 1 /\ conns' = SaveOrder
  /\ pinfeeds' = {Head(c.intToSinkPath) : c \in {x \in ToSet(conns) : ~x.direct}}
  /\ UNCHANGED <<net, walkVars, srcPaths, baseCost, netRNodes, hasMultiDriver, branches,
                 upStreamPathCost, prevs, rnodeQueue, graphQueue, routedPinNum>>

SinkPins == ToSet(net.sinks)
\* Of the tree that fixNetRoutes searches, if the net is not mixed.
SourcePin == Head(conns[1].sourceToIntPath)

Edges(p) == {<<p[j], p[j + 1]>> : j \in 1..(Len(p) - 1)}

\* From the source pin to the interconnect, along the route, which is stored
\* from its sink, and on to the sink pin.
TotalPath(c) ==
  IF c.rnodes = <<>> THEN <<>>
  ELSE c.sourceToIntPath \o Tail(Reverse(c.rnodes)) \o Tail(c.intToSinkPath)

\* The pins of the connection, not the ends of its route, are pins from here
\* on; where the comment has "recover", the last node of the device is a wire.
Retyped(c) ==
  LET ends == IF c.direct THEN {} ELSE {net.last, Head(c.intToSinkPath)}
  IN  (pinfeeds \ (ends \cup {Head(c.sourceToIntPath)})) \cup {Last(c.intToSinkPath)}

SaveConnection ==
  /\ pc = "save" /\ k <= Len(conns)
  /\ LET p == TotalPath(conns[k]) IN
       /\ branches' = [n \in Nodes |-> branches[n] \cup {e[2] : e \in {f \in Edges(p) : f[1] = n}}]
       /\ hasMultiDriver' =
            (hasMultiDriver \/ Cardinality(ToSet(p)) < Len(p) \/ ToSet(p) \cap netRNodes # {})
       /\ netRNodes' = netRNodes \cup ToSet(p)
  /\ pinfeeds' = Retyped(conns[k])
  /\ k' = k + 1
  /\ UNCHANGED <<net, pc, walkVars, srcPaths, conns, baseCost, upStreamPathCost, prevs,
                 rnodeQueue, graphQueue, routedPinNum>>

\* The jobs of the other nets retype the last node of the device as well.
SaveOtherNet ==
  /\ pc \in {"save", "search"} /\ net.last \in pinfeeds
  /\ pinfeeds' = pinfeeds \ {net.last}
  /\ UNCHANGED <<readerVars, baseCost, netRNodes, hasMultiDriver, branches,
                 upStreamPathCost, prevs, rnodeQueue, graphQueue, routedPinNum>>

\* When all nets are saved, and all sink pins are still marked, the writer
\* starts at the source pins that the net uses.
StartWrite ==
  /\ graphQueue' = SelectSeq(net.sources, LAMBDA n : n \in netRNodes)
  /\ pc' = IF SinkPins \subseteq pinfeeds THEN "write" ELSE "aborted"

\* A net whose paths do not meet is written as it is.
KeepRoutes ==
  /\ pc = "save" /\ k > Len(conns) /\ ~hasMultiDriver
  /\ StartWrite
  /\ UNCHANGED <<settled, pinfeeds, netRNodes, hasMultiDriver, branches,
                 upStreamPathCost, prevs, rnodeQueue, routedPinNum>>

\* The nodes without branches must be sink pins, and the connections of the net
\* of one kind; then the search starts.
StartFix ==
  /\ pc = "save" /\ k > Len(conns) /\ hasMultiDriver
  /\ IF ~Mixed /\ \A n \in netRNodes : branches[n] = {} => n \in pinfeeds
     THEN /\ upStreamPathCost' = [upStreamPathCost EXCEPT ![SourcePin] = 0]
          /\ rnodeQueue' = {SourcePin} /\ pc' = "search"
     ELSE pc' = "aborted" /\ UNCHANGED <<upStreamPathCost, rnodeQueue>>
  /\ UNCHANGED <<settled, pinfeeds, netRNodes, hasMultiDriver, branches, prevs,
                 graphQueue, routedPinNum>>

\* Slip: a node is not reached again by a cheaper path.
ReachedOnce(n) == {m \in branches[n] : upStreamPathCost[m] = Infinity}

\* The children that are cheaper to come to by n.
Improved(n) == {m \in branches[n] : upStreamPathCost[n] + baseCost[m] < upStreamPathCost[m]}

\* Pop a node and improve its children.  The comparison of the heap reads
\* costs that change while the nodes are in it, so any node may come first.
Relax ==
  /\ pc = "search"
  /\ \E n \in rnodeQueue :
       /\ upStreamPathCost' = [m \in Nodes |->
            IF m \in Improved(n) THEN upStreamPathCost[n] + baseCost[m] ELSE upStreamPathCost[m]]
       /\ prevs' = [m \in Nodes |-> IF m \in Improved(n) THEN n ELSE prevs[m]]
       /\ rnodeQueue' = (rnodeQueue \ {n}) \cup Improved(n)
  /\ UNCHANGED <<pc, settled, pinfeeds, netRNodes, hasMultiDriver, branches,
                 graphQueue, routedPinNum>>

\* The nodes from n back towards the source pin along prevs.
Upstream(n) ==
  LET before(m) == IF m \in {SourcePin, NoNode} THEN {m} ELSE {m, prevs[m]}
      back[j \in 0..Cardinality(Nodes)] ==
        IF j = 0 THEN {n} ELSE UNION {before(m) : m \in back[j - 1]}
  IN  back[Cardinality(Nodes)]

\* Slips: the branches are not cleared, or the marking starts before the pins.
BranchesKept(inRoute) == [n \in Nodes |-> branches[n] \cap inRoute]
BranchesBeforePins(inRoute) ==
  [n \in Nodes |-> {m \in (inRoute \cap netRNodes) \ SinkPins : prevs[m] = n}]

\* The branches of the tree: each node of it hangs on the one before it.
BranchesIn(inRoute) == [n \in Nodes |-> {m \in inRoute \cap netRNodes : prevs[m] = n}]

\* Clear the branches and put back those from the sink pins to the source pin.
Fix ==
  /\ pc = "search" /\ rnodeQueue = {}
  /\ LET inRoute == UNION {Upstream(n) : n \in SinkPins} IN
       IF NoNode \in inRoute
       THEN pc' = "aborted" /\ UNCHANGED <<branches, graphQueue>>
       ELSE branches' = BranchesIn(inRoute \ {SourcePin}) /\ StartWrite
  /\ UNCHANGED <<settled, pinfeeds, netRNodes, hasMultiDriver, upStreamPathCost, prevs,
                 rnodeQueue, routedPinNum>>

\* Netlist::write walks the branches and copies a stub to every pin it meets.
Write ==
  /\ pc = "write" /\ graphQueue # <<>>
  /\ graphQueue' = Tail(graphQueue) \o SetToSeq(branches[Head(graphQueue)])
  /\ routedPinNum' = routedPinNum + (IF Head(graphQueue) \in pinfeeds THEN 1 ELSE 0)
  /\ UNCHANGED <<pc, settled, pinfeeds, netRNodes, hasMultiDriver, branches,
                 upStreamPathCost, prevs, rnodeQueue>>

\* All stubs must have been routed.
EndWrite ==
  /\ pc = "write" /\ graphQueue = <<>>
  /\ pc' = IF routedPinNum = Cardinality(SinkPins) THEN "written" ELSE "aborted"
  /\ UNCHANGED <<settled, pinfeeds, netRNodes, hasMultiDriver, branches,
                 upStreamPathCost, prevs, rnodeQueue, graphQueue, routedPinNum>>

Next ==
  \/ Read \/ StartSave
  \/ SaveConnection \/ SaveOtherNet \/ KeepRoutes \/ StartFix \/ Relax \/ Fix \/ Write \/ EndWrite

Spec == Init /\ [][Next]_vars
FairSpec == Spec /\ WF_vars(Next)

-----------------------------------------------------------------------------

RouteEdges == UNION {Edges(TotalPath(c)) : c \in ToSet(conns)}

Reached(S, next(_)) ==
  LET reach[j \in 0..Cardinality(Nodes)] ==
        IF j = 0 THEN S ELSE UNION {{n} \cup next(n) : n \in reach[j - 1]}
  IN  reach[Cardinality(Nodes)]

\* What is handed to the writer is a routing tree of the net
\* (aStarRoute.cpp:296-302 "there are multiple paths from node A to node B")
\* on the device, whatever the walks of the reader have put at its ends: every
\* branch leads to an outgoing node, every node has one driver and the used
\* source pins none, every connection with a route has its sink pin reached,
\* and no branch ends elsewhere.
SavedTree ==
  pc = "write" =>
    LET sources == ToSet(net.sources) \cap netRNodes
        children(n) == branches[n]
        edges == UNION {{<<n, m>> : m \in branches[n]} : n \in Nodes}
        driven == {e[2] : e \in edges}
    IN  /\ \A e \in edges : e[2] \in ToSet(Outgoing(e[1]))
        /\ sources \cap driven = {}
        /\ Cardinality(edges) = Cardinality(driven)
        /\ {Last(c.intToSinkPath) : c \in {x \in ToSet(conns) : x.rnodes # <<>>}} \subseteq driven
        /\ driven \subseteq Reached(sources, children)
        /\ \A m \in driven : branches[m] = {} => m \in SinkPins

\* The tree of a fixed net holds cheapest paths only, in whatever order the
\* queue yields the nodes (aStarRoute.cpp:297 "Find shortest path"): the costs
\* are tight along the tree, and no edge of any route undercuts them.
SavedShortest ==
  pc = "write" /\ hasMultiDriver =>
    /\ upStreamPathCost[SourcePin] = 0
    /\ \A e \in RouteEdges : upStreamPathCost[e[2]] <= upStreamPathCost[e[1]] + baseCost[e[2]]
    /\ \A n \in Nodes : \A m \in branches[n] :
         upStreamPathCost[m] = upStreamPathCost[n] + baseCost[m]

\* The nodes that a walk from n without visited nodes comes to, as often and in
\* the order as it does (aStarRoute.cpp:171-192), if there is no cycle below n.
Encounters(n) ==
  LET children(s) == FlattenSeq([j \in DOMAIN s |-> Outgoing(s[j])])
      layers[j \in 0..Cardinality(Nodes)] == IF j = 0 THEN <<n>> ELSE children(layers[j - 1])
  IN  FlattenSeq([j \in 1..Cardinality(Nodes) |-> layers[j - 1]])

\* What a net needs to be written.  Its walks end: there is no cycle outside
\* the INT tiles, nor anywhere below the source of a direct connection that
\* needs a walk.  Its first source pin leads to the sinks of its direct
\* connections, and the walk is there before the watchdog gives up, though a
\* node that is reached in several ways is met as often.  A net with connections
\* of both kinds has no second route over a node of the first (aStarRoute.cpp:318
\* refuses to fix such a net).  And no sink pin is the last node of the device (238), or the end of the route to
\* another one (247), which are wires after the saving.
Writable ==
  LET below(n) == Reached({n}, LAMBDA m : ToSet(Outgoing(m)))
      cyclic(S) == \E n \in S : n \in Reached(ToSet(Outgoing(n)) \cap S, LAMBDA m : ToSet(Outgoing(m)) \cap S)
      routable(c) ==
        LET from == net.sources[1]
            to == Last(c.intToSinkPath)
            met == Encounters(from)
        IN  \/ to \in ToSet(Outgoing(from))
            \/ ~cyclic(below(from)) /\ \E j \in DOMAIN met : met[j] = to /\ j <= DirectWatchdog + 1
  IN  /\ ~cyclic(Nodes \ net.INT)
      /\ \A c \in ToSet(conns) : c.direct => routable(c)
      /\ ~(Mixed /\ hasMultiDriver)
      /\ net.sources[1] \notin SinkPins /\ net.last \notin SinkPins
      /\ \A c \in ToSet(conns) :
           ~c.direct => Head(c.intToSinkPath) \notin SinkPins \ {Last(c.intToSinkPath)}

\* Reading, routing, saving, fixing and writing a net come to an end, with no
\* assertion violated on the way (netlist.cpp:325, 610; aStarRoute.cpp:284,
\* 318, 336, 342): a writable net is written with all its pins.
NetIsWritten == <>(pc = "written" \/ ~Writable)

=============================================================================
