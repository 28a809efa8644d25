# A verification development of the Potter FPGA router

Potter (`src/src/`) reads a device and an unrouted physical netlist, routes every
connection of every net over a directed graph of device nodes by negotiated
congestion, and writes the routed netlist.  It is a multi-threaded C++ program
with little locking: it relies on barriers, on disjoint work lists and on
disjoint bounding boxes.  The repository has no tests of these parts.  This
directory models them in TLA+, from the device file to the written netlist,
checks the models with TLC and proves with TLAPS, for every value of the
constants, what matters most about the job pool, the front end with the device
cache and the reduction of the graph, the reading of a net, the schedules of the
nets, the partitioning tree, the loop of the A* router, both parallel routers and
the routing tree that is written.

Paths below are relative to `src/src/` of the repository.

## 1. Inventory

The program runs these phases in this order (`main.cpp`): read device, read
netlist, reduce the graph and set the children, route, save the routes, write.

| component | state it keeps | operations | interacts with | hard behaviour | what makes it correct |
|---|---|---|---|---|---|
| job pool (`utils/MTStat.cpp`) | a shared job index, a mutex, the threads | `runJobsMT` | called by the tree router and by the saving of routes | interleaving, join | each job once; all done at return; it returns |
| net users and occupancy (`db/connection.h`, `db/routeNode.h`) | per net a count of connections per node, the pre-increments and pre-decrements; per node an atomic occupancy and a price | increment, decrement, apply, price | written by every router | unlocked read-modify-write of the price; counts at zero | occupancy = number of nets that use the node |
| runtime-first router (`route/runtimeFirstRouting.cpp`) | routes, `isRouted`, the above | rip-up, search, save, price, iterate | threads meet in the occupancies and prices only | no locks at all | no overuse stays hidden, no price is lost but in a race |
| stable-first router (`route/stableFirstRouting.cpp`) | the above, stamps and occupancy changes per thread | three fork/join rounds per batch, then the labeled nets | as above | deferred updates applied in another order | a batch is one atomic step against the last barrier |
| A* router (`route/aStarRoute.cpp`) | an array of `NodeInfo` per thread, never reset; counters | rip-up, search, backtrace, iterate | called by all modes | stale marks and back pointers | routes are paths; a search that fails had none |
| partitioning tree (`route/partitionTree.cpp`) | the ternary tree, its leaves and their levels | build, schedule, route level by level | job pool, A* router | recursion ends; concurrent leaves | leaves of a level share no node |
| net scheduling (`partition()`, boxes of `netlist.cpp`) | boxes, labeled nets, nets per thread, batches | label, cluster, cut into batches; bisect regions, deal out | feeds both parallel routers | bounds, cut lines, rounding to zero | pins stay in reach of their search; a net is on one thread; none is lost |
| routing loop (`routeIndirectConnections`) | iteration, counters, ratios, mode | choose the mode, stop | all routers | exit test, switch of mode | stops early only with a complete, legal routing |
| routing tree (`saveAllRoutingSolutions`, `fixNetRoutes`, walk of `Netlist::write`) | `nodeRoutingResults` | merge the routes of a net, take shortest paths, walk | job pool, writer | routes that part and meet, cycles | a tree that reaches every pin |
| graph reduction (`db/database.cpp:209-329`) | `nodes_in_graph`, degrees, parents | remove dead ends, add pins, set children | searches follow the children | counters kept in step with edges | no route lost, no dead end left |
| pins and direct connections (`netlist.cpp:25-345`, `routeDirectConnections`) | a queue, predecessors, layers or a watchdog per walk | project pins to INT tiles, choose the kind of a connection, walk | saving | nodes met again, overwritten predecessors | paths on the device; every walk ends |
| device cache (`readDevice`) | six dump files | load or write | file system | a run that ends while writing; dumps of two devices | what is loaded is the device that was asked for |
| device model (`db/device.cpp`) | tables of the PIPs and wires of a tile type, of the node of a wire | edges of a node in both directions, PIP of an edge | reduction, writer | no edge is stored, each is found again by another walk | the walks agree |
| netlist input and output (`db/netlist.cpp`) | Cap'n Proto messages, preserved nodes | parse, write | everything | data conversion | the written PIPs join their nodes |
| `geo.h`, `mkl_utils`, logging, `main.cpp`, vendored headers, scripts | none that matters here | | | | |

`PROJECT.json` lists every component with its status, and every hazard with the
line where it bites and the properties that cover it, or why none does.

## 2. Modules

| module | models | part of the code |
|---|---|---|
| `RunJobsMT` | the job pool, a thread step being one access of shared state | `MTStat.cpp:5-42` |
| `JobBarrier` | what the callers expect of it: a call starts, jobs complete in any order, it returns | |
| `RunJobsMTProofs` | its invariants and the refinement, proved | |
| `NetUsers` | the counts of a net | `connection.h:52-76` |
| `RuntimeFirst` | the lock-free parallel router | `runtimeFirstRouting.cpp:17-50`, `aStarRoute.cpp:637-839` |
| `RuntimeFirstProofs` | its invariant and four theorems | |
| `StableFirst` | the batch-synchronous parallel router | `stableFirstRouting.cpp:17-137`, `aStarRoute.cpp:842-870` |
| `BatchCommit` | abstract: batches are committed atomically | |
| `StableFirstProofs` | the invariant of `StableFirst`, six theorems and the refinement, proved | |
| `AStarRouter` | the loop over the iterations, its modes and exit; search, backtrace, identifiers; the check of what is saved | `aStarRoute.cpp:51-148, 222-255, 462-729, 828-839` |
| `AStarRouterProofs` | its invariant and six theorems | |
| `PartitionTree` | the tree from construction to routing | `partitionTree.cpp`, `aStarRoute.cpp:842-870` |
| `PartitionTreeProofs` | its invariant and five theorems | |
| `NetBoxes` | the boxes of nets and connections | `netlist.cpp:411-540`, `aStarRoute.cpp:376-434` |
| `NetSchedule` | the boxes, then labeling, batches and regions | `stableFirstRouting.cpp:139-200, 491-544`, `runtimeFirstRouting.cpp:52-378`, `partitionTree.h` |
| `NetScheduleProofs` | its invariant and five theorems | |
| `NetReader` | one net from its pins to the routes of its connections: three walks | `netlist.cpp:25-141, 211-345`, `aStarRoute.cpp:150-203` |
| `SaveRoutes` | extends it: the routing tree of the net, from the routes to the writer's walk, and the types of pins | `aStarRoute.cpp:222-374`, `netlist.cpp:542-622` |
| `SaveRoutesProofs` | the invariants of the two, two theorems about what is written | |
| `RouteGraph` | the reduction of the graph and its children | `database.cpp:209-329`, `device.cpp:433-447` |
| `DeviceCache` | the dump of the device, runs that end at any step | `database.cpp:3-207` |
| `DeviceModel` | the tables and walks of the device, the PIP of an edge | `device.cpp:9-61, 63-120, 856-908`, `netlist.cpp:599-606` |
| `FrontEnd` | composes the three: from the device file or its dump over the netlist to the reduced graph | `main.cpp`, `netlist.cpp:346-409` |
| `FrontEndProofs` | the invariants of `RouteGraph` and `FrontEnd` and seven theorems | |
| `MC...` | an instance of the module for TLC | |

The modules use the names of the code.  An operator whose comment starts with
"Slip" is not used by the specification: it is the form that a plausible
mistake would give the definition after it, and replacing that definition by it
breaks a property (the `mutants` of `PROJECT.json`).

### How state and actions correspond

* **RunJobsMT.**  `i`, `mainPc` are the loops of the calling thread, `pc`,
  `jobIdx` the workers', `globalJobIdx` and `mtx` the shared index and mutex,
  `handled` counts the calls of the handler.  `Lock`, `ReadIndex`, `WriteIndex`,
  `Unlock`, `Handle` are lines 22 to 29; the increment is two steps because
  nothing but the mutex makes it atomic.
* **RuntimeFirst.**  Each thread walks its `WorkList`: `CheckRouted` is
  `shouldRoute`, which reads one occupancy per step; `Ripup`, `LoadOccupancy`
  and `PriceRipped` take one node at a time, the load of the occupancy and the
  store of the price apart; a search succeeds with any path, fails or aborts;
  `Save` and `PriceSaved` mirror the rip-up.  A price is represented by the
  occupancy it was computed from, because the code computes it from nothing
  else that changes within an iteration.  `EndIteration` is the join with
  `dynamicCostFactorUpdating` and the exit test.  `Accessible` is
  `isAccessiblePinfeedI` with both of its branches: `StaleTargets` says which
  sinks may carry the identifier of a connection as a target mark of an earlier
  search, and such a sink may be passed whatever the net counts.  Two history
  variables say where a property may not hold: `failedSinks`, the sinks for which a search
  has failed, and `raced`, the nodes whose occupancy has changed while another
  thread was between its load of it and its store of the price.
* **StableFirst.**  `BeginNet`, `KeepConnection`, `RouteConnection`, `EndNet`
  are `routeWorker`; `JoinRoute` to `JoinNets` is `updateNetsWorker`;
  `UpdatePrices` is `updatePresentCongCostWorker`.  In the first round the
  workers write only what is theirs (deferred maps of their nets, records of
  their thread), so that a connection is one step; this is why the model is
  much coarser than RuntimeFirst and still faithful.  A failing `assert_t` ends
  in a phase of its own: `batchAborted` (`connection.h:84`), `commitAborted`
  (`connection.h:93`) or `labeledAborted` (`aStarRoute.cpp:675`).
  `StaleTargets` and `failedSinks` are those of RuntimeFirst.
* **AStarRouter.**  `isVisited`, `isTarget`, `prev` are the fields of the
  `NodeInfo` records.  `StartIteration` is lines 72 to 92 with both ratios,
  written without divisions; `congestion` keeps what they are computed from.
  `Expand` pops any node of the queue and treats all its children, `Backtrace`
  is one step of `saveRouting`, `EndIteration` is the exit test.  Here both
  modes take the connections one by one, with failures counted as the code
  counts them in each; their concurrency is the subject of other modules.
* **PartitionTree.**  `pending` and `leaves` are the tree under construction;
  `Split` is one call of `buildTree` with its best cut, `Schedule` places one
  leaf, `StartLeaf` and `FinishLeaf` are the jobs of `routePartitionTree`.
* **NetBoxes, NetSchedule.**  A design is given by the tiles of the pins of its
  nets; `Init` is what the netlist reader computes from them, and
  `updateIndirectConnectionBBox` widens the boxes.  Then one action per loop of
  the code: `LabelNets`, `Cluster`,
  `CutBatches` (one thread), `CutRegion` (one region from the queue),
  `DealLevel` or `StartLevel`, `PlaceNet`, `EndLevel`.  A failing `assert_t`
  leads to `aborted`.  The result of k-means is any labeling; the piece of a
  level that a net prefers is the code's (`overlapCompare`), with the upper
  bound in y that `runtimeFirstRouting.cpp:295` takes from the bounds in x.
* **NetReader.**  `SourceWalk`, `SinkWalk` and `DirectWalk` are one turn of the
  loops at `netlist.cpp:37`, `netlist.cpp:119` and `aStarRoute.cpp:174`, with
  `q`, `prev_map`, `layer` and `watchdog` as there; a way back that goes round
  for ever leads to `hung`.  `EndSource` and `EndSink` are what `parseNetlist`
  does with the result of a walk, `RouteIndirect` stands for the search of an
  indirect connection and takes any simple path of the INT tiles.  The orders
  of the outgoing and of the incoming nodes of a node, which has a node once for
  each PIP, are part of the device and matter to a walk.
* **SaveRoutes.**  `SaveConnection` is one turn of the loops at 232 and 265, `StartFix`,
  `Relax`, `Fix` are `fixNetRoutes`, `Write` is one turn of the walk.  `Relax`
  may take any node of the queue: the heap compares costs that change while
  the nodes are in it, so its order means nothing.
  `SaveOtherNet` is a job of another net that sets the type of the last node of
  the graph, at any moment; the writer reads the types.
* **RouteGraph.**  `RemoveDeadEnd` is one turn of the inner loop at 274,
  `NextLevel` the outer one, `AddPins` and `SetChildren` the two rounds of
  threads of `setRouteNodeChildren`.
* **DeviceCache.**  `disk` holds the state and the content of each dump file.
  `Start` asks whether the six files exist, `Load` or `ReadDevice` fill
  `memory`, `Open` and `Close` are a writing thread, and `End` ends a run at
  any step and leaves the files as they are.
* **DeviceModel.**  Has no state of its own: the tables are operators of the
  device file, the edges operators of the tables and of the wires that were
  loaded.
* **FrontEnd.**  `ReadNetlist` makes the graph of `RouteGraph` out of the walks
  over the loaded memory; its other actions are those of the parts.

## 3. Runs

Passing runs, each with its question:

| run | instance | shows |
|---|---|---|
| `RunJobsMT` | 4 jobs, 0 to 3 threads | each job once, all done at return, the call returns, it implements `JobBarrier` |
| `RuntimeFirst` | 2 threads, 2 nets, 3 connections, 3 iterations, failing searches, any initial `isRouted` | but at the sinks of failed searches occupancies equal the number of nets, counts equal the routes and every overuse between settled nets is seen, with pins passed by stale target marks; no price is out of date but after a race |
| `StableFirst` | 2 threads, 2 batches and a labeled net, 6 connections, 2 iterations; initially no connection, or one of a net of one or of two, marked as routed | the same of occupancies, counts and overuse; exact prices at each barrier, occupancy changes cover the commit, the assertions hold until a search fails and that of the commit always, and it implements `BatchCommit` |
| `AStarRouter` | 4 connections of 3 nets, 12 nodes with cycles, 5 iterations in both modes, three first values of the identifier base, with and without a blocked sink | routes are simple paths, a search gives up only without a path, the loop ends, stopping early over the tree and saving both mean done, the overlapped mode lasts only while it pays |
| `PartitionTree` | all placements of 3 boxes on a 5 by 3 grid, 2 threads | every connection once, boxes cover, concurrent leaves share no inner tile, all get routed, it ends |
| `NetSchedule` | 4 nets of 7 kinds on 2 and 4 threads (regions); of 4 kinds on 1 and 2 (batches), from the pins on a grid of 7 by 4 tiles | every pin strictly inside its box, no net on two threads, batches complete and balanced, regions of a level apart, a net is left out only for lack of room |
| `SaveRoutes` | 1 and 3 sinks, routes over up to 3 wires in any order, 4 cost functions; small nets with chains, two source pins, cycles, ways on both sides of the watchdog and incoming nodes in reversed order and twice, while another net is saved | what is written is a tree of cheapest paths on the device, and a writable net is written with all pins |
| `FrontEnd` | 97 devices of four or five nodes over three tiles: every combination of six PIPs, one of which works both ways or is missing, each with four netlists; two devices with runs that are ended at any step | a directory of one device serves only that device, and serves it unless poisoned; the two directions of the edges agree; degrees exact, no route lost, no dead end left; the written PIP joins its nodes |

`NetIsWritten` holds of the nets that `Writable` describes, and the others are in
the instance too: a walk that meets a cycle may never come back (`hung`); a
direct connection whose sink lies behind so many ways that the walk without visited nodes
uses up its watchdog stays without a route, though there is one and the device has no
cycle; a net
whose first source pin does not lead to the sink of a direct connection ends at
the unrouted pins of the writer, also when its second source pin does lead
there; a net with connections of both kinds and two routes that meet ends at the
assertion at `aStarRoute.cpp:318`; a net that contains its own source as a sink at
`netlist.cpp:325`.

Runs that refute a statement of the code (`findings` in `PROJECT.json`):

* `StableFirstAssert`: a connection whose search has failed gives its sink back
  again at the next rip-up; the assertion at `connection.h:84` fails.
* `StableFirstUnrouted`: failed searches of workers are not counted, so the
  iterations end as converged with a connection that has no route, and the
  assertion at `aStarRoute.cpp:242` fails when the solution is saved.
* `AStarRouterIds`: search identifiers are not unique over the iterations, so a
  sink of another net may carry the target mark of a search, which
  `isAccessiblePinfeedI` then lets in: a route passes through a pin of a net
  that is not its own, and the two nets then compete for it.
* `NetScheduleBatches`: a design with fewer unlabeled nets than 256 per thread
  has zero batches, and the assertion at `stableFirstRouting.cpp:197` fails.

What the runs show beside their properties, and what a maintainer should know:

* A directory in which two devices were asked for may hold files of both: the
  existence of the files is all that `readDevice` checks, and no file names the
  device it belongs to apart from what is in `device`.  `ReadyIsOneDevice` and
  `CacheServes` are stated for directories of one device for that reason.
* After a failed search the net has given back its sink once too often, and the
  key of the sink may stay in the map with 0 or -1.  The next route to the sink
  then makes it 1 or 0 without a new user, and a rip-up may erase it although the
  net still has a route there.  If a
  route of another net passes through this sink by a stale target mark
  (`aStarRoute.cpp:828-830`), the occupancy there is one too low and the exit
  test overlooks the overuse.  `OccupancyMatchesUsers`, `NoHiddenOveruse` and
  `UsersMatchRoutes` leave the sinks of failed searches out for that reason, and show
  that no other node is affected.
* Prices are computed without a lock (`routeNode.h:94-100`), and one that is lost stays
  wrong until the node is priced again.  `PriceLostOnlyInRace` says that it takes
  a change of the occupancy between another thread's load and store, and that
  `dynamicCostFactorUpdating` leaves a wrong price only at nodes of no net.
* `routeDirectConnections` expands 10001 nodes at most and counts a node as often as it meets it,
  so that a sink behind a dozen of nodes with two ways between each is out of reach;
  the writer then ends at the pin that has no route.
* A run that ends while it writes may leave six files of which one is broken
  off (`Poisoned`); every later run in that directory ends in the load.
* `levelBox` takes its upper bound in y from the bounds in x
  (`runtimeFirstRouting.cpp:295`), so on a device taller than wide the upper part
  belongs to no piece; nets still get a thread by their distance.
* A net box may start at -1 or end at `layout.hx()`, outside of both halves of the
  first cut; such a net stays at the root region and is dealt out there.
* `get_outgoing_nodes` skips wires in tiles of the type `NULL_TILE`,
  `get_incoming_nodes` does not, and the tables of that type are empty
  (`device.cpp:12, 23, 411`).  Nothing checks that no node has such a wire;
  `DeviceModel` has no such tiles.
* The writer names the tile where the child begins although the PIP may have been
  found in another one; `WrittenPipConnects` holds of devices on which the PIPs
  that drive a node are where it begins.
* A connection that chance has marked as routed (`connection.h:353`) keeps its
  sink counted without a route.  In stable-first routing a worker compares
  routes, not counts, and so records that the net leaves this sink when another
  of its routes no longer passes through it: the prediction is one too low there,
  which is why `OccChangeCoversCommit` leaves these sinks out.  It costs a
  detour at most; the commit and the prices go by the counts.
* On a device with an edge into a source pin, a net with two source pins may be
  saved with such an edge, which is no tree: the path from one of the pins leads over
  the other, and both count as sources that the net uses.
  `SavedTree` is proved for the other nets (`SourcesApart` in `SaveRoutesProofs`:
  no edge of the device leads into a source pin, or the net has one, which is no
  sink pin); the nets of the run are of that kind.  With a net `pin0 -> s -> b -> a`
  that has the sources `pin0` and `b`, TLC finds the edge.
* PIPs of clock and static nets keep nodes out of the graph only when the nodes begin in
  INT tiles (`netlist.cpp:346-409`), although LAG tiles are searched too.

### Bounds, and why they are enough

* *Threads*: two, and three for the job pool.  The code treats all threads
  alike and the shared data are counters and flags; every race of the code is
  one of two parties.  Four in `NetSchedule` for three levels of regions.
* *Nets and connections*: two nets that compete for a wire, one of them with two
  connections, so that counts above one occur; in `StableFirst` also a second
  batch, because it starts from the barrier of the first, and a labeled net.
  One connection may pass through the sink of another of its net, the case in
  which a sink is counted by `updateSinkNodeUsage` and by a route.  A connection
  of each net may pass a sink by a stale target mark, one of its own net and one
  of another.
* *Iterations*: two or three where a property is about re-routing (a rip-up needs
  a route before it), five in `AStarRouter`: the identifiers overlap from the
  third on, and the mode is chosen by the ratios from the fourth on.
  `MaxIter` bounds the model only: the 499 of the code would add nothing but
  repetition.
* *Grid*: 5 by 3 tiles allow boxes that are disjoint, touch, overlap and contain
  one another in both directions, and a second cut in one of the halves.
* *Grid of `NetSchedule`*: 7 by 4 tiles with margin 1, so that boxes reach both
  borders and lie in, between and across the four regions of four threads.
* *Devices*: a PIP within a tile, over a node of two tiles, along two wires of
  the same nodes, in both directions and in a cycle; parts of the dump of unequal
  size (five nodes in four files); three runs in a directory, which is enough for
  a dump that is broken off, read again, and loaded.
* *Graphs*: five nodes allow chains of dead ends over two levels, a cycle, two
  parents, and a pin in the middle.
* *Walks*: `MaxLayers` is 5 in the code and 3 here, `InputWatchdog` 1000 and 5,
  `DirectWatchdog` 10000 and 20; the small nets have ways that reach each of
  them and ways that do not, and a sink that is met just in time or just too late.
* *Routes*: three wires in any order give routes that meet, part again and use
  two wires in opposite orders, which is what makes a cycle.
* `NetsPerBatch` is 256 in the code; 1 in the passing run gives up to four
  batches, 4 in the refuting run gives none.

### Fairness

Liveness is checked in five places.  `RunJobsMT` assumes weak fairness of the
calling thread and of each worker: the operating system runs every thread that
can go on.  Fairness of the mutex is not needed, because every worker that takes
it uses up an index and there are finitely many.  `AStarRouter` and
`SaveRoutes` are sequential and `PartitionTree` has no step that waits for another actor but the
job pool, so weak fairness of the next step, "the program does not stop by
itself", is all they need.  No fairness is assumed of what a search finds.
`FrontEnd` assumes weak fairness of the
steps of a run that reads, loads or dumps a device: its threads wait for nothing but the
disk.  It assumes none of `Start`, of `End` or of the reduction.
`RuntimeFirst`, `StableFirst` and `NetSchedule` are checked for safety only.
Deadlock is not checked because every model ends: in a final
state, at the bound on the iterations, or at an assertion.

## 4. Proofs

`tlapm` checks every proof from nothing.

**RunJobsMTProofs** (any number of jobs, any number of threads; assumed is only
that both are natural numbers).  `EachJobOnce` is not inductive: it does not say
why a fetched index is fresh.  The inductive invariant `IInv` is the conjunction
of the shape of the two ways to run (`SequentialInv`, `ForkJoinInv`), of
`MutexInv` (the mutex is held by exactly the worker between lock and unlock), of
`IndexInv` (the indices that workers hold are below the shared one and differ)
and `JobInv` (an index below the shared one is handled once or held, never
both).  From it: `TypeCorrect`, `JobsHandledOnce`, `ReturnsAfterAllJobs`, and
`PoolImplementsBarrier`, which maps every step to a step of `JobBarrier` or a
stutter.

**FrontEndProofs, the reduction** (any finite set of nodes, any graphs over it, paths of any
length; assumed is only that the graphs are graphs over the nodes).  That no route is lost is
not inductive, and neither is that no dead end is left.  What the reduction
maintains is `RemovedClosed`: the nodes taken out hold no pin and their
remaining edges lead to nodes taken out.  Hence a path that enters them never
comes to a sink (`PathStaysRemoved`, by the least counterexample along the path).
That an edge of a removed node leads to removed nodes rests on `DegreesExact`;
that nothing is forgotten rests on `DeadEndsListed`.  From the invariant
(`ReductionInvariant`): `DegreesAreExact`, `ReductionKeepsPaths`,
`ReductionIsComplete`.

**FrontEndProofs, the composition** (any device files that are well formed: the tables of a tile
type list a PIP once, a wire belongs to one node; any dumps that the directory
may hold at the start, any plan of runs, any netlists; assumed are
`FilesAssumption`, `SetupsAssumption`, `FrontEndAssumption`).  That a ready run
has one device in memory does not say why a dump can be trusted; `CacheInv` adds
that each file, whole or broken off, is what a run for a device of the directory
wrote, and that the four parts of the nodes are all of them.  From it
`CacheServesItsDevice`.  `GraphRead` says that the graph under reduction is the
one that the walks find in the loaded memory; as `GraphOfMemory` shows that this is
a graph over the nodes, every step of the reduction is a step of `RouteGraph`,
and `LoadedGraphIsReduced` carries the three theorems above over to every
device.  `WrittenPipsConnect` is a statement about the walks alone: it follows
the PIP of an edge from the tables to the tile that the writer names.
`EdgesAgreeBothWays` needs no invariant but that the loaded device is whole: a
sequence `Lists` a set of tokens if it has each of them at one place, flattening
keeps that (`FlattenLists`), so either walk lists the PIPs that are open in its
direction (`WalksList`), and a PIP that leads from m to n is told by its tile, its
place in the tile type's list and its direction from either end (`TokensDiffer`,
`TokensAgree`).  It rests on a node having each of its wires once and no wire of
another node.

**PartitionTreeProofs** (any finite set of connections, any proper boxes, any
positive number of threads).  The invariant is in two halves: `TreeInv`, in which
`NodesApart` says that no node with connections is pending and a leaf at once,
and `ScheduleInv`, with `LevelsApart` (two leaves of a level do not intersect),
and `RoutedInOrder` (what is running is of the level at hand, and the levels below
it are finished).  From it `TreeKeepsConnections`, `TreeNodesCover`,
`LevelsShareNothing`, `RoutedTreeIsComplete`.  `EveryCutShrinks` says that a cut
leaves each child with fewer connections than its parent; that the recursion
comes to an end for any boxes is its consequence, and TLC checks the ending
itself (`TreeIsRouted`).

**AStarRouterProofs** (any finite graph, connections, boxes, first identifier and
bound on the iterations, any watchdog).  Stale marks and
`prev` pointers stay in the array for ever, so that routes are simple paths is
not inductive.  The invariant says why they do no harm: what the present search
has opened is a tree of `prev` pointers that is rooted at the source and closed
under `prev` (`SearchTree`), without a loop (`NoLoop`, stated as: every set of opened nodes
has a member whose predecessor is outside of it), and the
backtrace never leaves it (`Backtracing`).  `Expanded` (what has been popped has
passed its mark on) gives `GivesUpOnlyIfUnreachable` and, for paths of any
length, `SearchOverlooksNoPath`.  `WatchdogMeetsNoLoop` says that the watchdog
of the backtrace ends the program only over a chain of as many different nodes.  `FailuresCounted` gives `ConvergenceMeansRouted`,
`ModeJustified` gives `OverlapIsJustified`.

**RuntimeFirstProofs** (any finite sets of nets and connections, any paths that
end at distinct sinks, any lists that give a net to one thread).  Occupancies
and counts change node by node while other threads do the same, so that they
match the routes only between connections.  `CountsExact` compares the counts of
a net with the part of the route at hand that is charged at this point (`Charged`),
and is exact in the middle of a rip-up or a save.  A failed search
spoils this for the sink of its connection and, as the proof shows, for no
other node, whatever pins are passed by stale target marks: everywhere else a key that
is in the map counts at least 1, so that it is created and erased together with the occupancy.
`PricesFollow` is about the middle of an iteration: as long as a node has not
raced, what a thread has loaded is still its occupancy, so that whoever stores
last leaves the right price.
From these `OccupancyIsExact`, `OveruseIsSeen`,
`CountsMatchRoutes` and `PricesFollowButForRaces`.

**StableFirstProofs** (any finite sets of nets, connections and threads, any
batches that hold each net once, any initially marked connections).  In the
middle of a batch, what a net counts, plus what it will add and less what it
will give back, is what its routes charge (`Balance`); whether the changes of a
net are still pending follows from its place in the work of its thread.  A failed
search spoils the balance at its sink only.  `GivesBackWhatCounts` holds at these sinks
too, since what is to be given back has passed the assertion of the first round and no
other thread changes the counts of the net; hence the assertion of the second round
never fails (`DecrementsApply`).
`PricesFollow` says that the price of a node differs from its occupancy only
between the change and the re-pricing that its stamp calls for.  `SinceBarrier`
keeps the routes of the last barrier: a connection that has been dealt with has
moved exactly if the barrier says that it must.  From these come the properties
of the run and `RoundsImplementBatchCommit`.  `RecordsCoverTheCommit` needs
another invariant, `CommitInv`: at every step the records cover the change that
would result if the nets that have been recorded had their routes of now
and the others those of the barrier.  The sum over the threads is a fold, and
that it changes by what one thread adds is proved through the least counterexample in the
size of the set.  The proof showed that the property did not hold as it was first
stated: at the sink of a connection that chance has marked as routed the records may
fall short (section 3); the statement now leaves these sinks out, and the
instance contains the case.

**NetScheduleProofs** (a layout of any size, any positive margins, any finite
number of nets with their pins in the layout, any positive number of threads and
size of a batch).  `BoxInv` follows the boxes from the pins through the widening
(`PinsAreInReach`).  `RegionInv` is about the regions that are queued and those
that have been placed at a level: each net is in one of them, each but the
first lies in one of the level above, and two of a level are beside
each other (`RegionsStayApart`); it rests on what a
cut does with boxes that touch the line.  `OnOneThread` and `DealtInv` say which
nets have been given out and what keeps a thread from taking one
(`NetsOnOneThread`, `LeftOutForLackOfRoom`), `BatchInv` that the batches of a
thread hold its nets, each once, in shares that differ by at most one net
(`BatchesAreComplete`, from the arithmetic of quotients that are rounded down).
Sizes and centers are folds, and that a fold that adds numbers does not depend
on the order is proved here too.

**SaveRoutesProofs** (any finite device, any net with one or two source pins, any
bounds of the walks, any costs up to `Infinity`, the queue in any order; assumed
are `ReaderAssumption` and `SaveAssumption`).  The walks of the reader meet nodes
again and overwrite their predecessors, so that predecessors may go round.  The
invariant `ReaderInv` says that only the start of a walk has none
(`PrevFrom`); a walk back that meets no node twice therefore ends there
(`TraceIs`), and the three parts of a connection are on the device and meet
(`IsConn`, theorem `ReaderIsRight`).  `SaveInv` says that the branches are the
edges of the total paths that have been saved (`SavedUpTo`), that paths which
met no node again are `Apart`, and what the search over them knows (`Searched`).
Paths that are apart are a tree (`ApartIsTree`).  Otherwise the tree comes from
the predecessors, which must not go round (`NoPrevCycle`): a child that is
improved is dearer than the node that improves it, and what lies before
that node is not, so the child is not among it (`SearchGoesOn`).  Wires that cost nothing
do no harm, because an improvement is strict.  When the queue is empty no edge
undercuts a cost, which gives `FixedTreeIsShortest`, and what `Fix` puts back, from
each sink to the source, hangs on the source (`FixIsTree`), which gives
`SavedIsTree` for nets whose sources are apart (section 3).  That everything
is reached from the source, in as many turns as there are nodes, is proved as a
statement about all sets that are closed under the branches, and then through the
least node by its turn.

Inductions over data are done by hand, through the least counterexample, since the
library's induction theorems cannot be used here.

**Only model-checked**:

* liveness, because fairness and `ENABLED` are out of the prover's reach:
  `CallReturns`, `RoutingEnds`, `TreeIsRouted`, `CacheServes`, `NetIsWritten`;
* the statements that the runs refute.

Every safety invariant and action property of the passing runs is a theorem
(`SavedTree` under `SourcesApart`), and every type invariant is part of one.
What a proof says holds of the model, which leaves out what section 5 lists.

## 5. What is left out, and why

* Costs.  Searches may return any path or take the queue in any order, which
  includes what the costs make them do.  Historical costs and the multiplication
  of the present cost factor are not state of the models.
* The arithmetic of k-means (`stableFirstRouting.cpp:202-489`, with the kernels of
  `mkl_utils`): floating-point distances without which any labeling of the nets
  may result, which is what `Cluster` allows.
* The second schedule of the region mode (`runtimeFirstRouting.cpp:232-283`): its
  batches are read by stable-first routing only, which that mode never calls.
* The target marks in the two parallel routers: which stale mark a search meets
  depends on identifiers and on the records of its thread, which `AStarRouter` models.
  In `RuntimeFirst` and `StableFirst` any path may pass any sink of `StaleTargets`
  at any time, a set that is left open, so they include whatever the marks allow.
* Both modes at once over one set of routes: `AStarRouter` switches between them
  with the connections taken one by one, and the concurrency of each is modelled
  in a module of its own.
* The coordinates, lengths and base costs of nodes with their special cases, and
  the conversion from and to Cap'n Proto messages: values that no control
  depends on but through the costs and the boxes, whose pins are inputs here.
* Two runs at the same time in one directory, and damage to files by anything
  but a run that ends.
* Which accesses of the memory the compiler may reorder: atomics are taken as
  sequentially consistent, as the code declares them.
* Logging, option parsing, vendored containers and thread pools that are not
  used, contest scripts and build files, and the vendored Cap'n Proto library
  with its generated schema code, which is by far the largest part of the
  repository and no part of the router.

## 6. Plan

Done, in the order in which the parts decide over the correctness of the
result: `RunJobsMT`, `JobBarrier`, `NetUsers`, `RuntimeFirst`, `BatchCommit`,
`StableFirst`, `AStarRouter`, `PartitionTree`, `NetSchedule`, `NetReader`,
`SaveRoutes`, `RouteGraph`; then the mode switch in `AStarRouter`, the boxes
(`NetBoxes`), the device and its cache (`DeviceModel`, `DeviceCache`) and their
composition (`FrontEnd`); and the proofs of `RunJobsMT`, `RouteGraph`,
`PartitionTree`, `AStarRouter`, `RuntimeFirst`, `StableFirst`, `NetSchedule`,
`FrontEnd` and `SaveRoutes`.

What is left: the conditions under which `SourcesApart` holds are those of the
device (no wire drives a site's output pin) and could be stated in `DeviceModel`;
liveness stays with TLC.
