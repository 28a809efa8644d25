------------------------------ MODULE FrontEnd ------------------------------
(***************************************************************************)
(* From the device file to the graph that is searched, as main.cpp puts it *)
(* together: readDevice reads the device or loads its dump, readNetlist    *)
(* keeps the nodes of the fixed nets apart and finds the pins, and         *)
(* setRouteNodeChildren reduces the graph.  DeviceCache, DeviceModel and   *)
(* RouteGraph model the parts; the graph of RouteGraph is the one that the *)
(* walks over the loaded memory find.                                      *)
(***************************************************************************)
EXTENDS RouteGraph, DeviceModel, DeviceCache

CONSTANTS
  Netlists  \* Netlists[d]: the netlists for the device d, as records of
            \*   fixed, the clock and static nets, each with the nodes of its
            \*     source pins and its PIPs as sequence of <<tile, w0, w1>>
            \*   sourceless, the sink pins of the nets without a source
            \*   sources, sinks, the ends of the indirect connections, which
            \*     the walks of NetReader find

ASSUME FrontEndAssumption ==
  /\ DOMAIN DeviceNodes = Devices
  /\ \A d \in Devices : DeviceNodes[d] = NodeNum(d) /\ 1..NodeNum(d) \subseteq Nodes
  /\ \A d \in Devices : \A nl \in Netlists[d] :
       nl.sources \subseteq 1..NodeNum(d) /\ nl.sinks \subseteq 1..NodeNum(d)

frontVars == <<vars, cacheVars>>

NodeWires(n) == Wires(memory.node_to_wires[n][1], memory.node_to_wires[n][2])
MemoryNodes == 1..Len(memory.node_to_wires)
Outgoing(n) == get_outgoing_nodes(memory.device, NodeWires(n))
Incoming(n) == get_incoming_nodes(memory.device, NodeWires(n))

\* The branches of a fixed net: its source pins and the nodes of its PIPs.
FixedNodes(net) ==
  net.pins \cup UNION {{tile_wire_to_node(memory.device, p[1], p[2]),
                        tile_wire_to_node(memory.device, p[1], p[3])} : p \in ToSet(net.pips)}

\* Only nodes that begin in an INT tile are kept apart.
preservedNodes(nl) ==
  {n \in nl.sourceless \cup UNION {FixedNodes(net) : net \in nl.fixed} : nodeTileType(memory.device, n) = INT}

GraphOf(nl) ==
  [outgoing |-> UNION {{<<n, m>> : m \in ToSet(Outgoing(n))} : n \in MemoryNodes},
   allowed |-> node_in_allowed_tile(memory.device),
   preserved |-> preservedNodes(nl), sources |-> nl.sources, sinks |-> nl.sinks]

NoGraph == [outgoing |-> {}, allowed |-> {}, preserved |-> {}, sources |-> {}, sinks |-> {}]
Unread ==
  /\ graph = NoGraph /\ pc = "idle" /\ inGraph = {} /\ outDegrees = [n \in Nodes |-> 0]
  /\ deadEndNodeIds = {} /\ newDeadEndNodeIds = {} /\ children = {}

FrontInit == CacheInit /\ Unread

\* The device and its dump; when a run ends, its graph is gone.
ReadingDevice == (Start \/ CacheStep) /\ UNCHANGED vars
EndRun ==
  /\ End
  /\ graph' = NoGraph /\ pc' = "idle" /\ inGraph' = {} /\ outDegrees' = [n \in Nodes |-> 0]
  /\ deadEndNodeIds' = {} /\ newDeadEndNodeIds' = {} /\ children' = {}

\* readNetlist, and the degrees and dead ends with which reduceRouteNode starts.
\* What comes after a load that mixes two devices is not modelled.
ReadNetlist ==
  /\ phase = "ready" /\ pc = "idle" /\ memory = ReadMemory(memory.device)
  /\ \E nl \in Netlists[memory.device] : graph' = GraphOf(nl)
  /\ inGraph' = NodesInGraph'
  /\ outDegrees' = [n \in Nodes |-> Cardinality(OutEdges(n, NodesInGraph)')]
  /\ deadEndNodeIds' = {n \in (NodesInGraph \ Pins)' : outDegrees'[n] = 0}
  /\ newDeadEndNodeIds' = {} /\ children' = {}
  /\ pc' = "reduce"
  /\ UNCHANGED cacheVars

Reducing == Next /\ UNCHANGED cacheVars

FrontNext == ReadingDevice \/ EndRun \/ ReadNetlist \/ Reducing

FrontSpec == FrontInit /\ [][FrontNext]_frontVars /\ WF_frontVars(ReadingDevice /\ CacheStep)

-----------------------------------------------------------------------------

Occurrences(n, s) == Cardinality({i \in DOMAIN s : s[i] = n})

\* The two directions of the edges are found by different walks over different
\* tables (device.cpp:9-61, database.cpp:229, 246).  They agree on every edge,
\* PIPs between the same two nodes counted one by one: a degree that counts
\* the children of a node comes to zero as its children go.
EdgesBothWays ==
  phase = "ready" /\ pc = "idle" /\ memory = ReadMemory(memory.device) =>
    \A m, n \in MemoryNodes : Occurrences(n, Outgoing(m)) = Occurrences(m, Incoming(n))

\* Every PIP that drives a node is in the tile in which the node begins.
DrivenWhereItBegins(d) ==
  \A n \in 1..NodeNum(d) : \A i \in DOMAIN Wires(d, n) :
    LET wire == Wires(d, n)[i] IN
    wire[1] # Wires(d, n)[1][1] =>
      \A w \in ToSet(tile_type_incoming_wires(PIPs(d, wire), wire[2])) :
        tile_wire_to_node(d, wire[1], w) = invalid_obj_idx

\* On such a device the PIP that is written for an edge of a route is a PIP of
\* the tile it names, and leads in the direction that it states from the one
\* node to the other, although its wires may have been found in another tile
\* (device.cpp:856-908, netlist.cpp:599-606).
WrittenPipConnects ==
  pc = "done" /\ DrivenWhereItBegins(memory.device) =>
    \A e \in children :
      LET d == memory.device
          tile == WrittenTile(NodeWires(e[1]), NodeWires(e[2]))
          pip == getTileTypePIP(d, NodeWires(e[1]), NodeWires(e[2]))
          from == IF pip.forward THEN pip.w0 ELSE pip.w1
          to == IF pip.forward THEN pip.w1 ELSE pip.w0
      IN  /\ tile_wire_to_node(d, tile, from) = e[1]
          /\ tile_wire_to_node(d, tile, to) = e[2]
          /\ \E p \in ToSet(Files[d].pips[Files[d].tileType[tile]]) :
               p.w0 = pip.w0 /\ p.w1 = pip.w1 /\ (pip.forward \/ ~p.directional)

=============================================================================
