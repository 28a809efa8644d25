----------------------------- MODULE DeviceModel ----------------------------
(***************************************************************************)
(* The device as the program keeps it (src/src/db/device.cpp): per node    *)
(* its wires, per tile the node of each wire, per tile type the wires that *)
(* its PIPs lead to and come from, and the PIP of a pair of wires.  The    *)
(* edges between nodes are never stored, every walk asks for them again.   *)
(*                                                                         *)
(* A device file lists the tiles with their types, the PIPs of each type   *)
(* and the wires of each node.  The tables are operators of the file that  *)
(* they were built from; the wires of the nodes are an argument, as they   *)
(* are loaded separately.                                                  *)
(***************************************************************************)
EXTENDS Integers, Sequences, FiniteSets, SequencesExt

CONSTANTS
  Files,   \* Files[d]: a device file: tileType, the type of each tile; pips,
           \* those of each type as sequences of [w0, w1, directional]; nodes,
           \* the sequence of nodes as sequences of <<tile, wire>>
  INT, LAG_LAG  \* two tile types

invalid_obj_idx == 0
Devices == DOMAIN Files
NodeNum(d) == Len(Files[d].nodes)
Wires(d, n) == Files[d].nodes[n]

IsSequence(s) == s \in Seq(ToSet(s))

TileType(d, wire) == Files[d].tileType[wire[1]]
PIPs(d, wire) == Files[d].pips[TileType(d, wire)]

\* A PIP appears once (add_tile_type_pip asserts it), a wire is in one node.
ASSUME FilesAssumption ==
  \A d \in Devices :
    /\ IsSequence(Files[d].nodes)
    /\ \A n \in 1..NodeNum(d) :
         /\ IsSequence(Wires(d, n))
         /\ \A wire \in ToSet(Wires(d, n)) : wire = <<wire[1], wire[2]>> /\ IsSequence(PIPs(d, wire))
    /\ \A t \in DOMAIN Files[d].pips :
         LET ps == Files[d].pips[t] IN
         \A i, j \in DOMAIN ps : i # j =>
           /\ <<ps[i].w0, ps[i].w1>> # <<ps[j].w0, ps[j].w1>>
           /\ ~ps[i].directional => <<ps[i].w1, ps[i].w0>> # <<ps[j].w0, ps[j].w1>>
    /\ \A n \in 1..NodeNum(d) : IsInjective(Wires(d, n))
    /\ \A m, n \in 1..NodeNum(d) : m # n => ToSet(Wires(d, m)) \cap ToSet(Wires(d, n)) = {}

tile_wire_to_node(d, tile, w) ==
  LET ns == {n \in 1..NodeNum(d) : <<tile, w>> \in ToSet(Wires(d, n))}
  IN  IF ns = {} THEN invalid_obj_idx ELSE CHOOSE n \in ns : TRUE

\* add_tile_type_pip: where the PIPs of a wire lead to and come from.
Leads(p, w) == (IF p.w0 = w THEN <<p.w1>> ELSE <<>>)
               \o (IF ~p.directional /\ p.w1 = w THEN <<p.w0>> ELSE <<>>)
Comes(p, w) == (IF p.w1 = w THEN <<p.w0>> ELSE <<>>)
               \o (IF ~p.directional /\ p.w0 = w THEN <<p.w1>> ELSE <<>>)

\* Slip: a PIP that works both ways is listed as coming from one end only.
ComesForward(ps, w) == FlattenSeq([i \in DOMAIN ps |-> IF ps[i].w1 = w THEN <<ps[i].w0>> ELSE <<>>])

tile_type_outgoing_wires(ps, w) == FlattenSeq([i \in DOMAIN ps |-> Leads(ps[i], w)])
tile_type_incoming_wires(ps, w) == FlattenSeq([i \in DOMAIN ps |-> Comes(ps[i], w)])

NodeIfAny(n) == IF n = invalid_obj_idx THEN <<>> ELSE <<n>>

\* The nodes of the wires far[i] in the tile of the wire ws[i], for each i in
\* turn; a node may occur several times.
FarNodes(d, ws, far) ==
  LET of(i) == [j \in DOMAIN far[i] |-> NodeIfAny(tile_wire_to_node(d, ws[i][1], far[i][j]))]
  IN  FlattenSeq([i \in DOMAIN ws |-> FlattenSeq(of(i))])

get_outgoing_nodes(d, ws) ==
  FarNodes(d, ws, [i \in DOMAIN ws |-> tile_type_outgoing_wires(PIPs(d, ws[i]), ws[i][2])])
get_incoming_nodes(d, ws) ==
  FarNodes(d, ws, [i \in DOMAIN ws |-> tile_type_incoming_wires(PIPs(d, ws[i]), ws[i][2])])

nodeTileType(d, n) == TileType(d, Wires(d, n)[1])
node_in_allowed_tile(d) == {n \in 1..NodeNum(d) : nodeTileType(d, n) \in {INT, LAG_LAG}}

-----------------------------------------------------------------------------
(* The PIP that is written for an edge of a route *)

\* tile_type_pip_list at tile_type_node_pair_to_pip_idx: the PIPs from one wire
\* to another of a tile type.
PIPsOf(ps, from, to) ==
  {[w0 |-> p.w0, w1 |-> p.w1, forward |-> TRUE] : p \in {x \in ToSet(ps) : x.w0 = from /\ x.w1 = to}}
  \cup {[w0 |-> p.w0, w1 |-> p.w1, forward |-> FALSE] :
          p \in {x \in ToSet(ps) : ~x.directional /\ x.w1 = from /\ x.w0 = to}}

\* The pairs of a wire of the child and one of the parent that a PIP joins.
Joined(d, ws0, ws1) ==
  {h \in (DOMAIN ws1) \X (DOMAIN ws0) :
     /\ ws0[h[2]][1] = ws1[h[1]][1]
     /\ PIPsOf(PIPs(d, ws1[h[1]]), ws0[h[2]][2], ws1[h[1]][2]) # {}}

\* The last wire of the child that has one, with the first of the parent.
getTileTypePIP(d, ws0, ws1) ==
  LET hits == Joined(d, ws0, ws1)
      hit == CHOOSE h \in hits : \A g \in hits : g[1] < h[1] \/ (g[1] = h[1] /\ h[2] <= g[2])
  IN  CHOOSE p \in PIPsOf(PIPs(d, ws1[hit[1]]), ws0[hit[2]][2], ws1[hit[1]][2]) : TRUE

\* Slip: the writer takes the tile in which the parent begins.
ParentTile(ws0, ws1) == ws0[1][1]

\* The tile that Netlist::write names, whichever the PIP was found in.
WrittenTile(ws0, ws1) == ws1[1][1]

=============================================================================
