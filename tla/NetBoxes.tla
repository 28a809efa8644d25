------------------------------ MODULE NetBoxes ------------------------------
(***************************************************************************)
(* The boxes of nets and connections: Netlist::updateNetAndConnectionBBox  *)
(* computes them, and updateIndirectConnectionBBox widens those of the     *)
(* indirect connections.  A search uses only nodes that end strictly       *)
(* inside the box of its connection (aStarRoute::isAccessible), and the    *)
(* schedules compare the boxes.                                            *)
(*                                                                         *)
(* A net has a source and a sequence of sinks, one per connection, each    *)
(* the tile [x, y] where the pin's node ends.                              *)
(***************************************************************************)
EXTENDS Integers, Sequences, FiniteSets, SequencesExt

CONSTANTS
  Layout,   \* [x, y]: the hx and hy of the layout, one past the last tile
  Margin    \* [x, y]: xMargin and yMargin

ASSUME BoxAssumption ==
  /\ Layout.x \in Nat /\ Layout.y \in Nat
  /\ Margin.x \in Nat \ {0} /\ Margin.y \in Nat \ {0}

Axes == {"x", "y"}
\* The tiles of the layout.
Tile == [x : 0..(Layout.x - 1), y : 0..(Layout.y - 1)]
Least(S) == CHOOSE v \in S : \A w \in S : v <= w
Greatest(S) == CHOOSE v \in S : \A w \in S : w <= v

\* The sum of the positions of tiles on axis a.
Total(tiles, a) == FoldLeft(LAMBDA sum, tile : sum + tile[a], 0, tiles)

\* The mean of the pins, rounded up.
Center(net) ==
  LET cnt == Len(net.sinks) + 1
  IN  [a \in Axes |-> (net.source[a] + Total(net.sinks, a) + cnt - 1) \div cnt]

\* Slip: the lower bound is the first tile.
ClippedToTiles(a, lo, hi) ==
  [lo |-> IF lo < 0 THEN 0 ELSE lo, hi |-> IF hi > Layout[a] THEN Layout[a] ELSE hi]

\* An interval on axis a, cut off one tile before the first and after the last.
Clipped(a, lo, hi) ==
  [lo |-> IF lo < 0 THEN -1 ELSE lo, hi |-> IF hi > Layout[a] THEN Layout[a] ELSE hi]

\* The box of the connection to the k-th sink: center, source and sink.
ConnectionBox(net, k) ==
  [a \in Axes |->
     LET ends == {Center(net)[a], net.source[a], net.sinks[k][a]}
     IN  Clipped(a, Least(ends), Greatest(ends))]

\* updateIndirectConnectionBBox.
WidenedBox(box) == [a \in Axes |-> Clipped(a, box[a].lo - Margin[a], box[a].hi + Margin[a])]

\* The box of a net restarts at its center and takes in the boxes of its connections.
NetBox(net, boxes) ==
  [a \in Axes |->
     LET c == Center(net)[a]
     IN  [lo |-> Least({c} \cup {boxes[k][a].lo : k \in DOMAIN boxes}),
          hi |-> Greatest({c} \cup {boxes[k][a].hi : k \in DOMAIN boxes})]]

isAccessible(tile, box) == \A a \in Axes : box[a].lo < tile[a] /\ tile[a] < box[a].hi

=============================================================================
