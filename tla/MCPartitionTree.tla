--------------------------- MODULE MCPartitionTree --------------------------
(***************************************************************************)
(* Every placement of three connections with boxes on a small grid.        *)
(***************************************************************************)
EXTENDS PartitionTree, TLC

MCIntervals(last) == {[lo |-> l, hi |-> h] : l \in 0..(last - 1), h \in 1..last}
MCGrid(xlast, ylast) ==
  {b \in [x : MCIntervals(xlast), y : MCIntervals(ylast)] :
     b.x.lo < b.x.hi /\ b.y.lo < b.y.hi}

MCBoxes == MCGrid(4, 2)

=============================================================================
