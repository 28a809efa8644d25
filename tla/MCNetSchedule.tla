---------------------------- MODULE MCNetSchedule ---------------------------
(***************************************************************************)
(* Runtime-first with two and four threads and stable-first with one and   *)
(* two: four nets whose boxes lie left, right, across and above each other *)
(* or touch the border, on a device of seven by four tiles with margin one.*)
(***************************************************************************)
EXTENDS NetSchedule, TLC

At(x, y) == [x |-> x, y |-> y]
Pins(source, sinks) == [source |-> source, sinks |-> sinks]

MCLayout == At(7, 4)
MCMargin == At(1, 1)

RegionNets ==
  {Pins(At(1, 1), <<At(1, 2)>>), Pins(At(2, 1), <<At(2, 1), At(2, 1)>>),
   Pins(At(3, 1), <<At(3, 1)>>), Pins(At(4, 2), <<At(4, 3)>>),
   Pins(At(2, 1), <<At(5, 3), At(3, 2)>>), Pins(At(5, 1), <<At(5, 1), At(5, 1), At(5, 1)>>),
   Pins(At(6, 0), <<At(6, 1)>>)}
BatchNets ==
  {Pins(At(0, 0), <<At(1, 3)>>), Pins(At(2, 1), <<At(2, 1), At(2, 1)>>),
   Pins(At(5, 1), <<>>), Pins(At(2, 1), <<At(5, 3), At(3, 2), At(3, 2)>>)}

InputsOf(nets, threads, first) ==
  [numThread : threads, isRuntimeFirst : {first}, net : [Nets -> nets]]

MCInputs ==
  InputsOf(RegionNets, {2, 4}, TRUE) \cup InputsOf(BatchNets, {1, 2}, FALSE)

=============================================================================
