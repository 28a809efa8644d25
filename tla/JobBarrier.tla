----------------------------- MODULE JobBarrier -----------------------------
(***************************************************************************)
(* What a caller of runJobsMT relies on, whatever threads run the jobs:    *)
(* every job index is handled exactly once and the call returns only when  *)
(* all of them are finished.                                               *)
(***************************************************************************)
CONSTANT Jobs   \* the job indices of one call

VARIABLES
  running,      \* jobs whose handler is executing
  finished,     \* jobs whose handler has returned
  returned      \* the call itself has returned

barrierVars == <<running, finished, returned>>

BarrierInit ==
  /\ running = {}
  /\ finished = {}
  /\ returned = FALSE

StartJob(j) ==
  /\ ~returned
  /\ j \notin running \cup finished
  /\ running' = running \cup {j}
  /\ UNCHANGED <<finished, returned>>

FinishJob(j) ==
  /\ j \in running
  /\ running' = running \ {j}
  /\ finished' = finished \cup {j}
  /\ UNCHANGED returned

ReturnCall ==
  /\ ~returned
  /\ finished = Jobs
  /\ returned' = TRUE
  /\ UNCHANGED <<running, finished>>

BarrierNext ==
  \/ \E j \in Jobs : StartJob(j) \/ FinishJob(j)
  \/ ReturnCall

BarrierSpec == BarrierInit /\ [][BarrierNext]_barrierVars

=============================================================================
