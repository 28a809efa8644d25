------------------------------ MODULE RunJobsMT -----------------------------
(***************************************************************************)
(* runJobsMT of src/src/utils/MTStat.cpp: a fork/join over a shared job    *)
(* index.  The main thread spawns numThreads workers and joins them in     *)
(* order; a worker takes the next index under a mutex until the index runs *)
(* past the last job.  With one thread or fewer the main thread runs all   *)
(* jobs itself.  The duration statistics are left out.                     *)
(***************************************************************************)
EXTENDS Integers

CONSTANTS
  NumJobs,     \* numJobs, the first argument
  MaxThreads   \* bound on the requested number of threads

ASSUME NumJobsAssumption == NumJobs \in Nat
ASSUME MaxThreadsAssumption == MaxThreads \in Nat

Jobs == 0..(NumJobs - 1)
Threads == 0..(MaxThreads - 1)
Unlocked == -1

VARIABLES
  numThreads_,   \* the second argument, the requested number of threads
  mainPc,        \* where the calling thread is
  i,             \* its loop index: sequential job, spawn or join
  globalJobIdx,  \* the shared index of the next job
  mtx,           \* the thread holding the mutex, or Unlocked
  pc,            \* where each worker is
  jobIdx,        \* each worker's local job index
  handled        \* how many times handle(j) has completed

\* std::min(numJobs, numThreads_)
numThreads == IF NumJobs <= numThreads_ THEN NumJobs ELSE numThreads_

vars == <<numThreads_, mainPc, i, globalJobIdx, mtx, pc, jobIdx, handled>>
mainVars == <<numThreads_, mainPc, i>>
workerVars == <<globalJobIdx, mtx, pc, jobIdx>>

Init ==
  /\ numThreads_ \in 0..MaxThreads
  /\ mainPc = IF numThreads <= 1 THEN "sequential" ELSE "spawn"
  /\ i = 0
  /\ globalJobIdx = 0
  /\ mtx = Unlocked
  /\ pc = [t \in Threads |-> "notSpawned"]
  /\ jobIdx = [t \in Threads |-> 0]
  /\ handled = [j \in Jobs |-> 0]

\* for (i = 0; i < numJobs; ++i) handle(i); in the calling thread.
StartSequential ==
  /\ mainPc = "sequential"
  /\ i < NumJobs
  /\ mainPc' = "handling"
  /\ UNCHANGED <<numThreads_, i, workerVars, handled>>

FinishSequential ==
  /\ mainPc = "handling"
  /\ handled' = [handled EXCEPT ![i] = @ + 1]
  /\ i' = i + 1
  /\ mainPc' = "sequential"
  /\ UNCHANGED <<numThreads_, workerVars>>

SequentialReturn ==
  /\ mainPc = "sequential"
  /\ i >= NumJobs
  /\ mainPc' = "returned"
  /\ UNCHANGED <<numThreads_, i, workerVars, handled>>

Spawn ==
  /\ mainPc = "spawn"
  /\ pc' = [pc EXCEPT ![i] = "lock"]
  /\ i' = IF i + 1 = numThreads THEN 0 ELSE i + 1
  /\ mainPc' = IF i + 1 = numThreads THEN "join" ELSE "spawn"
  /\ UNCHANGED <<numThreads_, globalJobIdx, mtx, jobIdx, handled>>

\* Slip: the pool returns without waiting for its workers.
JoinAtOnce ==
  /\ mainPc = "join"
  /\ i' = i + 1
  /\ mainPc' = IF i + 1 = numThreads THEN "returned" ELSE "join"
  /\ UNCHANGED <<numThreads_, workerVars, handled>>

\* threads[i].join() returns once worker i has left its loop.
Join ==
  /\ mainPc = "join"
  /\ pc[i] = "exited"
  /\ i' = i + 1
  /\ mainPc' = IF i + 1 = numThreads THEN "returned" ELSE "join"
  /\ UNCHANGED <<numThreads_, workerVars, handled>>

\* Slip: the index is taken without the mutex.
LockNothing(t) ==
  /\ pc[t] = "lock"
  /\ pc' = [pc EXCEPT ![t] = "read"]
  /\ UNCHANGED <<mainVars, mtx, globalJobIdx, jobIdx, handled>>

Lock(t) ==
  /\ pc[t] = "lock"
  /\ mtx = Unlocked
  /\ mtx' = t
  /\ pc' = [pc EXCEPT ![t] = "read"]
  /\ UNCHANGED <<mainVars, globalJobIdx, jobIdx, handled>>

\* jobIdx = globalJobIdx++ is a read and a write of a plain int.
ReadIndex(t) ==
  /\ pc[t] = "read"
  /\ jobIdx' = [jobIdx EXCEPT ![t] = globalJobIdx]
  /\ pc' = [pc EXCEPT ![t] = "write"]
  /\ UNCHANGED <<mainVars, globalJobIdx, mtx, handled>>

WriteIndex(t) ==
  /\ pc[t] = "write"
  /\ globalJobIdx' = jobIdx[t] + 1
  /\ pc' = [pc EXCEPT ![t] = "unlock"]
  /\ UNCHANGED <<mainVars, mtx, jobIdx, handled>>

\* Slip: the worker leaves the loop with the mutex held.
UnlockToHandleOnly(t) ==
  /\ pc[t] = "unlock"
  /\ mtx' = IF jobIdx[t] >= NumJobs THEN mtx ELSE Unlocked
  /\ pc' = [pc EXCEPT ![t] = IF jobIdx[t] >= NumJobs THEN "exited" ELSE "handle"]
  /\ UNCHANGED <<mainVars, globalJobIdx, jobIdx, handled>>

\* mtx.unlock(), then the test that leaves the loop or runs the job.
Unlock(t) ==
  /\ pc[t] = "unlock"
  /\ mtx' = Unlocked
  /\ pc' = [pc EXCEPT ![t] = IF jobIdx[t] >= NumJobs THEN "exited" ELSE "handle"]
  /\ UNCHANGED <<mainVars, globalJobIdx, jobIdx, handled>>

Handle(t) ==
  /\ pc[t] = "handle"
  /\ handled' = [handled EXCEPT ![jobIdx[t]] = @ + 1]
  /\ pc' = [pc EXCEPT ![t] = "lock"]
  /\ UNCHANGED <<mainVars, globalJobIdx, mtx, jobIdx>>

Main == StartSequential \/ FinishSequential \/ SequentialReturn \/ Spawn \/ Join
Worker(t) == Lock(t) \/ ReadIndex(t) \/ WriteIndex(t) \/ Unlock(t) \/ Handle(t)

Next == Main \/ \E t \in Threads : Worker(t)

Spec == Init /\ [][Next]_vars

\* The operating system runs every thread that can run.
Fairness == WF_vars(Main) /\ \A t \in Threads : WF_vars(Worker(t))

FairSpec == Spec /\ Fairness

-----------------------------------------------------------------------------

TypeOK ==
  /\ numThreads_ \in 0..MaxThreads
  /\ mainPc \in {"sequential", "handling", "spawn", "join", "returned"}
  /\ i \in Nat
  /\ globalJobIdx \in Nat
  /\ mtx \in Threads \cup {Unlocked}
  /\ pc \in [Threads -> {"notSpawned", "lock", "read", "write", "unlock", "handle", "exited"}]
  /\ jobIdx \in [Threads -> Nat]
  /\ handled \in [Jobs -> Nat]

\* The jobs being executed now, by a worker or by the calling thread.
Running ==
  {jobIdx[t] : t \in {u \in Threads : pc[u] = "handle"}}
    \cup {j \in Jobs : mainPc = "handling" /\ j = i}

\* No job index is handed out twice: two workers never execute the same job,
\* and a job that was completed is completed once and not executing again.
\* This is what the lock around globalJobIdx++ (MTStat.cpp:22-24) is for.
EachJobOnce ==
  /\ \A t, u \in Threads :
       t # u /\ pc[t] = "handle" /\ pc[u] = "handle" => jobIdx[t] # jobIdx[u]
  /\ \A j \in Jobs : handled[j] <= 1 /\ (handled[j] = 1 => j \notin Running)

\* When runJobsMT returns, every job has been handled: the join loop
\* (MTStat.cpp:37-39) is the barrier between two levels of the partition tree.
AllHandledAtReturn ==
  mainPc = "returned" => \A j \in Jobs : handled[j] = 1

\* Every call returns: no worker is left waiting for the mutex or the index.
CallReturns == <>(mainPc = "returned")

\* The job pool implements the barrier its callers rely on.
Barrier == INSTANCE JobBarrier WITH
  running <- Running,
  finished <- {j \in Jobs : handled[j] >= 1},
  returned <- mainPc = "returned"

\* Every step of the pool, spawning and locking included, is a step of the
\* barrier or invisible to its caller (runJobsMT, MTStat.cpp:5-42).
ImplementsBarrier == Barrier!BarrierSpec

=============================================================================
