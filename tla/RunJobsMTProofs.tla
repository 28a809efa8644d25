--------------------------- MODULE RunJobsMTProofs --------------------------
(***************************************************************************)
(* The safety properties of RunJobsMT for every number of jobs and         *)
(* threads.  The inductive invariant ties the shared index to the indices  *)
(* the workers hold: every index below globalJobIdx is completed or held   *)
(* by exactly one worker.                                                  *)
(***************************************************************************)
EXTENDS RunJobsMT, TLAPS

\* Worker t has taken jobIdx[t] from the shared index and not completed it.
Holds(t) == pc[t] \in {"unlock", "handle"}

\* The calling thread runs the jobs itself, in order.
SequentialInv ==
  numThreads <= 1 =>
    /\ mainPc \in {"sequential", "handling", "returned"}
    /\ i <= NumJobs
    /\ mainPc = "handling" => i < NumJobs
    /\ mainPc = "returned" => i = NumJobs
    /\ \A j \in Jobs : handled[j] = IF j < i THEN 1 ELSE 0
    /\ \A t \in Threads : pc[t] = "notSpawned"

\* Workers below i are spawned while spawning, exited while joining.
ForkJoinInv ==
  numThreads >= 2 =>
    /\ mainPc \in {"spawn", "join", "returned"}
    /\ mainPc # "returned" => i < numThreads
    /\ mainPc = "spawn" => \A t \in Threads : t >= i => pc[t] = "notSpawned"
    /\ mainPc = "join" => \A t \in Threads : t < i => pc[t] = "exited"
    /\ mainPc = "returned" => \A t \in Threads : t < numThreads => pc[t] = "exited"
    /\ \A t \in Threads : t >= numThreads => pc[t] = "notSpawned"

\* The mutex is held exactly by the worker between lock() and unlock().
MutexInv ==
  \A t \in Threads : mtx = t <=> pc[t] \in {"read", "write", "unlock"}

\* What the local index of a worker says about the shared one.
IndexInv ==
  /\ \A t \in Threads :
       /\ pc[t] = "write" => jobIdx[t] = globalJobIdx
       /\ Holds(t) => jobIdx[t] < globalJobIdx
       /\ pc[t] = "handle" => jobIdx[t] < NumJobs
       /\ pc[t] = "exited" => globalJobIdx >= NumJobs
  /\ \A t, u \in Threads : t # u /\ Holds(t) /\ Holds(u) => jobIdx[t] # jobIdx[u]

\* An index below globalJobIdx is completed once or held, never both.
JobInv ==
  numThreads >= 2 =>
    \A j \in Jobs :
      /\ handled[j] <= 1
      /\ handled[j] = 1 =>
           j < globalJobIdx /\ \A t \in Threads : Holds(t) => jobIdx[t] # j
      /\ j < globalJobIdx =>
           handled[j] = 1 \/ \E t \in Threads : Holds(t) /\ jobIdx[t] = j

IInv == TypeOK /\ SequentialInv /\ ForkJoinInv /\ MutexInv /\ IndexInv /\ JobInv
-----------------------------------------------------------------------------

LEMMA NumThreadsFacts ==
  /\ NumJobs \in Nat
  /\ MaxThreads \in Nat
  /\ -1 \notin Threads
BY NumJobsAssumption, MaxThreadsAssumption DEF Threads

\* The number of threads is that of the call: it does not change.
LEMMA NumThreadsOfCall ==
  ASSUME TypeOK
  PROVE  /\ numThreads \in Int
         /\ numThreads <= NumJobs
         /\ numThreads <= MaxThreads
         /\ UNCHANGED numThreads_ => numThreads' = numThreads
<1>1. numThreads_ \in Int /\ numThreads_ <= MaxThreads
  BY NumThreadsFacts DEF TypeOK
<1>2. numThreads \in Int /\ numThreads <= NumJobs /\ numThreads <= MaxThreads
  BY <1>1, NumThreadsFacts DEF numThreads
<1>3. UNCHANGED numThreads_ => numThreads' = numThreads
  BY DEF numThreads
<1> QED
  BY <1>2, <1>3

LEMMA WorkerIsSpawned ==
  ASSUME NEW t \in Threads, IInv, Worker(t)
  PROVE  /\ numThreads >= 2 /\ ~(numThreads <= 1) /\ t < numThreads
         /\ pc[t] # "notSpawned" /\ pc[t] # "exited" /\ mainPc # "returned"
         /\ UNCHANGED mainVars /\ numThreads' = numThreads
<1>1. numThreads \in Int /\ t \in Int
  BY NumThreadsOfCall DEF IInv, Threads
<1>2. UNCHANGED mainVars /\ pc[t] # "notSpawned" /\ pc[t] # "exited"
  BY DEF Worker, Lock, ReadIndex, WriteIndex, Unlock, Handle
<1>3. ~(numThreads <= 1)
  BY <1>2 DEF IInv, SequentialInv
<1>4. numThreads >= 2
  BY <1>1, <1>3
<1>5. t < numThreads /\ mainPc # "returned"
  BY <1>1, <1>2, <1>4 DEF IInv, ForkJoinInv
<1> QED
  BY <1>2, <1>3, <1>4, <1>5 DEF mainVars, numThreads

LEMMA InitInv == Init => IInv
<1> USE NumThreadsFacts
<1> SUFFICES ASSUME Init PROVE IInv
  OBVIOUS
<1>1. TypeOK
  BY DEF Init, TypeOK, Unlocked
<1>2. SequentialInv
  BY DEF Init, SequentialInv, Jobs, numThreads
<1>3. ForkJoinInv
  BY DEF Init, ForkJoinInv, numThreads
<1>4. MutexInv
  BY DEF Init, MutexInv, Unlocked
<1>5. IndexInv /\ JobInv
  BY DEF Init, IndexInv, JobInv, Jobs, Holds
<1> QED
  BY <1>1, <1>2, <1>3, <1>4, <1>5 DEF IInv

LEMMA SequentialStep ==
  IInv /\ (StartSequential \/ FinishSequential \/ SequentialReturn) => IInv'
<1> USE NumThreadsFacts DEF mainVars, workerVars
<1> SUFFICES ASSUME IInv, StartSequential \/ FinishSequential \/ SequentialReturn
             PROVE IInv'
  OBVIOUS
<1>n. /\ numThreads \in Int /\ numThreads <= NumJobs /\ numThreads <= MaxThreads
      /\ numThreads' = numThreads
  BY NumThreadsOfCall DEF IInv, StartSequential, FinishSequential, SequentialReturn
<1> USE <1>n
<1>1. numThreads <= 1 /\ ~(numThreads >= 2)
  BY DEF IInv, ForkJoinInv, StartSequential, FinishSequential, SequentialReturn
<1>2. ForkJoinInv' /\ JobInv'
  BY <1>1 DEF ForkJoinInv, JobInv
<1>3. CASE StartSequential
  BY <1>1, <1>2, <1>3 DEF IInv, TypeOK, SequentialInv, MutexInv, IndexInv, Holds, StartSequential
<1>4. CASE FinishSequential
  <2>1. i \in Jobs
    BY <1>1, <1>4 DEF IInv, TypeOK, SequentialInv, FinishSequential, Jobs
  <2>2. TypeOK'
    BY <1>4, <2>1 DEF IInv, TypeOK, FinishSequential
  <2>3. SequentialInv'
    BY <1>1, <1>4, <2>1 DEF IInv, TypeOK, SequentialInv, FinishSequential, Jobs
  <2> QED
    BY <1>2, <1>4, <2>2, <2>3 DEF IInv, MutexInv, IndexInv, Holds, FinishSequential
<1>5. CASE SequentialReturn
  BY <1>1, <1>2, <1>5 DEF IInv, TypeOK, SequentialInv, MutexInv, IndexInv, Holds, SequentialReturn
<1> QED
  BY <1>3, <1>4, <1>5

LEMMA ForkJoinStep == IInv /\ (Spawn \/ Join) => IInv'
<1> USE NumThreadsFacts DEF mainVars, workerVars
<1> SUFFICES ASSUME IInv, Spawn \/ Join PROVE IInv'
  OBVIOUS
<1>n. /\ numThreads \in Int /\ numThreads <= NumJobs /\ numThreads <= MaxThreads
      /\ numThreads' = numThreads
  BY NumThreadsOfCall DEF IInv, Spawn, Join
<1> USE <1>n
<1>1. numThreads >= 2 /\ ~(numThreads <= 1)
  BY DEF IInv, SequentialInv, Spawn, Join
<1>2. SequentialInv' /\ i \in Threads
  BY <1>1 DEF IInv, TypeOK, SequentialInv, ForkJoinInv, Spawn, Join, Threads
<1>3. CASE Spawn
  <2>1. pc[i] = "notSpawned"
    BY <1>1, <1>2, <1>3 DEF IInv, TypeOK, ForkJoinInv, Spawn, Threads
  <2>2. \A t \in Threads : pc'[t] = IF t = i THEN "lock" ELSE pc[t]
    BY <1>3 DEF IInv, TypeOK, Spawn
  <2>3. TypeOK'
    BY <1>2, <1>3 DEF IInv, TypeOK, Spawn
  <2>4. ForkJoinInv'
    BY <1>1, <1>2, <1>3, <2>2 DEF IInv, TypeOK, ForkJoinInv, Spawn, Threads
  <2>5. MutexInv'
    BY <1>3, <2>1, <2>2 DEF IInv, MutexInv, Spawn
  <2>6. \A t \in Threads : Holds(t)' <=> Holds(t)
    BY <2>1, <2>2 DEF Holds
  <2>7. IndexInv'
    BY <1>3, <2>2, <2>6 DEF IInv, IndexInv, Spawn
  <2>8. JobInv'
    BY <1>3, <2>6 DEF IInv, JobInv, Spawn
  <2> QED
    BY <1>2, <2>3, <2>4, <2>5, <2>7, <2>8 DEF IInv
<1>4. CASE Join
  <2>1. TypeOK'
    BY <1>2, <1>4 DEF IInv, TypeOK, Join
  <2>2. ForkJoinInv'
    BY <1>1, <1>2, <1>4 DEF IInv, TypeOK, ForkJoinInv, Join, Threads
  <2> QED
    BY <1>2, <1>4, <2>1, <2>2 DEF IInv, MutexInv, IndexInv, JobInv, Holds, Join
<1> QED
  BY <1>3, <1>4

LEMMA WorkerStep == ASSUME NEW t \in Threads, IInv, Worker(t) PROVE IInv'
<1> USE NumThreadsFacts DEF mainVars
<1>n. /\ numThreads \in Int /\ numThreads <= NumJobs /\ numThreads <= MaxThreads
      /\ numThreads' = numThreads
  BY NumThreadsOfCall DEF IInv, Worker, Lock, ReadIndex, WriteIndex, Unlock, Handle
<1> USE <1>n
<1>1. numThreads >= 2 /\ ~(numThreads <= 1) /\ t < numThreads /\ mainPc # "returned"
  BY WorkerIsSpawned
<1>2. SequentialInv' /\ UNCHANGED mainVars
  BY <1>1, WorkerIsSpawned DEF SequentialInv
<1>3. \A u \in Threads : u # t => pc'[u] = pc[u] /\ jobIdx'[u] = jobIdx[u]
  BY DEF IInv, TypeOK, Worker, Lock, ReadIndex, WriteIndex, Unlock, Handle
<1>4. ForkJoinInv'
  <2>1. pc[t] # "notSpawned" /\ pc[t] # "exited"
    BY WorkerIsSpawned
  <2>2. pc'[t] # "notSpawned"
    BY DEF IInv, TypeOK, Worker, Lock, ReadIndex, WriteIndex, Unlock, Handle
  <2>3. t \in Int
    BY DEF Threads
  <2> QED
    BY <1>1, <1>2, <1>3, <2>1, <2>2, <2>3 DEF IInv, TypeOK, ForkJoinInv
<1>5. CASE Lock(t)
  BY <1>2, <1>3, <1>4, <1>5 DEF IInv, TypeOK, MutexInv, IndexInv, JobInv, Holds, Lock, Unlocked
<1>6. CASE ReadIndex(t)
  BY <1>2, <1>3, <1>4, <1>6 DEF IInv, TypeOK, MutexInv, IndexInv, JobInv, Holds, ReadIndex
<1>7. CASE WriteIndex(t)
  <2>1. TypeOK' /\ MutexInv'
    BY <1>3, <1>7 DEF IInv, TypeOK, MutexInv, WriteIndex
  <2>2. /\ jobIdx[t] = globalJobIdx /\ globalJobIdx' = globalJobIdx + 1
        /\ globalJobIdx \in Nat /\ jobIdx' = jobIdx /\ handled' = handled
        /\ pc'[t] = "unlock"
    BY <1>7 DEF IInv, TypeOK, IndexInv, WriteIndex
  <2>3. \A u \in Threads : u # t => pc[u] \notin {"read", "write", "unlock"}
    BY <1>7 DEF IInv, MutexInv, WriteIndex
  <2>4. \A u \in Threads : Holds(u)' <=> Holds(u) \/ u = t
    BY <1>3, <1>7, <2>2 DEF Holds
  <2>5. ~Holds(t)
    BY <1>7 DEF Holds, WriteIndex
  <2>6. IndexInv'
    BY <1>3, <2>2, <2>3, <2>4, <2>5 DEF IInv, TypeOK, IndexInv
  <2>7. JobInv'
    <3> SUFFICES ASSUME NEW j \in Jobs
                 PROVE  /\ handled[j] <= 1
                        /\ handled[j] = 1 =>
                             j < globalJobIdx' /\ \A u \in Threads : Holds(u)' => jobIdx[u] # j
                        /\ j < globalJobIdx' =>
                             handled[j] = 1 \/ \E u \in Threads : Holds(u)' /\ jobIdx[u] = j
      BY <2>2 DEF JobInv
    <3>1. /\ handled[j] <= 1
          /\ handled[j] = 1 => j < globalJobIdx /\ \A u \in Threads : Holds(u) => jobIdx[u] # j
          /\ j < globalJobIdx => handled[j] = 1 \/ \E u \in Threads : Holds(u) /\ jobIdx[u] = j
      BY <1>1 DEF IInv, JobInv
    <3>2. j \in Int /\ j >= 0
      BY DEF Jobs
    <3>3. handled[j] = 1 => j < globalJobIdx' /\ \A u \in Threads : Holds(u)' => jobIdx[u] # j
      BY <2>2, <2>4, <3>1, <3>2
    <3>4. j < globalJobIdx' => j < globalJobIdx \/ j = jobIdx[t]
      BY <2>2, <3>2
    <3>5. j < globalJobIdx' => handled[j] = 1 \/ \E u \in Threads : Holds(u)' /\ jobIdx[u] = j
      BY <2>4, <3>1, <3>4
    <3> QED
      BY <3>1, <3>3, <3>5
  <2> QED
    BY <1>2, <1>4, <2>1, <2>6, <2>7 DEF IInv
<1>8. CASE Unlock(t)
  <2>1. TypeOK' /\ MutexInv'
    BY <1>3, <1>8 DEF IInv, TypeOK, MutexInv, Unlock, Unlocked
  <2>2. /\ UNCHANGED <<globalJobIdx, jobIdx, handled>>
        /\ pc'[t] = IF jobIdx[t] >= NumJobs THEN "exited" ELSE "handle"
        /\ pc[t] = "unlock" /\ jobIdx[t] \in Nat /\ globalJobIdx \in Nat
    BY <1>8 DEF IInv, TypeOK, Unlock
  <2>3. \A u \in Threads : Holds(u)' => Holds(u)
    BY <1>3, <2>2 DEF Holds
  <2>4. IndexInv'
    BY <1>3, <2>2, <2>3 DEF IInv, IndexInv, Holds
  <2>5. JobInv'
    <3>1. \A u \in Threads, j \in Jobs : Holds(u) /\ jobIdx[u] = j => Holds(u)'
      BY <1>3, <2>2 DEF Holds, Jobs
    <3> QED
      BY <1>1, <2>2, <2>3, <3>1 DEF IInv, JobInv
  <2> QED
    BY <1>2, <1>4, <2>1, <2>4, <2>5 DEF IInv
<1>9. CASE Handle(t)
  <2>1. jobIdx[t] \in Jobs /\ Holds(t)
    BY <1>9 DEF IInv, TypeOK, IndexInv, Handle, Jobs, Holds
  <2>2. TypeOK' /\ MutexInv'
    BY <1>3, <1>9, <2>1 DEF IInv, TypeOK, MutexInv, Handle
  <2>3. /\ UNCHANGED <<globalJobIdx, jobIdx>> /\ pc'[t] = "lock"
        /\ \A j \in Jobs : handled'[j] = IF j = jobIdx[t] THEN handled[j] + 1 ELSE handled[j]
    BY <1>9, <2>1 DEF IInv, TypeOK, Handle
  <2>4. \A u \in Threads : Holds(u)' <=> Holds(u) /\ u # t
    BY <1>3, <2>3 DEF Holds
  <2>5. handled[jobIdx[t]] = 0 /\ jobIdx[t] < globalJobIdx
    BY <1>1, <2>1 DEF IInv, TypeOK, JobInv, IndexInv
  <2>6. IndexInv'
    BY <1>3, <2>3, <2>4 DEF IInv, IndexInv
  <2>7. JobInv'
    BY <1>1, <2>1, <2>3, <2>4, <2>5 DEF IInv, JobInv, IndexInv
  <2> QED
    BY <1>2, <1>4, <2>2, <2>6, <2>7 DEF IInv
<1> QED
  BY <1>5, <1>6, <1>7, <1>8, <1>9 DEF Worker

\* The inductive invariant holds of every reachable state.
THEOREM InductiveInvariant == Spec => []IInv
<1>1. IInv /\ [Next]_vars => IInv'
  <2> SUFFICES ASSUME IInv, [Next]_vars PROVE IInv'
    OBVIOUS
  <2>1. CASE Main
    BY <2>1, SequentialStep, ForkJoinStep DEF Main
  <2>2. ASSUME NEW t \in Threads, Worker(t) PROVE IInv'
    BY <2>2, WorkerStep
  <2>3. CASE UNCHANGED vars
    <3>1. numThreads' = numThreads
      BY <2>3 DEF vars, numThreads
    <3> QED
      BY <2>3, <3>1
      DEF vars, IInv, TypeOK, SequentialInv, ForkJoinInv, MutexInv, IndexInv, JobInv, Holds
  <2> QED
    BY <2>1, <2>2, <2>3 DEF Next
<1> QED
  BY InitInv, <1>1, PTL DEF Spec

\* The variables of runJobsMT keep their types.
THEOREM TypeCorrect == Spec => []TypeOK
<1>1. IInv => TypeOK
  BY DEF IInv
<1> QED
  BY InductiveInvariant, <1>1, PTL

\* No job is handled twice or by two workers at once (the lock around
\* globalJobIdx++, MTStat.cpp:22-24), for any number of jobs and threads.
THEOREM JobsHandledOnce == Spec => []EachJobOnce
<1>1. IInv => EachJobOnce
  <2> SUFFICES ASSUME IInv PROVE EachJobOnce
    OBVIOUS
  <2> USE NumThreadsFacts
  <2>n. numThreads \in Int
    BY NumThreadsOfCall DEF IInv
  <2>1. CASE numThreads <= 1
    BY <2>1 DEF IInv, TypeOK, SequentialInv, EachJobOnce, Running, Jobs
  <2>2. CASE numThreads >= 2
    BY <2>2 DEF IInv, TypeOK, ForkJoinInv, IndexInv, JobInv, EachJobOnce, Running, Holds
  <2> QED
    BY <2>n, <2>1, <2>2
<1> QED
  BY InductiveInvariant, <1>1, PTL

\* runJobsMT returns only after every job has been handled (the join loop,
\* MTStat.cpp:37-39).
THEOREM ReturnsAfterAllJobs == Spec => []AllHandledAtReturn
<1>1. IInv => AllHandledAtReturn
  <2> SUFFICES ASSUME IInv, mainPc = "returned", NEW j \in Jobs PROVE handled[j] = 1
    BY DEF AllHandledAtReturn
  <2> USE NumThreadsFacts
  <2>n. numThreads \in Int /\ numThreads <= MaxThreads
    BY NumThreadsOfCall DEF IInv
  <2>1. CASE numThreads <= 1
    BY <2>1 DEF IInv, SequentialInv, Jobs
  <2>2. CASE numThreads >= 2
    <3>1. 0 \in Threads /\ pc[0] = "exited" /\ \A t \in Threads : ~Holds(t)
      BY <2>n, <2>2 DEF IInv, ForkJoinInv, Threads, Holds
    <3>2. j < globalJobIdx
      BY <3>1 DEF IInv, TypeOK, IndexInv, Jobs
    <3> QED
      BY <2>2, <3>1, <3>2 DEF IInv, JobInv
  <2> QED
    BY <2>n, <2>1, <2>2
<1> QED
  BY InductiveInvariant, <1>1, PTL

-----------------------------------------------------------------------------

LEMMA MainRefines == IInv /\ IInv' /\ Main => [Barrier!BarrierNext]_(Barrier!barrierVars)
<1> USE NumThreadsFacts DEF mainVars, workerVars
<1> SUFFICES ASSUME IInv, IInv', Main PROVE [Barrier!BarrierNext]_(Barrier!barrierVars)
  OBVIOUS
<1>n. /\ numThreads \in Int /\ numThreads <= NumJobs /\ numThreads <= MaxThreads
      /\ numThreads' = numThreads
  BY NumThreadsOfCall DEF IInv, Main, StartSequential, FinishSequential, SequentialReturn, Spawn, Join
<1> USE <1>n
<1> USE DEF Barrier!BarrierNext, Barrier!barrierVars
<1>1. CASE StartSequential
  <2>1. numThreads <= 1 /\ i \in Jobs /\ handled[i] = 0 /\ UNCHANGED handled
    BY <1>1 DEF IInv, TypeOK, SequentialInv, ForkJoinInv, StartSequential, Jobs
  <2>2. Running = {} /\ Running' = {i} /\ i' = i /\ mainPc = "sequential" /\ mainPc' = "handling"
    BY <1>1, <2>1 DEF IInv, TypeOK, SequentialInv, StartSequential, Running
  <2>3. Barrier!StartJob(i)
    BY <2>1, <2>2 DEF Barrier!StartJob
  <2> QED
    BY <2>1, <2>3
<1>2. CASE FinishSequential
  <2>1. numThreads <= 1 /\ i \in Jobs /\ i \in Nat
    BY <1>2 DEF IInv, TypeOK, SequentialInv, ForkJoinInv, FinishSequential, Jobs
  <2>2. Running = {i} /\ Running' = {} /\ mainPc = "handling" /\ mainPc' = "sequential"
    BY <1>2, <2>1 DEF IInv, TypeOK, SequentialInv, FinishSequential, Running
  <2>3. \A j \in Jobs : handled'[j] = IF j = i THEN handled[j] + 1 ELSE handled[j]
    BY <1>2, <2>1 DEF IInv, TypeOK, FinishSequential
  <2>4. {j \in Jobs : handled'[j] >= 1} = {j \in Jobs : handled[j] >= 1} \cup {i}
    <3>1. \A j \in Jobs : handled[j] \in Nat
      BY DEF IInv, TypeOK
    <3>2. \A j \in Jobs : handled'[j] >= 1 <=> handled[j] >= 1 \/ j = i
      BY <2>3, <3>1
    <3> QED
      BY <2>1, <3>2
  <2>5. PICK k \in Jobs : k = i
    BY <2>1
  <2>6. Barrier!FinishJob(k)
    BY <2>1, <2>2, <2>4, <2>5 DEF Barrier!FinishJob
  <2> QED
    BY <2>6
<1>3. CASE SequentialReturn
  <2>1. numThreads <= 1 /\ i = NumJobs /\ UNCHANGED handled
    BY <1>3 DEF IInv, TypeOK, SequentialInv, ForkJoinInv, SequentialReturn
  <2>2. {j \in Jobs : handled[j] >= 1} = Jobs
    BY <2>1 DEF IInv, SequentialInv, Jobs
  <2>3. Running = {} /\ Running' = {} /\ mainPc = "sequential" /\ mainPc' = "returned"
    BY <1>3, <2>1 DEF IInv, SequentialInv, SequentialReturn, Running
  <2>4. Barrier!ReturnCall
    BY <2>1, <2>2, <2>3 DEF Barrier!ReturnCall
  <2> QED
    BY <2>4
<1>4. CASE Spawn
  <2>1. numThreads >= 2 /\ UNCHANGED <<handled, jobIdx>> /\ mainPc = "spawn" /\ mainPc' \in {"spawn", "join"}
    BY <1>4 DEF IInv, SequentialInv, Spawn
  <2>2. i \in Threads /\ pc[i] = "notSpawned"
    BY <1>4, <2>1 DEF IInv, TypeOK, ForkJoinInv, Spawn, Threads
  <2>3. \A u \in Threads : pc'[u] = "handle" <=> pc[u] = "handle"
    BY <1>4, <2>2 DEF IInv, TypeOK, Spawn
  <2>4. Running' = Running
    BY <2>1, <2>3 DEF Running
  <2> QED
    BY <2>1, <2>4
<1>5. CASE Join
  <2>1. numThreads >= 2 /\ UNCHANGED <<handled, jobIdx, pc>> /\ mainPc = "join" /\ mainPc' \in {"join", "returned"}
    BY <1>5 DEF IInv, SequentialInv, Join
  <2>2. Running' = Running
    BY <2>1 DEF Running
  <2>3. CASE mainPc' = "join"
    BY <2>1, <2>2, <2>3
  <2>4. CASE mainPc' = "returned"
    <3>1. \A t \in Threads : ~Holds(t)'
      <4>1. \A t \in Threads : pc'[t] = "exited" \/ pc'[t] = "notSpawned"
        BY <2>1, <2>4 DEF IInv, ForkJoinInv, Threads
      <4> QED
        BY <4>1 DEF Holds
    <3>2. 0 \in Threads /\ pc'[0] = "exited"
      BY <2>1, <2>4 DEF IInv, ForkJoinInv, Threads
    <3>a. numThreads' >= 2 /\ globalJobIdx' \in Nat /\ globalJobIdx' >= NumJobs
      BY <2>1, <3>2 DEF IInv, TypeOK, IndexInv
    <3>3. \A j \in Jobs : handled'[j] = 1
      BY <3>1, <3>a DEF IInv, JobInv, Jobs
    <3>4. {j \in Jobs : handled[j] >= 1} = Jobs
      BY <2>1, <3>3
    <3>5. Barrier!ReturnCall
      BY <2>1, <2>2, <2>4, <3>4 DEF Barrier!ReturnCall
    <3> QED
      BY <3>5
  <2> QED
    BY <2>1, <2>3, <2>4
<1> QED
  BY <1>1, <1>2, <1>3, <1>4, <1>5 DEF Main

LEMMA WorkerRefines ==
  ASSUME NEW t \in Threads, IInv, IInv', Worker(t)
  PROVE  [Barrier!BarrierNext]_(Barrier!barrierVars)
<1> USE NumThreadsFacts DEF mainVars
<1>n. /\ numThreads \in Int /\ numThreads <= NumJobs /\ numThreads <= MaxThreads
      /\ numThreads' = numThreads
  BY NumThreadsOfCall DEF IInv, Worker, Lock, ReadIndex, WriteIndex, Unlock, Handle
<1> USE <1>n
<1> USE DEF Barrier!BarrierNext, Barrier!barrierVars
<1>1. numThreads >= 2 /\ UNCHANGED mainPc /\ mainPc # "returned"
  BY WorkerIsSpawned
<1>2. /\ Running = {jobIdx[u] : u \in {v \in Threads : pc[v] = "handle"}}
      /\ Running' = {jobIdx'[u] : u \in {v \in Threads : pc'[v] = "handle"}}
  BY <1>1 DEF IInv, ForkJoinInv, Running
<1>3. \A u \in Threads : u # t => pc'[u] = pc[u] /\ jobIdx'[u] = jobIdx[u]
  BY DEF IInv, TypeOK, Worker, Lock, ReadIndex, WriteIndex, Unlock, Handle
<1>4. CASE Lock(t) \/ ReadIndex(t) \/ WriteIndex(t)
  <2>1. pc[t] # "handle" /\ pc'[t] # "handle" /\ UNCHANGED handled
    BY <1>4 DEF IInv, TypeOK, Lock, ReadIndex, WriteIndex
  <2>2. Running' = Running
    BY <1>2, <1>3, <2>1
  <2> QED
    BY <1>1, <2>1, <2>2
<1>5. CASE Unlock(t)
  <2>1. /\ pc[t] = "unlock" /\ UNCHANGED <<handled, jobIdx>>
        /\ pc'[t] = IF jobIdx[t] >= NumJobs THEN "exited" ELSE "handle"
    BY <1>5 DEF IInv, TypeOK, Unlock
  <2>2. CASE jobIdx[t] >= NumJobs
    <3>1. Running' = Running
      BY <1>2, <1>3, <2>1, <2>2
    <3> QED
      BY <1>1, <2>1, <3>1
  <2>3. CASE jobIdx[t] < NumJobs
    <3>1. jobIdx[t] \in Jobs /\ Holds(t) /\ pc'[t] = "handle"
      BY <2>1, <2>3 DEF IInv, TypeOK, Jobs, Holds
    <3>2. Running' = Running \cup {jobIdx[t]}
      BY <1>2, <1>3, <2>1, <3>1
    <3>3. jobIdx[t] \notin Running
      BY <1>2, <2>1, <3>1 DEF IInv, IndexInv, Holds
    <3>4. handled[jobIdx[t]] = 0
      BY <1>1, <3>1 DEF IInv, TypeOK, JobInv
    <3>5. Barrier!StartJob(jobIdx[t])
      BY <1>1, <2>1, <3>2, <3>3, <3>4 DEF Barrier!StartJob
    <3> QED
      BY <3>1, <3>5
  <2> QED
    BY <2>2, <2>3 DEF IInv, TypeOK
<1>6. CASE Handle(t)
  <2>1. jobIdx[t] \in Jobs /\ pc[t] = "handle" /\ pc'[t] = "lock" /\ UNCHANGED jobIdx
    BY <1>6 DEF IInv, TypeOK, IndexInv, Handle, Jobs
  <2>2. jobIdx[t] \in Running
    BY <1>2, <2>1
  <2>3. Running' = Running \ {jobIdx[t]}
    <3>1. \A u \in Threads : u # t /\ pc[u] = "handle" => jobIdx[u] # jobIdx[t]
      BY <2>1 DEF IInv, IndexInv, Holds
    <3> QED
      BY <1>2, <1>3, <2>1, <3>1
  <2>4. \A j \in Jobs : handled'[j] = IF j = jobIdx[t] THEN handled[j] + 1 ELSE handled[j]
    BY <1>6, <2>1 DEF IInv, TypeOK, Handle
  <2>5. {j \in Jobs : handled'[j] >= 1} = {j \in Jobs : handled[j] >= 1} \cup {jobIdx[t]}
    BY <2>1, <2>4 DEF IInv, TypeOK
  <2>6. PICK k \in Jobs : k = jobIdx[t]
    BY <2>1
  <2>7. Barrier!FinishJob(k)
    BY <1>1, <2>2, <2>3, <2>5, <2>6 DEF Barrier!FinishJob
  <2> QED
    BY <2>7
<1> QED
  BY <1>4, <1>5, <1>6 DEF Worker

\* runJobsMT (MTStat.cpp:5-42) implements the barrier its callers rely on,
\* for any number of jobs and threads.
THEOREM PoolImplementsBarrier == Spec => ImplementsBarrier
<1>1. Init => Barrier!BarrierInit
  <2> SUFFICES ASSUME Init PROVE Barrier!BarrierInit
    OBVIOUS
  <2>1. Running = {}
    BY DEF Init, Running
  <2> QED
    BY <2>1 DEF Init, Barrier!BarrierInit
<1>2. IInv /\ IInv' /\ [Next]_vars => [Barrier!BarrierNext]_(Barrier!barrierVars)
  <2> SUFFICES ASSUME IInv, IInv', [Next]_vars
               PROVE [Barrier!BarrierNext]_(Barrier!barrierVars)
    OBVIOUS
  <2>1. CASE Main
    BY <2>1, MainRefines
  <2>2. ASSUME NEW t \in Threads, Worker(t)
        PROVE [Barrier!BarrierNext]_(Barrier!barrierVars)
    BY <2>2, WorkerRefines
  <2>3. CASE UNCHANGED vars
    <3>1. Running' = Running
      BY <2>3 DEF vars, Running
    <3> QED
      BY <2>3, <3>1 DEF vars, Barrier!barrierVars
  <2> QED
    BY <2>1, <2>2, <2>3 DEF Next
<1> QED
  BY InductiveInvariant, <1>1, <1>2, PTL DEF Spec, ImplementsBarrier, Barrier!BarrierSpec

=============================================================================
