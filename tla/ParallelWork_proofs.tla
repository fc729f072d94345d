------------------------ MODULE ParallelWork_proofs ------------------------
(***************************************************************************)
(* Proofs about the two schemes by which the compiler works in parallel:   *)
(* the tools of the driver (JobScheduler), for any number of tools, any    *)
(* batches and any number of slots, and the task queue (TaskQueue), for    *)
(* any tasks, priorities and number of threads.                            *)
(***************************************************************************)
EXTENDS JobScheduler, TaskQueue, FiniteSetTheorems, WellFoundedInduction, TLAPS

-----------------------------------------------------------------------------
(* The driver: the slots, the batches and the result of Job::Execute.      *)

\* No two tools have the same command string, so no future is dropped.
CommandsDiffer == Twins = {}

\* The tools before `next` are the ones that were started.
StartedInOrder ==
    /\ \A t \in Tool : child[t] # "none" <=> t < next
    /\ childWorkers \subseteq 1..(next - 1)
    /\ execute \in {"Slot", "Execute", "PollAny"} => next <= N
    /\ execute = "Ok" => next = N + 1

\* A tool without a future has ended well, or its failure is known.
FailureKnown ==
    \/ execute = "Failed"
    \/ execute \in {"PollAny", "PollAll"} /\ ~success
    \/ \A t \in Tool : t < next /\ t \notin childWorkers => child[t] = "exitOk"

\* The futures are those of one batch: the one of `next`, or the one of the
\* tool before it while the driver waits for all of that batch.
OneBatch ==
    /\ execute \in {"Slot", "Execute", "PollAny"} => Earlier(next) \cap childWorkers = {}
    /\ execute = "PollAll" => Earlier(next - 1) \cap childWorkers = {} /\ next - 1 \in Ends
    /\ execute = "Ok" => childWorkers = {}

BatchInv == JobTypeOK /\ StartedInOrder /\ FailureKnown /\ OneBatch /\ BatchBarrier

-----------------------------------------------------------------------------
LEMMA InitType == JobInit => JobTypeOK
  <1> SUFFICES ASSUME JobInit PROVE JobTypeOK
    OBVIOUS
  <1>1. N \in Nat /\ 1 <= N /\ Jobs \in Nat
    BY JobsAssumption DEF JobsAssumption
  <1>2. next \in 1..(N + 1) /\ count \in Nat
    BY <1>1 DEF JobInit
  <1>3. child \in [Tool -> {"none", "running", "exitOk", "exitFail"}]
    BY DEF JobInit
  <1> QED
    BY <1>2, <1>3 DEF JobInit, JobTypeOK

LEMMA NextType == JobTypeOK /\ StartedInOrder /\ [JobNext]_jobVars => JobTypeOK'
  <1> SUFFICES ASSUME JobTypeOK, StartedInOrder, [JobNext]_jobVars PROVE JobTypeOK'
    OBVIOUS
  <1> USE JobsAssumption DEF JobsAssumption, JobTypeOK, Tool
  <1>1. CASE WaitForSlot
    BY <1>1 DEF WaitForSlot, NeedsSlot
  <1>2. CASE HasSlot
    BY <1>2 DEF HasSlot, pollVars
  <1>3. CASE Spawn
    <2>1. next \in 1..N
      BY <1>3 DEF Spawn, StartedInOrder
    <2>2. next' \in 1..(N + 1)
      BY <1>3, <2>1 DEF Spawn
    <2>3. child' \in [Tool -> {"none", "running", "exitOk", "exitFail"}]
      BY <1>3 DEF Spawn
    <2>4. childWorkers' \subseteq Tool /\ toPoll' = childWorkers'
      BY <1>3, <2>1 DEF Spawn
    <2>5. count' \in Nat
      BY <1>3 DEF Spawn
    <2> QED
      BY <1>3, <2>2, <2>3, <2>4, <2>5 DEF Spawn, AfterSpawn
  <1>4. CASE SpawnFails
    BY <1>4 DEF SpawnFails, pollVars
  <1>5. CASE EndOfPass
    BY <1>5 DEF EndOfPass, pollVars
  <1>6. ASSUME NEW t \in Tool, PollFinished(t) PROVE JobTypeOK'
    BY <1>6 DEF PollFinished, Released, Judge
  <1>7. ASSUME NEW t \in Tool, PollRunning(t) PROVE JobTypeOK'
    BY <1>7 DEF PollRunning
  <1>8. ASSUME NEW t \in Tool, ChildExits(t) PROVE JobTypeOK'
    BY <1>8 DEF ChildExits, pollVars
  <1>9. CASE FilesDeleted
    BY <1>9 DEF FilesDeleted, pollVars
  <1>10. CASE UNCHANGED jobVars
    BY <1>10 DEF jobVars, pollVars
  <1> QED
    BY <1>1, <1>2, <1>3, <1>4, <1>5, <1>6, <1>7, <1>8, <1>9, <1>10 DEF JobNext, Driver, JobDone

LEMMA NextStarted == JobTypeOK /\ StartedInOrder /\ [JobNext]_jobVars => StartedInOrder'
  <1> SUFFICES ASSUME JobTypeOK, StartedInOrder, [JobNext]_jobVars PROVE StartedInOrder'
    OBVIOUS
  <1> USE JobsAssumption DEF JobsAssumption, JobTypeOK, Tool, StartedInOrder
  <1>1. CASE WaitForSlot
    BY <1>1 DEF WaitForSlot
  <1>2. CASE HasSlot
    BY <1>2 DEF HasSlot
  <1>3. CASE Spawn
    BY <1>3 DEF Spawn, AfterSpawn
  <1>4. CASE SpawnFails
    BY <1>4 DEF SpawnFails
  <1>5. CASE EndOfPass
    BY <1>5 DEF EndOfPass, Polling
  <1>6. ASSUME NEW t \in Tool, PollFinished(t) PROVE StartedInOrder'
    BY <1>6 DEF PollFinished, Polling
  <1>7. ASSUME NEW t \in Tool, PollRunning(t) PROVE StartedInOrder'
    BY <1>7 DEF PollRunning
  <1>8. ASSUME NEW t \in Tool, ChildExits(t) PROVE StartedInOrder'
    BY <1>8 DEF ChildExits
  <1>9. CASE FilesDeleted
    BY <1>9 DEF FilesDeleted
  <1>10. CASE UNCHANGED jobVars
    BY <1>10 DEF jobVars
  <1> QED
    BY <1>1, <1>2, <1>3, <1>4, <1>5, <1>6, <1>7, <1>8, <1>9, <1>10 DEF JobNext, Driver, JobDone

-----------------------------------------------------------------------------
LEMMA NextFailureKnown ==
  CommandsDiffer /\ JobTypeOK /\ StartedInOrder /\ FailureKnown /\ [JobNext]_jobVars => FailureKnown'
  <1> SUFFICES ASSUME CommandsDiffer, JobTypeOK, StartedInOrder, FailureKnown, [JobNext]_jobVars
               PROVE FailureKnown'
    OBVIOUS
  <1> USE JobsAssumption DEF JobsAssumption, JobTypeOK, Tool, FailureKnown
  <1>1. CASE WaitForSlot
    BY <1>1 DEF WaitForSlot
  <1>2. CASE HasSlot
    BY <1>2 DEF HasSlot
  <1>3. CASE Spawn
    BY <1>3 DEF Spawn, Tracked, CommandsDiffer, StartedInOrder
  <1>4. CASE SpawnFails
    BY <1>4 DEF SpawnFails
  <1>5. CASE EndOfPass
    BY <1>5 DEF EndOfPass, Polling, pollVars
  <1>6. ASSUME NEW t \in Tool, PollFinished(t) PROVE FailureKnown'
    BY <1>6 DEF PollFinished, Polling, Judge
  <1>7. ASSUME NEW t \in Tool, PollRunning(t) PROVE FailureKnown'
    BY <1>7 DEF PollRunning
  <1>8. ASSUME NEW t \in Tool, ChildExits(t) PROVE FailureKnown'
    BY <1>8 DEF ChildExits, pollVars
  <1>9. CASE FilesDeleted
    BY <1>9 DEF FilesDeleted, pollVars
  <1>10. CASE UNCHANGED jobVars
    BY <1>10 DEF jobVars, pollVars
  <1> QED
    BY <1>1, <1>2, <1>3, <1>4, <1>5, <1>6, <1>7, <1>8, <1>9, <1>10 DEF JobNext, Driver, JobDone

\* The tools before next - 1 that are in earlier batches are also before next.
LEMMA EarlierNext ==
  ASSUME NEW n \in 1..N
  PROVE  /\ n \notin Ends => Earlier(n + 1) = Earlier(n)
         /\ Earlier(n) \subseteq 1..(n - 1)
  BY JobsAssumption DEF JobsAssumption, Earlier, Tool

LEMMA NextOneBatch ==
  JobTypeOK /\ StartedInOrder /\ OneBatch /\ [JobNext]_jobVars => OneBatch'
  <1> SUFFICES ASSUME JobTypeOK, StartedInOrder, OneBatch, [JobNext]_jobVars
               PROVE OneBatch'
    OBVIOUS
  <1> USE JobsAssumption DEF JobsAssumption, JobTypeOK, OneBatch
  <1>1. CASE WaitForSlot
    BY <1>1 DEF WaitForSlot
  <1>2. CASE HasSlot
    BY <1>2 DEF HasSlot
  <1>3. CASE Spawn
    <2>1. next \in 1..N
      BY <1>3 DEF Spawn, StartedInOrder
    <2>2. childWorkers' \subseteq childWorkers \cup {next}
      BY <1>3 DEF Spawn
    <2>3. Earlier(next) \cap childWorkers' = {}
      BY <1>3, <2>1, <2>2, EarlierNext DEF Spawn
    <2>4. next' = next + 1 /\ next' - 1 = next
      BY <1>3, <2>1 DEF Spawn
    <2>5. CASE next \in Ends
      BY <1>3, <2>3, <2>4, <2>5 DEF Spawn, AfterSpawn, Earlier, Tool
    <2>6. CASE next \notin Ends
      BY <1>3, <2>1, <2>3, <2>4, <2>6, EarlierNext DEF Spawn, AfterSpawn, Earlier, Tool
    <2> QED
      BY <2>5, <2>6
  <1>4. CASE SpawnFails
    BY <1>4 DEF SpawnFails
  <1>5. CASE EndOfPass
    BY <1>5 DEF EndOfPass, Polling, StartedInOrder, pollVars
  <1>6. ASSUME NEW t \in Tool, PollFinished(t) PROVE OneBatch'
    BY <1>6 DEF PollFinished, Polling, Earlier
  <1>7. ASSUME NEW t \in Tool, PollRunning(t) PROVE OneBatch'
    BY <1>7 DEF PollRunning, Earlier
  <1>8. ASSUME NEW t \in Tool, ChildExits(t) PROVE OneBatch'
    BY <1>8 DEF ChildExits, Earlier
  <1>9. CASE FilesDeleted
    BY <1>9 DEF FilesDeleted, Earlier
  <1>10. CASE UNCHANGED jobVars
    BY <1>10 DEF jobVars, Earlier
  <1> QED
    BY <1>1, <1>2, <1>3, <1>4, <1>5, <1>6, <1>7, <1>8, <1>9, <1>10 DEF JobNext, Driver, JobDone

LEMMA NextBarrier ==
  BatchInv /\ [JobNext]_jobVars => BatchBarrier'
  <1> SUFFICES ASSUME BatchInv, [JobNext]_jobVars,
                      NEW t \in Tool, child'[t] # "none", NEW u \in Earlier(t)
               PROVE  child'[u] = "exitOk" /\ u \notin childWorkers'
    BY DEF BatchBarrier, Earlier
  <1> USE JobsAssumption DEF JobsAssumption, BatchInv, JobTypeOK, Tool, BatchBarrier
  <1>0. u \in Tool /\ u < t
    BY DEF Earlier
  <1>1. CASE WaitForSlot
    BY <1>1 DEF WaitForSlot
  <1>2. CASE HasSlot
    BY <1>2 DEF HasSlot
  <1>3. CASE Spawn
    <2>1. CASE t = next
      <3>1. u \notin childWorkers
        BY <1>3, <2>1 DEF Spawn, OneBatch
      <3>2. child[u] = "exitOk"
        BY <1>0, <1>3, <2>1, <3>1 DEF Spawn, FailureKnown
      <3> QED
        BY <1>0, <1>3, <2>1, <3>1, <3>2 DEF Spawn
    <2>2. CASE t # next
      <3>1. child[t] # "none" /\ t < next
        BY <1>3, <2>2 DEF Spawn, StartedInOrder
      <3> QED
        BY <1>0, <1>3, <3>1 DEF Spawn
    <2> QED
      BY <2>1, <2>2
  <1>4. CASE SpawnFails
    BY <1>4 DEF SpawnFails
  <1>5. CASE EndOfPass
    BY <1>5 DEF EndOfPass
  <1>6. ASSUME NEW v \in Tool, PollFinished(v)
        PROVE  child'[u] = "exitOk" /\ u \notin childWorkers'
    BY <1>6 DEF PollFinished
  <1>7. ASSUME NEW v \in Tool, PollRunning(v)
        PROVE  child'[u] = "exitOk" /\ u \notin childWorkers'
    BY <1>7 DEF PollRunning
  <1>8. ASSUME NEW v \in Tool, ChildExits(v)
        PROVE  child'[u] = "exitOk" /\ u \notin childWorkers'
    BY <1>0, <1>8 DEF ChildExits
  <1>9. CASE FilesDeleted
    BY <1>9 DEF FilesDeleted
  <1>10. CASE UNCHANGED jobVars
    BY <1>10 DEF jobVars
  <1> QED
    BY <1>1, <1>2, <1>3, <1>4, <1>5, <1>6, <1>7, <1>8, <1>9, <1>10 DEF JobNext, Driver, JobDone

LEMMA InitBatch == JobInit => BatchInv
  <1> SUFFICES ASSUME JobInit PROVE BatchInv
    OBVIOUS
  <1>1. JobTypeOK
    BY InitType
  <1>2. StartedInOrder /\ FailureKnown
    BY JobsAssumption DEF JobsAssumption, JobInit, StartedInOrder, FailureKnown, Tool
  <1>3. OneBatch /\ BatchBarrier
    BY DEF JobInit, OneBatch, BatchBarrier
  <1> QED
    BY <1>1, <1>2, <1>3 DEF BatchInv

LEMMA NextBatch == CommandsDiffer /\ BatchInv /\ [JobNext]_jobVars => BatchInv'
  BY NextType, NextStarted, NextFailureKnown, NextOneBatch, NextBarrier DEF BatchInv

-----------------------------------------------------------------------------
\* Every variable of Job::Execute keeps its type.
THEOREM JobTypeCorrect == JobSpec => []JobTypeOK
  <1>1. JobInit => JobTypeOK /\ StartedInOrder
    BY InitBatch DEF BatchInv
  <1>2. JobTypeOK /\ StartedInOrder /\ [JobNext]_jobVars => (JobTypeOK /\ StartedInOrder)'
    BY NextType, NextStarted
  <1> QED
    BY <1>1, <1>2, PTL DEF JobSpec

\* The tools of a batch start only when all those of the earlier batches have
\* ended well: the wait at the end of the batch loop, with the waits for a slot
\* inside it, is a barrier.
THEOREM BarrierCorrect == CommandsDiffer => (JobSpec => []BatchBarrier)
  <1> SUFFICES ASSUME CommandsDiffer PROVE JobSpec => []BatchBarrier
    OBVIOUS
  <1>1. BatchInv /\ [JobNext]_jobVars => BatchInv'
    BY NextBatch
  <1>2. BatchInv => BatchBarrier
    BY DEF BatchInv
  <1> QED
    BY InitBatch, <1>1, <1>2, PTL DEF JobSpec

\* Job::Execute returns true only when every tool was run and succeeded, also
\* the ones whose end was first seen while waiting for a slot.
THEOREM SuccessCorrect == CommandsDiffer => (JobSpec => []SuccessMeansAll)
  <1> SUFFICES ASSUME CommandsDiffer PROVE JobSpec => []SuccessMeansAll
    OBVIOUS
  <1>1. BatchInv /\ [JobNext]_jobVars => BatchInv'
    BY NextBatch
  <1>2. BatchInv => SuccessMeansAll
    BY JobsAssumption
       DEF JobsAssumption, BatchInv, JobTypeOK, StartedInOrder, FailureKnown, OneBatch, SuccessMeansAll, Tool
  <1> QED
    BY InitBatch, <1>1, <1>2, PTL DEF JobSpec

\* Once the failure of a tool has been read, also in the middle of a batch, no
\* other tool is started: Job::Execute goes no further than the pass that read it.
THEOREM FailureCorrect == CommandsDiffer => (JobSpec => FailureStops)
  <1> SUFFICES ASSUME CommandsDiffer PROVE JobSpec => FailureStops
    OBVIOUS
  <1> DEFINE Unread == \A t \in Tool : child[t] = "none" /\ child'[t] # "none" =>
                          \A u \in Tool : child[u] = "exitFail" => u \in childWorkers
  <1>1. BatchInv /\ [JobNext]_jobVars => BatchInv'
    BY NextBatch
  <1>2. BatchInv /\ [JobNext]_jobVars => [Unread]_jobVars
    <2> SUFFICES ASSUME BatchInv, JobNext,
                        NEW t \in Tool, child[t] = "none", child'[t] # "none",
                        NEW u \in Tool, child[u] = "exitFail"
                 PROVE  u \in childWorkers
      OBVIOUS
    <2> USE DEF BatchInv, JobTypeOK
    <2>1. CASE Spawn
      <3>1. u < next
        BY DEF StartedInOrder
      <3>2. \A v \in Tool : v < next /\ v \notin childWorkers => child[v] = "exitOk"
        BY <2>1 DEF Spawn, FailureKnown
      <3> QED
        BY <3>1, <3>2
    <2>2. CASE WaitForSlot \/ HasSlot \/ SpawnFails \/ EndOfPass \/ FilesDeleted \/ JobDone
      BY <2>2 DEF WaitForSlot, HasSlot, SpawnFails, EndOfPass, FilesDeleted, JobDone, jobVars
    <2>3. ASSUME NEW v \in Tool, PollFinished(v) \/ PollRunning(v) PROVE FALSE
      BY <2>3 DEF PollFinished, PollRunning
    <2>4. ASSUME NEW v \in Tool, ChildExits(v) PROVE FALSE
      BY <2>4 DEF ChildExits
    <2> QED
      BY <2>1, <2>2, <2>3, <2>4 DEF JobNext, Driver
  <1> HIDE DEF Unread
  <1>3. JobSpec => [][Unread]_jobVars
    BY InitBatch, <1>1, <1>2, PTL DEF JobSpec
  <1> QED
    BY <1>3 DEF Unread, FailureStops

\* The process-wide semaphore neither loses a slot nor makes one.
THEOREM SlotsCorrect == CommandsDiffer => (JobSpec => []SlotsBalanced)
  <1> SUFFICES ASSUME CommandsDiffer PROVE JobSpec => []SlotsBalanced
    OBVIOUS
  <1> DEFINE Inv == JobTypeOK /\ StartedInOrder /\ SlotsBalanced
  <1>1. JobInit => Inv
    BY InitBatch, FS_EmptySet, JobsAssumption
       DEF JobsAssumption, BatchInv, JobInit, SlotsBalanced
  <1>2. JobTypeOK /\ StartedInOrder /\ SlotsBalanced /\ [JobNext]_jobVars => SlotsBalanced'
    <2> SUFFICES ASSUME JobTypeOK, StartedInOrder, SlotsBalanced, [JobNext]_jobVars PROVE SlotsBalanced'
      OBVIOUS
    <2> USE DEF SlotsBalanced
    <2>1. IsFiniteSet(childWorkers) /\ Cardinality(childWorkers) \in Nat
      <3>1. IsFiniteSet(Tool)
        BY FS_Interval, JobsAssumption DEF JobsAssumption, Tool
      <3> QED
        BY <3>1, FS_Subset, FS_CardinalityType DEF JobTypeOK
    <2>2. CASE WaitForSlot \/ HasSlot \/ SpawnFails \/ EndOfPass
      BY <2>2 DEF WaitForSlot, HasSlot, SpawnFails, EndOfPass
    <2>3. CASE Spawn
      <3>1. next \notin childWorkers
        BY DEF StartedInOrder, JobTypeOK
      <3>2. childWorkers' = childWorkers \cup {next}
        BY <2>3 DEF Spawn, Tracked, CommandsDiffer
      <3>3. Cardinality(childWorkers') = Cardinality(childWorkers) + 1
        BY <2>1, <3>1, <3>2, FS_AddElement
      <3> QED
        BY <2>1, <2>3, <3>3 DEF Spawn, JobTypeOK
    <2>4. ASSUME NEW t \in Tool, PollFinished(t) PROVE SlotsBalanced'
      <3>1. t \in childWorkers /\ childWorkers' = childWorkers \ {t}
        BY <2>4 DEF PollFinished, JobTypeOK
      <3>2. Cardinality(childWorkers') = Cardinality(childWorkers) - 1
        BY <2>1, <3>1, FS_RemoveElement
      <3> QED
        BY <2>1, <2>4, <3>2 DEF PollFinished, Released, JobTypeOK
    <2>5. ASSUME NEW t \in Tool, PollRunning(t) \/ ChildExits(t) PROVE SlotsBalanced'
      BY <2>5 DEF PollRunning, ChildExits
    <2>6. CASE FilesDeleted \/ UNCHANGED jobVars
      BY <2>6 DEF FilesDeleted, jobVars
    <2> QED
      BY <2>2, <2>3, <2>4, <2>5, <2>6 DEF JobNext, Driver, JobDone
  <1>3. Inv /\ [JobNext]_jobVars => Inv'
    BY <1>2, NextType, NextStarted
  <1> QED
    BY <1>1, <1>3, PTL DEF JobSpec

-----------------------------------------------------------------------------
(* The task queue: each task runs once, highest priority first, and the    *)
(* wait ends with all of them done.                                        *)

\* Only the holder of the mutex is between Lock and Unlock.
MutexHeld == \A h \in Thread : pc[h] \in {"top", "pop", "unlock"} <=> mutex = h

\* Threads exist only once the owner has begun to create them.
CreatedInOrder ==
    /\ \A h \in Thread : pc[h] = "none" <=> h > created
    /\ owner = "add" => created = 0 /\ completed = {}
    /\ owner = "create" => fixedThreadsNum > 0
    /\ created <= fixedThreadsNum

\* What a thread has read of the queue stays so until it has popped it.
HeadRead == \A h \in Thread : pc[h] = "pop" => tasks # {} /\ task[h] = Head

\* A thread ends when the queue is empty, and nothing is added any more.
EndsEmpty == \A h \in Thread : pc[h] = "end" => tasks = {}

\* A thread with a task in hand has one.
Holds == \A h \in Thread : pc[h] \in {"unlock", "run"} => task[h] \in added

QueueInv ==
    /\ TypeOK /\ MutexHeld /\ CreatedInOrder /\ HeadRead /\ EndsEmpty /\ Holds
    /\ EachOnce /\ HighestFirst /\ WaitMeansDone

-----------------------------------------------------------------------------
\* A queue that is not empty has a head, and no task in it is above the head.
LEMMA HeadIsHighest ==
  ASSUME TypeOK, tasks # {}
  PROVE  Head \in tasks /\ \A u \in tasks : priority[u] <= priority[Head]
  <1> DEFINE Below == {MaxPriority - priority[t] : t \in tasks}
             Less == {p \in Nat \X Nat : p[1] < p[2]}
  <1>1. \A t \in tasks : priority[t] \in 0..MaxPriority
    BY DEF TypeOK, Priority
  <1>2. Below \subseteq Nat /\ Below # {}
    BY <1>1, ConstantsAssumption DEF ConstantsAssumption
  <1>3. IsWellFoundedOn(Less, Nat)
    BY NatLessThanWellFounded DEF OpToRel
  <1>4. PICK x \in Below : \A y \in Below : <<y, x>> \notin Less
    <2> HIDE DEF Below, Less
    <2> QED
      BY <1>2, <1>3, WFMin
  <1>5. \A y \in Below : ~(y < x)
    BY <1>2, <1>4
  <1>6. PICK t \in tasks : x = MaxPriority - priority[t]
    OBVIOUS
  <1>7. ASSUME NEW u \in tasks PROVE priority[u] <= priority[t]
    <2>1. ~(MaxPriority - priority[u] < MaxPriority - priority[t])
      BY <1>5, <1>6
    <2>2. MaxPriority \in Nat /\ priority[u] \in Nat /\ priority[t] \in Nat
      BY <1>1, ConstantsAssumption DEF ConstantsAssumption
    <2> HIDE DEF Below, Less
    <2> QED
      BY <2>1, <2>2
  <1> QED
    BY <1>7 DEF Head

LEMMA InitQueue == Init => QueueInv
  <1> SUFFICES ASSUME Init PROVE QueueInv
    OBVIOUS
  <1> USE ConstantsAssumption DEF ConstantsAssumption, Init, Thread, Nobody
  <1>1. TypeOK
    BY DEF TypeOK, Priority
  <1>2. MutexHeld /\ CreatedInOrder /\ HeadRead /\ EndsEmpty /\ Holds
    BY DEF MutexHeld, CreatedInOrder, HeadRead, EndsEmpty, Holds
  <1>3. EachOnce /\ HighestFirst /\ WaitMeansDone
    BY DEF EachOnce, InHand, HighestFirst, WaitMeansDone
  <1> QED
    BY <1>1, <1>2, <1>3 DEF QueueInv

-----------------------------------------------------------------------------
LEMMA AddTaskStep ==
  ASSUME QueueInv, NEW t \in Task, AddTask(t)
  PROVE  QueueInv'
  <1> USE DEF QueueInv, AddTask
  <1>1. \A h \in Thread : pc[h] = "none" /\ pc'[h] = "none"
    BY ConstantsAssumption DEF ConstantsAssumption, CreatedInOrder, Thread
  <1>2. InHand = {} /\ InHand' = {} /\ completed = {}
    BY <1>1 DEF InHand, CreatedInOrder
  <1>3. TypeOK'
    BY DEF TypeOK
  <1>4. MutexHeld' /\ CreatedInOrder' /\ HeadRead' /\ EndsEmpty' /\ Holds'
    BY <1>1 DEF MutexHeld, CreatedInOrder, HeadRead, EndsEmpty, Holds
  <1>5. EachOnce' /\ HighestFirst' /\ WaitMeansDone'
    BY <1>1, <1>2 DEF EachOnce, HighestFirst, WaitMeansDone
  <1> QED
    BY <1>3, <1>4, <1>5

LEMMA RunStep == QueueInv /\ Run => QueueInv'
  <1> SUFFICES ASSUME QueueInv, Run PROVE QueueInv'
    OBVIOUS
  <1> USE DEF QueueInv, Run
  <1>1. \A h \in Thread : pc[h] = "none" /\ pc'[h] = "none"
    BY ConstantsAssumption DEF ConstantsAssumption, CreatedInOrder, Thread
  <1>2. InHand = {} /\ InHand' = {} /\ completed = {}
    BY <1>1 DEF InHand, CreatedInOrder
  <1>3. tasks # {} => Width \in 1..ThreadsNum
    <2>1. IsFiniteSet(tasks)
      BY FS_Subset, ConstantsAssumption DEF ConstantsAssumption, TypeOK
    <2>2. tasks # {} => Cardinality(tasks) \in Nat \ {0}
      BY <2>1, FS_CardinalityType, FS_EmptySet
    <2> QED
      BY <2>2, ConstantsAssumption DEF ConstantsAssumption, Width
  <1>4. TypeOK'
    BY <1>3 DEF TypeOK
  <1>5. MutexHeld' /\ CreatedInOrder' /\ EndsEmpty' /\ Holds'
    BY <1>1, <1>3 DEF MutexHeld, CreatedInOrder, EndsEmpty, Holds, TypeOK
  <1>6. HeadRead'
    BY <1>1 DEF HeadRead
  <1>7. EachOnce' /\ HighestFirst' /\ WaitMeansDone'
    BY <1>1, <1>2 DEF EachOnce, HighestFirst, WaitMeansDone
  <1> QED
    BY <1>4, <1>5, <1>6, <1>7

LEMMA CreateThreadStep == QueueInv /\ CreateThread => QueueInv'
  <1> SUFFICES ASSUME QueueInv, CreateThread PROVE QueueInv'
    OBVIOUS
  <1> USE DEF QueueInv, CreateThread
  <1>1. created + 1 \in Thread /\ created' = created + 1 /\ pc[created + 1] = "none"
    BY ConstantsAssumption DEF ConstantsAssumption, CreatedInOrder, TypeOK, Thread
  <1>2. InHand' = InHand
    BY <1>1 DEF InHand, TypeOK
  <1>3. TypeOK'
    BY <1>1 DEF TypeOK, Thread
  <1>4. MutexHeld' /\ EndsEmpty' /\ Holds'
    BY <1>1 DEF MutexHeld, EndsEmpty, Holds, TypeOK
  <1>5. HeadRead'
    BY <1>1 DEF HeadRead, TypeOK, Head
  <1>6. CreatedInOrder'
    BY <1>1, ConstantsAssumption DEF ConstantsAssumption, CreatedInOrder, TypeOK, Thread
  <1>7. EachOnce' /\ HighestFirst' /\ WaitMeansDone'
    BY <1>1, <1>2 DEF EachOnce, HighestFirst, WaitMeansDone, TypeOK
  <1> QED
    BY <1>3, <1>4, <1>5, <1>6, <1>7

LEMMA JoinStep == QueueInv /\ Join => QueueInv'
  <1> SUFFICES ASSUME QueueInv, Join PROVE QueueInv'
    OBVIOUS
  <1> USE DEF QueueInv, Join
  <1>1. InHand' = InHand
    BY DEF InHand
  <1>2. TypeOK' /\ MutexHeld' /\ CreatedInOrder' /\ EndsEmpty' /\ Holds'
    BY DEF TypeOK, MutexHeld, CreatedInOrder, EndsEmpty, Holds
  <1>3. HeadRead'
    BY DEF HeadRead, Head
  <1>4. EachOnce' /\ HighestFirst'
    BY <1>1 DEF EachOnce, HighestFirst
  <1>5. \A h \in Thread : pc[h] \in {"none", "end"}
    BY ConstantsAssumption DEF ConstantsAssumption, Joined, CreatedInOrder, TypeOK, Thread
  <1>6. 1 \in Thread /\ pc[1] = "end"
    BY ConstantsAssumption DEF ConstantsAssumption, Joined, CreatedInOrder, TypeOK, Thread
  <1>7. tasks = {} /\ InHand = {}
    BY <1>5, <1>6 DEF EndsEmpty, InHand
  <1>8. WaitMeansDone'
    BY <1>5, <1>7 DEF WaitMeansDone, EachOnce
  <1> QED
    BY <1>2, <1>3, <1>4, <1>8

-----------------------------------------------------------------------------
\* Threads exist only when the owner no longer adds tasks.
LEMMA Started ==
  ASSUME QueueInv, NEW h \in Thread, pc[h] # "none"
  PROVE  owner # "add" /\ h <= created
  BY ConstantsAssumption DEF ConstantsAssumption, QueueInv, CreatedInOrder, TypeOK, Thread

\* A step of DoTask that leaves the tasks, the tasks in hand and the completed
\* ones as they are.
LEMMA QuietStep ==
  ASSUME QueueInv, NEW h \in Thread, pc[h] \notin {"none", "end"}, UNCHANGED ownerVars,
         UNCHANGED <<tasks, completed>>,
         NEW l \in {"lock", "top", "pop", "run", "end"}, pc' = [pc EXCEPT ![h] = l],
         pc[h] = "unlock" <=> l = "run",
         pc[h] # "run",
         mutex' \in Thread \cup {Nobody},
         task' = task \/ (pc[h] = "top" /\ \E t \in tasks : task' = [task EXCEPT ![h] = t]),
         MutexHeld', HeadRead', EndsEmpty'
  PROVE  QueueInv'
  <1> USE DEF QueueInv, ownerVars
  <1>0. owner # "add" /\ h <= created
    BY Started
  <1>1. \A k \in Thread : (pc'[k] \in {"unlock", "run"} <=> pc[k] \in {"unlock", "run"})
                         /\ (pc[k] \in {"unlock", "run"} => task'[k] = task[k])
    BY DEF TypeOK
  <1>2. InHand' = InHand
    BY <1>1 DEF InHand
  <1>3. TypeOK'
    BY DEF TypeOK
  <1>4. CreatedInOrder' /\ Holds'
    BY <1>1 DEF CreatedInOrder, Holds, TypeOK
  <1>5. EachOnce' /\ HighestFirst'
    BY <1>1, <1>2 DEF EachOnce, HighestFirst
  <1>6. WaitMeansDone'
    BY <1>0 DEF WaitMeansDone, TypeOK
  <1> QED
    BY <1>3, <1>4, <1>5, <1>6

LEMMA LockStep == ASSUME QueueInv, NEW h \in Thread, Lock(h) PROVE QueueInv'
  <1> USE DEF QueueInv, Lock, ownerVars
  <1>1. MutexHeld'
    BY ConstantsAssumption DEF ConstantsAssumption, MutexHeld, MutexFree, TypeOK, Nobody, Thread
  <1>2. HeadRead' /\ EndsEmpty'
    BY DEF HeadRead, Head, EndsEmpty, TypeOK
  <1> QED
    BY <1>1, <1>2, QuietStep

LEMMA NoTasksLeftStep == ASSUME QueueInv, NEW h \in Thread, NoTasksLeft(h) PROVE QueueInv'
  <1> USE DEF QueueInv, NoTasksLeft, ownerVars
  <1>1. MutexHeld'
    BY ConstantsAssumption DEF ConstantsAssumption, MutexHeld, TypeOK, Nobody, Thread
  <1>2. HeadRead' /\ EndsEmpty'
    BY DEF HeadRead, Head, EndsEmpty, TypeOK
  <1> QED
    BY <1>1, <1>2, QuietStep

LEMMA TopStep == ASSUME QueueInv, NEW h \in Thread, Top(h) PROVE QueueInv'
  <1> USE DEF QueueInv, Top, ownerVars
  <1>0. Head \in tasks /\ Head' = Head
    BY HeadIsHighest DEF Head
  <1>1. MutexHeld'
    BY DEF MutexHeld, TypeOK
  <1>2. HeadRead'
    BY <1>0 DEF HeadRead, TypeOK
  <1>3. EndsEmpty'
    BY DEF EndsEmpty, TypeOK
  <1> QED
    BY <1>0, <1>1, <1>2, <1>3, QuietStep DEF TypeOK

LEMMA UnlockStep == ASSUME QueueInv, NEW h \in Thread, Unlock(h) PROVE QueueInv'
  <1> USE DEF QueueInv, Unlock, ownerVars
  <1>1. MutexHeld'
    BY ConstantsAssumption DEF ConstantsAssumption, MutexHeld, TypeOK, Nobody, Thread
  <1>2. HeadRead' /\ EndsEmpty'
    BY DEF HeadRead, Head, EndsEmpty, TypeOK
  <1> QED
    BY <1>1, <1>2, QuietStep DEF TypeOK

\* The task leaves the queue for the hands of the thread that has read it.
LEMMA PopStep == ASSUME QueueInv, NEW h \in Thread, Pop(h) PROVE QueueInv'
  <1> USE DEF QueueInv, Pop, ownerVars
  <1>0. owner # "add" /\ h <= created
    BY Started
  <1>1. /\ task[h] = Head /\ tasks # {} /\ Head \in tasks
        /\ \A u \in tasks : priority[u] <= priority[Head]
    BY HeadIsHighest DEF HeadRead
  <1>2. tasks' = tasks \ {Head}
    BY DEF Popped
  <1>3. \A k \in Thread : (pc'[k] \in {"unlock", "run"} <=> pc[k] \in {"unlock", "run"} \/ k = h)
    BY DEF TypeOK
  <1>4. InHand' = InHand \cup {Head}
    BY <1>1, <1>3 DEF InHand
  <1>5. Head \notin InHand /\ Head \notin completed /\ Head \in added
    BY <1>1 DEF EachOnce
  <1>6. TypeOK'
    BY <1>2 DEF TypeOK
  <1>7. MutexHeld' /\ CreatedInOrder'
    BY DEF MutexHeld, CreatedInOrder, TypeOK
  <1>8. HeadRead'
    BY DEF HeadRead, MutexHeld, TypeOK
  <1>9. EndsEmpty' /\ Holds'
    BY <1>1, <1>2, <1>5 DEF EndsEmpty, Holds, TypeOK
  <1>10. EachOnce'
    <2>1. tasks' \cup InHand' \cup completed' = added'
      BY <1>1, <1>2, <1>4 DEF EachOnce
    <2>2. (tasks' \cap InHand') \cup (tasks' \cap completed') \cup (InHand' \cap completed') = {}
      BY <1>2, <1>4, <1>5 DEF EachOnce
    <2>3. \A k \in Thread : pc[k] \in {"unlock", "run"} => task[k] # Head
      BY <1>5 DEF InHand
    <2>4. ASSUME NEW j \in Thread, NEW k \in Thread, pc'[j] \in {"unlock", "run"},
                 pc'[k] \in {"unlock", "run"}, task'[j] = task'[k]
          PROVE  j = k
      BY <1>1, <1>3, <2>3, <2>4 DEF EachOnce
    <2> QED
      BY <2>1, <2>2, <2>4 DEF EachOnce
  <1>11. HighestFirst'
    BY <1>1, <1>2, <1>4 DEF HighestFirst
  <1>12. WaitMeansDone'
    BY <1>0 DEF WaitMeansDone, TypeOK
  <1> QED
    BY <1>6, <1>7, <1>8, <1>9, <1>10, <1>11, <1>12

LEMMA RunTaskStep == ASSUME QueueInv, NEW h \in Thread, RunTask(h) PROVE QueueInv'
  <1> USE DEF QueueInv, RunTask, ownerVars
  <1>0. owner # "add" /\ h <= created
    BY Started
  <1>1. \A k \in Thread : (pc'[k] \in {"unlock", "run"} <=> pc[k] \in {"unlock", "run"} /\ k # h)
                         /\ (k # h => task'[k] = task[k])
    BY DEF TypeOK
  <1>2. InHand' = InHand \ {task[h]} /\ task[h] \in InHand
    BY <1>1 DEF InHand, EachOnce
  <1>3. TypeOK'
    BY <1>0 DEF TypeOK, Holds
  <1>4. MutexHeld' /\ CreatedInOrder' /\ EndsEmpty' /\ Holds'
    BY <1>0, <1>1 DEF MutexHeld, CreatedInOrder, EndsEmpty, Holds, TypeOK
  <1>5. HeadRead'
    BY DEF HeadRead, Head, TypeOK
  <1>6. EachOnce'
    BY <1>1, <1>2 DEF EachOnce
  <1>7. HighestFirst'
    BY <1>2 DEF HighestFirst
  <1>8. WaitMeansDone'
    BY <1>0 DEF WaitMeansDone, TypeOK
  <1> QED
    BY <1>3, <1>4, <1>5, <1>6, <1>7, <1>8

LEMMA StutterStep == QueueInv /\ UNCHANGED vars => QueueInv'
  BY DEF vars, ownerVars, QueueInv, TypeOK, MutexHeld, CreatedInOrder, HeadRead, Head, EndsEmpty,
         Holds, EachOnce, InHand, HighestFirst, WaitMeansDone

LEMMA SpecQueue == Spec => []QueueInv
  <1>1. QueueInv /\ [Next]_vars => QueueInv'
    <2> SUFFICES ASSUME QueueInv, [Next]_vars PROVE QueueInv'
      OBVIOUS
    <2>1. CASE Owner
      BY <2>1, AddTaskStep, RunStep, CreateThreadStep, JoinStep DEF Owner
    <2>2. ASSUME NEW h \in Thread, DoTask(h) PROVE QueueInv'
      BY <2>2, LockStep, NoTasksLeftStep, TopStep, PopStep, UnlockStep, RunTaskStep DEF DoTask
    <2>3. CASE Done \/ UNCHANGED vars
      BY <2>3, StutterStep DEF Done
    <2> QED
      BY <2>1, <2>2, <2>3 DEF Next
  <1> QED
    BY InitQueue, <1>1, PTL DEF Spec

-----------------------------------------------------------------------------
\* Every variable of the queue keeps its type.
THEOREM TypeCorrect == Spec => []TypeOK
  <1>1. QueueInv => TypeOK
    BY DEF QueueInv
  <1> QED
    BY SpecQueue, <1>1, PTL

\* The mutex of DoTask makes reading and popping the head one step for the other
\* threads: a task is run by one thread, once, and none is lost.
THEOREM EachOnceCorrect == Spec => []EachOnce
  <1>1. QueueInv => EachOnce
    BY DEF QueueInv
  <1> QED
    BY SpecQueue, <1>1, PTL

\* The tasks are taken in the order of their priorities.
THEOREM HighestFirstCorrect == Spec => []HighestFirst
  <1>1. QueueInv => HighestFirst
    BY DEF QueueInv
  <1> QED
    BY SpecQueue, <1>1, PTL

\* After WaitForAllTasksCompleted every task has run, and no thread is left.
THEOREM WaitCorrect == Spec => []WaitMeansDone
  <1>1. QueueInv => WaitMeansDone
    BY DEF QueueInv
  <1> QED
    BY SpecQueue, <1>1, PTL
=============================================================================
