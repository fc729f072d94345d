--------------------------- MODULE JobScheduler ---------------------------
(***************************************************************************)
(* The driver runs the tools of a compilation (opt, llc, the linker, ...)  *)
(* in batches: Job::Execute in src/src/Driver/Job.cpp with Tool::Execute,  *)
(* the futures of ToolFuture.cpp and the process-wide semaphore.  The      *)
(* tools of a batch run side by side, within the slots of the semaphore; a *)
(* batch begins when the one before it is over.                            *)
(*                                                                         *)
(* A tool is a number: the tools of the batches, in their order, are 1..N, *)
(* and Ends holds the last tool of each batch.                             *)
(***************************************************************************)
EXTENDS Integers, FiniteSets

CONSTANTS
    N,          \* the number of tools
    Ends,       \* the last tools of the batches
    Internal,   \* the tools run by a thread of the driver (ThreadFuture)
    Twins,      \* tools whose command string is the same
    Jobs        \* the count of the semaphore at the start

Tool == 1..N

ASSUME JobsAssumption ==
    /\ N \in Nat \ {0}
    /\ Ends \subseteq Tool /\ N \in Ends
    /\ Internal \subseteq Tool
    /\ Twins \subseteq Tool \ Internal
    /\ Jobs \in Nat \ {0}

VARIABLES
    execute,        \* where Job::Execute is
    next,           \* the tool the loop over the batches has come to
    childWorkers,   \* the tools with a future in childWorkers
    toPoll,         \* the futures the pass of CheckExecuteResult has not polled
    finished,       \* this pass has removed a future
    success,        \* the success of CheckExecuteResult
    count,          \* Semaphore::count
    child,          \* what each tool does
    isDeleted       \* TempFileManager::IsDeleted()

pollVars == <<toPoll, finished, success>>
jobVars == <<execute, next, childWorkers, pollVars, count, child, isDeleted>>

JobInit ==
    /\ execute = "Slot"
    /\ next = 1
    /\ childWorkers = {}
    /\ toPoll = {}
    /\ finished = FALSE
    /\ success = TRUE
    /\ count = Jobs
    /\ child = [t \in Tool |-> "none"]
    /\ isDeleted = FALSE

-----------------------------------------------------------------------------
\* The loop over a batch waits for a slot: CheckExecuteResult is called again
\* and again, and with nothing to wait for it returns at once.
NeedsSlot_Mut == FALSE
NeedsSlot == count = 0

WaitForSlot ==
    /\ execute = "Slot" /\ NeedsSlot
    /\ execute' = IF childWorkers = {} THEN "Slot" ELSE "PollAny"
    /\ toPoll' = childWorkers
    /\ finished' = FALSE
    /\ success' = TRUE
    /\ UNCHANGED <<next, childWorkers, count, child, isDeleted>>

HasSlot ==
    /\ execute = "Slot" /\ ~NeedsSlot
    /\ execute' = "Execute"
    /\ UNCHANGED <<next, childWorkers, pollVars, count, child, isDeleted>>

\* After the last tool of a batch the driver waits for all of the batch.
AfterSpawn_Mut == IF next \in Ends /\ count' = 0 THEN "PollAll"
                  ELSE IF next = N THEN "PollAll" ELSE "Slot"
AfterSpawn == IF next \in Ends THEN "PollAll" ELSE "Slot"

\* childWorkers.emplace: the future of a second tool with the same command
\* string is dropped.
Tracked(t) == ~(t \in Twins /\ childWorkers \cap Twins # {})

\* Tool::Execute and Tool::Run start the tool.
Spawn ==
    /\ execute = "Execute" /\ ~isDeleted
    /\ count > 0
    /\ count' = count - 1
    /\ child' = [child EXCEPT ![next] = "running"]
    /\ childWorkers' = IF Tracked(next) THEN childWorkers \cup {next} ELSE childWorkers
    /\ next' = next + 1
    /\ execute' = AfterSpawn
    /\ toPoll' = childWorkers'
    /\ finished' = FALSE
    /\ success' = TRUE
    /\ UNCHANGED isDeleted

\* posix_spawn fails and the slot is given back, or the temporary files are
\* gone and the tool is not run at all; the other children are left alone.
SpawnFails ==
    /\ execute = "Execute"
    /\ isDeleted \/ (count > 0 /\ next \notin Internal)
    /\ execute' = "Failed"
    /\ UNCHANGED <<next, childWorkers, pollVars, count, child, isDeleted>>

Polling == execute \in {"PollAny", "PollAll"}

\* A failed tool fails the batch.
Judge_Mut(t) == child[t] = "exitOk"
Judge(t) == success /\ child[t] = "exitOk"

\* A slot comes back with every future that has finished.
Released_Mut(t) == IF child[t] = "exitOk" THEN count + 1 ELSE count
Released(t) == count + 1

\* One step of a pass of CheckExecuteResult: GetState of one future.
PollFinished(t) ==
    /\ Polling /\ t \in toPoll
    /\ child[t] \in {"exitOk", "exitFail"}
    /\ toPoll' = toPoll \ {t}
    /\ childWorkers' = childWorkers \ {t}
    /\ count' = Released(t)
    /\ success' = Judge(t)
    /\ finished' = TRUE
    /\ UNCHANGED <<execute, next, child, isDeleted>>

\* waitpid with WNOHANG finds the process running; a ThreadFuture waits.
PollRunning(t) ==
    /\ Polling /\ t \in toPoll
    /\ child[t] = "running" /\ t \notin Internal
    /\ toPoll' = toPoll \ {t}
    /\ UNCHANGED <<execute, next, childWorkers, finished, success, count, child, isDeleted>>

\* The end of a pass: CheckExecuteResult returns when a tool has finished and
\* one is enough, or when none is left; otherwise it starts another pass.
EndOfPass ==
    /\ Polling /\ toPoll = {}
    /\ IF (execute = "PollAny" /\ finished) \/ childWorkers = {}
       THEN /\ execute' = IF ~success THEN "Failed"
                          ELSE IF execute = "PollAny" \/ next <= N THEN "Slot" ELSE "Ok"
            /\ UNCHANGED pollVars
       ELSE /\ toPoll' = childWorkers
            /\ finished' = FALSE
            /\ UNCHANGED <<execute, success>>
    /\ UNCHANGED <<next, childWorkers, count, child, isDeleted>>

\* A tool ends.
ChildExits(t) ==
    /\ child[t] = "running"
    /\ child' \in {[child EXCEPT ![t] = "exitOk"], [child EXCEPT ![t] = "exitFail"]}
    /\ UNCHANGED <<execute, next, childWorkers, pollVars, count, isDeleted>>

\* The crash of another thread of the driver deletes the temporary files.
FilesDeleted ==
    /\ ~isDeleted
    /\ isDeleted' = TRUE
    /\ UNCHANGED <<execute, next, childWorkers, pollVars, count, child>>

JobDone == execute \in {"Ok", "Failed"} /\ UNCHANGED jobVars

Driver ==
    \/ WaitForSlot \/ HasSlot \/ Spawn \/ SpawnFails \/ EndOfPass
    \/ \E t \in Tool : PollFinished(t) \/ PollRunning(t)

JobNext == Driver \/ (\E t \in Tool : ChildExits(t)) \/ FilesDeleted \/ JobDone

JobSpec == JobInit /\ [][JobNext]_jobVars

\* The driver runs and every tool ends.
FairSpec == JobSpec /\ WF_jobVars(Driver) /\ \A t \in Tool : WF_jobVars(ChildExits(t))

-----------------------------------------------------------------------------
JobTypeOK ==
    /\ execute \in {"Slot", "Execute", "PollAny", "PollAll", "Ok", "Failed"}
    /\ next \in 1..(N + 1)
    /\ childWorkers \subseteq Tool
    /\ toPoll \subseteq childWorkers
    /\ finished \in BOOLEAN
    /\ success \in BOOLEAN
    /\ count \in Nat
    /\ child \in [Tool -> {"none", "running", "exitOk", "exitFail"}]
    /\ isDeleted \in BOOLEAN

\* No slot of the semaphore is lost or made: each is free or held by a future.
SlotsBalanced == count + Cardinality(childWorkers) = Jobs

\* No tool starts when a pass of CheckExecuteResult, also one that only waited
\* for a slot in the middle of a batch and saw several tools end, has read that
\* another tool failed: a tool that failed still has its future.
FailureStops ==
    [][\A t \in Tool : child[t] = "none" /\ child'[t] # "none" =>
          \A u \in Tool : child[u] = "exitFail" => u \in childWorkers]_jobVars

\* The tools whose batch comes before the batch of t.
Earlier(t) == {u \in Tool : \E e \in Ends : u <= e /\ e < t}

\* A tool starts only when every tool of the earlier batches has ended well and
\* its future has been polled: its output is there to be read.
BatchBarrier ==
    \A t \in Tool : child[t] # "none" =>
        \A u \in Earlier(t) : child[u] = "exitOk" /\ u \notin childWorkers

\* Job::Execute returns true only when every tool ran and none failed.
SuccessMeansAll == execute = "Ok" => \A t \in Tool : child[t] = "exitOk"

\* Job::Execute returns.
ExecuteEnds == <>(execute \in {"Ok", "Failed"})
=============================================================================
