----------------------------- MODULE TaskQueue -----------------------------
(***************************************************************************)
(* The queue that parses files, mangles names, runs the CHIR passes, emits *)
(* and saves the modules in parallel: include/cangjie/Utils/TaskQueue.h.   *)
(* The owner adds the tasks, then creates the threads, while the first of  *)
(* them may already be at work, and joins them.  The results of the tasks  *)
(* are read after the join.                                                *)
(***************************************************************************)
EXTENDS Integers, FiniteSets

CONSTANTS
    Task,
    MaxPriority,    \* the largest priority a task may be given
    ThreadsNum,
    NoTask          \* no task in the hands of a thread

Priority == 0..MaxPriority
Thread == 1..ThreadsNum
Nobody == 0

ASSUME ConstantsAssumption ==
    /\ IsFiniteSet(Task) /\ NoTask \notin Task
    /\ MaxPriority \in Nat
    /\ ThreadsNum \in Nat \ {0}

VARIABLES
    owner,      \* where the owner of the queue is
    added,      \* the tasks AddTask was called for
    tasks,      \* the priority queue
    priority,
    fixedThreadsNum,
    created,    \* the threads created so far are 1..created
    mutex,      \* the thread that holds the mutex
    pc,         \* where each thread is in DoTask
    task,       \* its local variable
    completed   \* the tasks that have run: their futures are ready

ownerVars == <<owner, added, priority, fixedThreadsNum, created>>
vars == <<ownerVars, tasks, mutex, pc, task, completed>>

Init ==
    /\ owner = "add"
    /\ added = {}
    /\ tasks = {}
    /\ priority = [t \in Task |-> 0]
    /\ fixedThreadsNum = 0
    /\ created = 0
    /\ mutex = Nobody
    /\ pc = [h \in Thread |-> "none"]
    /\ task = [h \in Thread |-> NoTask]
    /\ completed = {}

-----------------------------------------------------------------------------
AddTask(t) ==
    /\ owner = "add" /\ t \notin added
    /\ added' = added \cup {t}
    /\ tasks' = tasks \cup {t}
    /\ priority' \in {[priority EXCEPT ![t] = p] : p \in Priority}
    /\ UNCHANGED <<owner, fixedThreadsNum, created, mutex, pc, task, completed>>

\* No more threads than tasks.
Width == IF Cardinality(tasks) < ThreadsNum THEN Cardinality(tasks) ELSE ThreadsNum

\* RunAndWaitForAllTasksCompleted, or RunInBackground and a wait: nothing to do
\* without tasks, else CreateThreads.
Run ==
    /\ owner = "add"
    /\ IF tasks = {}
       THEN owner' = "done" /\ UNCHANGED fixedThreadsNum
       ELSE owner' = "create" /\ fixedThreadsNum' = Width
    /\ UNCHANGED <<added, priority, created, tasks, mutex, pc, task, completed>>

CreateThread ==
    /\ owner = "create" /\ created < fixedThreadsNum
    /\ created' = created + 1
    /\ pc' = [pc EXCEPT ![created + 1] = "lock"]
    /\ UNCHANGED <<owner, added, priority, fixedThreadsNum, tasks, mutex, task, completed>>

\* The threads WaitForAllTasksCompleted joins.
Joined_Mut == \E h \in 1..created : pc[h] = "end"
Joined == \A h \in 1..created : pc[h] = "end"

Join ==
    /\ owner = "create" /\ created = fixedThreadsNum
    /\ Joined
    /\ owner' = "done"
    /\ UNCHANGED <<added, priority, fixedThreadsNum, created, tasks, mutex, pc, task, completed>>

-----------------------------------------------------------------------------
(***************************************************************************)
(* DoTask.                                                                 *)
(***************************************************************************)
MutexFree_Mut == TRUE
MutexFree == mutex = Nobody

Lock(h) ==
    /\ pc[h] = "lock" /\ MutexFree
    /\ mutex' = h
    /\ pc' = [pc EXCEPT ![h] = "top"]
    /\ UNCHANGED <<ownerVars, tasks, task, completed>>

\* No remaining tasks: the thread ends, and its lock with it.
NoTasksLeft(h) ==
    /\ pc[h] = "top" /\ tasks = {}
    /\ mutex' = Nobody
    /\ pc' = [pc EXCEPT ![h] = "end"]
    /\ UNCHANGED <<ownerVars, tasks, task, completed>>

\* The task at the head of the queue: one of the highest priority.
Head == CHOOSE t \in tasks : \A u \in tasks : priority[u] <= priority[t]

Top(h) ==
    /\ pc[h] = "top" /\ tasks # {}
    /\ task' = [task EXCEPT ![h] = Head]
    /\ pc' = [pc EXCEPT ![h] = "pop"]
    /\ UNCHANGED <<ownerVars, tasks, mutex, completed>>

Popped == {t \in tasks : t # Head}

Pop(h) ==
    /\ pc[h] = "pop"
    /\ tasks' = Popped
    /\ pc' = [pc EXCEPT ![h] = "unlock"]
    /\ UNCHANGED <<ownerVars, mutex, task, completed>>

Unlock(h) ==
    /\ pc[h] = "unlock"
    /\ mutex' = Nobody
    /\ pc' = [pc EXCEPT ![h] = "run"]
    /\ UNCHANGED <<ownerVars, tasks, task, completed>>

\* A packaged task: its result, or the exception it ended with, is stored.
RunTask(h) ==
    /\ pc[h] = "run"
    /\ completed' = completed \cup {task[h]}
    /\ task' = [task EXCEPT ![h] = NoTask]
    /\ pc' = [pc EXCEPT ![h] = "lock"]
    /\ UNCHANGED <<ownerVars, tasks, mutex>>

Done == owner = "done" /\ UNCHANGED vars

Owner == (\E t \in Task : AddTask(t)) \/ Run \/ CreateThread \/ Join

DoTask(h) ==
    \/ Lock(h) \/ NoTasksLeft(h) \/ Top(h) \/ Pop(h) \/ Unlock(h) \/ RunTask(h)

Next == Owner \/ (\E h \in Thread : DoTask(h)) \/ Done

Spec == Init /\ [][Next]_vars

-----------------------------------------------------------------------------
TypeOK ==
    /\ owner \in {"add", "create", "done"}
    /\ added \subseteq Task
    /\ tasks \subseteq added
    /\ priority \in [Task -> Priority]
    /\ fixedThreadsNum \in 0..ThreadsNum
    /\ created \in 0..ThreadsNum
    /\ mutex \in Thread \cup {Nobody}
    /\ pc \in [Thread -> {"none", "lock", "top", "pop", "unlock", "run", "end"}]
    /\ task \in [Thread -> Task \cup {NoTask}]
    /\ completed \subseteq Task

\* The tasks a thread has taken from the queue and not run to the end.
InHand == {task[h] : h \in {k \in Thread : pc[k] \in {"unlock", "run"}}}

\* A task is run by one thread, once: it is in the queue, in the hands of one
\* thread, or completed, and it is not lost on the way.
EachOnce ==
    /\ tasks \cup InHand \cup completed = added
    /\ (tasks \cap InHand) \cup (tasks \cap completed) \cup (InHand \cap completed) = {}
    /\ \A h, k \in Thread :
          (pc[h] \in {"unlock", "run"} /\ pc[k] \in {"unlock", "run"} /\ task[h] = task[k]) => h = k

\* TaskQueue.h: "tasks with higher weights can always be executed with higher
\* priority".  No task is taken while one of a higher priority waits.
HighestFirst ==
    \A t \in InHand \cup completed, u \in tasks : priority[u] <= priority[t]

\* When the wait is over every task has run and no thread can still touch what
\* the tasks refer to in the frame of the owner.
WaitMeansDone ==
    owner = "done" => completed = added /\ \A h \in Thread : pc[h] \in {"none", "end"}
=============================================================================
