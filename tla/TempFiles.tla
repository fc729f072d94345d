----------------------------- MODULE TempFiles -----------------------------
(***************************************************************************)
(* The temporary files of a compilation and their deletion: main in        *)
(* src/src/main.cpp, TempFileManager.cpp, and the handlers of SIGINT and   *)
(* of a crash in SignalUnix.cpp and SignalUtil.cpp.  The handler of a      *)
(* signal that reaches the main thread stops main where it is; the one of  *)
(* a crash in another thread runs beside it.  Both end the process.        *)
(***************************************************************************)
EXTENDS Integers, FiniteSets

CONSTANTS
    N,          \* the temporary files of the compilation are 1..N
    ByTool,     \* those written by a child process, which outlives this one
    OnMain,     \* the handlers that interrupt the main thread
    Beside,     \* the handlers that run on other threads
    Main        \* the main thread

Dir == 0                        \* the temporary directory, recorded first
File == 1..N
Handler == OnMain \cup Beside
Context == Handler \cup {Main}

ASSUME ConstantsAssumption ==
    /\ N \in Nat \ {0}
    /\ ByTool \subseteq File
    /\ Main \notin Handler /\ OnMain \cap Beside = {}

VARIABLES
    step,           \* the step main has come to with the file recorded last
    deletedFiles,   \* the size of deletedFiles: Dir and the files 1..deletedFiles
    open,           \* the files whose writer passed the check and will write
    exists,         \* what is on the disk
    isDeleted,
    pc,             \* where each context is in DeleteTempFiles
    at,             \* the next index of its loop
    exited,         \* the process has ended
    expired,        \* a wait in IsDeleted ran into its bound
    late            \* what was created after the deletion had begun

compileVars == <<step, deletedFiles, open>>
ghosts == <<expired, late>>
vars == <<compileVars, exists, isDeleted, pc, at, exited, ghosts>>

Init ==
    /\ step = "record"
    /\ deletedFiles = 0
    /\ open = {}
    /\ exists = {Dir}
    /\ isDeleted = "NOT_DELETED"
    /\ pc = [c \in Context |-> "outside"]
    /\ at = [c \in Context |-> 0]
    /\ exited = FALSE
    /\ expired = FALSE
    /\ late = {}

\* A signal handler has taken the main thread, and never gives it back.
Interrupted == \E h \in OnMain : pc[h] # "outside"
Runs(c) == ~exited /\ (c = Main => ~Interrupted)

Create(f) ==
    /\ exists' = exists \cup {f}
    /\ late' = IF isDeleted = "NOT_DELETED" THEN late ELSE late \cup {f}

-----------------------------------------------------------------------------
\* GenerateBCFilePathAndUpdateToInvocation and the commands of the backend:
\* the file is recorded, then the directory is made again if it is gone.
RecordFile ==
    /\ Runs(Main) /\ step = "record" /\ pc[Main] = "outside"
    /\ deletedFiles < N
    /\ deletedFiles' = deletedFiles + 1
    /\ step' = "makeDir"
    /\ UNCHANGED <<open, exists, isDeleted, pc, at, exited, ghosts>>

MakeDir ==
    /\ Runs(Main) /\ step = "makeDir"
    /\ IF Dir \in exists THEN UNCHANGED <<exists, late>> ELSE Create(Dir)
    /\ step' = "check"
    /\ UNCHANGED <<deletedFiles, open, isDeleted, pc, at, exited, expired>>

\* IsDeleted lets the writer go on; otherwise the compilation fails.
CheckDeleted ==
    /\ Runs(Main) /\ step = "check"
    /\ IF isDeleted = "NOT_DELETED"
       THEN /\ step' = "record"
            /\ open' = open \cup {deletedFiles}
       ELSE /\ step' = "stop"
            /\ UNCHANGED open
    /\ UNCHANGED <<deletedFiles, exists, isDeleted, pc, at, exited, ghosts>>

\* A task of the queue or a child process creates its file, if the directory is
\* there.  A child process goes on when this one has ended.
Write(f) ==
    /\ f \in open /\ (~exited \/ f \in ByTool)
    /\ open' = open \ {f}
    /\ IF Dir \in exists THEN Create(f) ELSE UNCHANGED <<exists, late>>
    /\ UNCHANGED <<step, deletedFiles, isDeleted, pc, at, exited, expired>>

\* main comes to the deletion: when ExecuteCompilation is over, or when the check
\* failed, with whatever was still to be written.  A batch that is given up (a
\* tool failed or could not be started) leaves its other tools running; tasks of
\* the queue and tools on a thread are waited for.
Finish ==
    /\ Runs(Main) /\ pc[Main] = "outside"
    /\ step = "stop" \/ (step = "record" /\ open \subseteq ByTool)
    /\ pc' = [pc EXCEPT ![Main] = "exchange"]
    /\ UNCHANGED <<compileVars, exists, isDeleted, at, exited, ghosts>>

SignalArrives(h) ==
    /\ ~exited /\ pc[h] = "outside"
    /\ h \in OnMain => ~Interrupted
    /\ pc' = [pc EXCEPT ![h] = "exchange"]
    /\ UNCHANGED <<compileVars, exists, isDeleted, at, exited, ghosts>>

-----------------------------------------------------------------------------
(***************************************************************************)
(* DeleteTempFiles (main) and DeleteTempFilesSignalSafe (the handlers).    *)
(***************************************************************************)
\* The exchange tells one context that it is the first.
IsFirst_Mut == isDeleted # "DELETED"
IsFirst == isDeleted = "NOT_DELETED"

\* The loop begins with what was recorded last.
LastIndex_Mut == deletedFiles - 1
LastIndex == deletedFiles

Exchange(c) ==
    /\ Runs(c) /\ pc[c] = "exchange"
    /\ isDeleted' = "DELETING"
    /\ pc' = [pc EXCEPT ![c] = IF IsFirst THEN "loop" ELSE "wait"]
    /\ at' = [at EXCEPT ![c] = LastIndex]
    /\ UNCHANGED <<compileVars, exists, exited, ghosts>>

\* IsDeleted waits for the first context, for a bounded number of rounds.
SeesDeleted(c) ==
    /\ Runs(c) /\ pc[c] = "wait"
    /\ isDeleted = "DELETED"
    /\ pc' = [pc EXCEPT ![c] = "returned"]
    /\ UNCHANGED <<compileVars, exists, isDeleted, at, exited, ghosts>>

\* A round of that wait.
WaitOn(c) ==
    /\ Runs(c) /\ pc[c] = "wait" /\ isDeleted # "DELETED"
    /\ UNCHANGED vars

MayExpire_Mut(c) == c = Main
MayExpire(c) == TRUE

WaitExpires(c) ==
    /\ Runs(c) /\ pc[c] = "wait" /\ MayExpire(c)
    /\ isDeleted # "DELETED"
    /\ expired' = TRUE
    /\ pc' = [pc EXCEPT ![c] = "returned"]
    /\ UNCHANGED <<compileVars, exists, isDeleted, at, exited, late>>

\* unlink removes a file, rmdir a directory that is empty.
Removable(i) == i # Dir \/ exists \subseteq {Dir}

Remove(c) ==
    /\ Runs(c) /\ pc[c] = "loop"
    /\ exists' = IF Removable(at[c]) THEN exists \ {at[c]} ELSE exists
    /\ at' = [at EXCEPT ![c] = at[c] - 1]
    /\ pc' = [pc EXCEPT ![c] = IF at[c] > Dir THEN "loop"
                               ELSE IF c = Main THEN "empty" ELSE "store"]
    /\ UNCHANGED <<compileVars, isDeleted, exited, ghosts>>

\* RemoveDirRecursively, outside the handlers: the files, then the directory.
EmptyDir ==
    /\ Runs(Main) /\ pc[Main] = "empty"
    /\ exists' = exists \cap {Dir}
    /\ pc' = [pc EXCEPT ![Main] = "rmdir"]
    /\ UNCHANGED <<compileVars, isDeleted, at, exited, ghosts>>

RemoveDir ==
    /\ Runs(Main) /\ pc[Main] = "rmdir"
    /\ exists' = IF Removable(Dir) THEN exists \ {Dir} ELSE exists
    /\ pc' = [pc EXCEPT ![Main] = "store"]
    /\ UNCHANGED <<compileVars, isDeleted, at, exited, ghosts>>

StoreDeleted(c) ==
    /\ Runs(c) /\ pc[c] = "store"
    /\ isDeleted' = "DELETED"
    /\ pc' = [pc EXCEPT ![c] = "returned"]
    /\ UNCHANGED <<compileVars, exists, at, exited, ghosts>>

\* _exit in a handler, the end of main.
Exit(c) ==
    /\ Runs(c) /\ pc[c] = "returned"
    /\ exited' = TRUE
    /\ UNCHANGED <<compileVars, exists, isDeleted, pc, at, ghosts>>

Gone == exited /\ (open \cap ByTool = {}) /\ UNCHANGED vars

Compile == RecordFile \/ MakeDir \/ CheckDeleted \/ Finish \/ EmptyDir \/ RemoveDir

Delete(c) ==
    \/ Exchange(c) \/ SeesDeleted(c) \/ WaitOn(c) \/ WaitExpires(c)
    \/ Remove(c) \/ StoreDeleted(c) \/ Exit(c)

Next ==
    \/ Compile \/ (\E f \in File : Write(f)) \/ (\E h \in Handler : SignalArrives(h))
    \/ (\E c \in Context : Delete(c)) \/ Gone

Spec == Init /\ [][Next]_vars

\* The threads run; a signal need not arrive.
FairSpec ==
    /\ Spec
    /\ WF_vars(Compile)
    /\ \A f \in File : WF_vars(Write(f))
    /\ \A c \in Context : WF_vars(Delete(c))

-----------------------------------------------------------------------------
TypeOK ==
    /\ step \in {"record", "makeDir", "check", "stop"}
    /\ deletedFiles \in 0..N
    /\ open \subseteq File
    /\ exists \subseteq 0..N
    /\ isDeleted \in {"NOT_DELETED", "DELETING", "DELETED"}
    /\ pc \in [Context -> {"outside", "exchange", "wait", "loop", "empty", "rmdir",
                           "store", "returned"}]
    /\ at \in [Context -> -1..N]
    /\ exited \in BOOLEAN
    /\ expired \in BOOLEAN
    /\ late \subseteq 0..N

Deleting(c) == pc[c] \in {"loop", "empty", "rmdir", "store"}

\* Of main and all the handlers one deletes the files, and only one.
OneDeleter ==
    /\ \A c, d \in Context : Deleting(c) /\ Deleting(d) => c = d
    /\ isDeleted = "NOT_DELETED" => \A c \in Context : ~Deleting(c)

\* What was on the disk before the deletion began is gone; a file created after
\* that can keep its directory.
CleanedUp == exists \subseteq late \cup {i \in {Dir} : late # {}}

\* However the process ends, nothing it had put on the disk before the deletion
\* began is left, unless a wait in IsDeleted ran out.
ExitClean == exited /\ ~expired => CleanedUp

\* Once a context has asked for the deletion the process comes to its end.
ProcessExits == (\E c \in Context : pc[c] # "outside") ~> exited
=============================================================================
