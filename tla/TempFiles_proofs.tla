-------------------------- MODULE TempFiles_proofs --------------------------
(***************************************************************************)
(* One context deletes the temporary files, and what it found is gone when *)
(* the process ends: for any number of files, of handlers on the main      *)
(* thread and of handlers beside it.                                       *)
(***************************************************************************)
EXTENDS TempFiles, TLAPS

\* Only recorded files are on the disk or about to be.
Recorded ==
    /\ exists \subseteq 0..deletedFiles /\ open \subseteq 1..deletedFiles
    /\ step \in {"makeDir", "check"} => deletedFiles > 0

\* Before the first exchange nobody is past it.
NotBegun ==
    isDeleted = "NOT_DELETED" =>
        late = {} /\ \A c \in Context : pc[c] \in {"outside", "exchange"}

\* How far the loop has come: what is left of the files it found.
Progress ==
    \A c \in Context :
        /\ pc[c] = "loop" => at[c] \in 0..N /\ exists \ late \subseteq 0..at[c]
        /\ pc[c] \in {"empty", "rmdir"} => c = Main /\ exists \ late \subseteq {Dir}
        /\ pc[c] = "store" => CleanedUp
        /\ pc[c] = "returned" /\ ~expired => CleanedUp

DeletedClean == isDeleted = "DELETED" => CleanedUp

EndedBy == exited => \E c \in Context : pc[c] = "returned"

CleanInv ==
    TypeOK /\ Recorded /\ NotBegun /\ Progress /\ DeletedClean /\ EndedBy /\ OneDeleter

-----------------------------------------------------------------------------
LEMMA InitClean == Init => CleanInv
  <1> SUFFICES ASSUME Init PROVE CleanInv
    OBVIOUS
  <1> USE ConstantsAssumption DEF ConstantsAssumption, Init, Dir, File
  <1>1. TypeOK
    <2>1. N \in Nat /\ 0 \in 0..N /\ 0 \in -1..N
      OBVIOUS
    <2>2. at \in [Context -> -1..N]
      BY <2>1
    <2>3. pc \in [Context -> {"outside", "exchange", "wait", "loop", "empty", "rmdir",
                             "store", "returned"}]
      OBVIOUS
    <2> QED
      BY <2>1, <2>2, <2>3 DEF TypeOK
  <1>2. Recorded /\ NotBegun
    BY DEF Recorded, NotBegun
  <1>3. Progress /\ DeletedClean /\ EndedBy /\ OneDeleter
    BY DEF Progress, DeletedClean, EndedBy, OneDeleter, Deleting
  <1> QED
    BY <1>1, <1>2, <1>3 DEF CleanInv

\* A file created after the deletion has begun leaves what the loop has reached
\* as it is.
LEMMA CreateLate ==
  ASSUME NEW i, Create(i), isDeleted # "NOT_DELETED"
  PROVE  /\ exists' \ late' \subseteq exists \ late
         /\ CleanedUp => CleanedUp'
  BY DEF Create, CleanedUp

\* Removing something leaves less.
LEMMA FewerClean ==
  ASSUME exists' \subseteq exists, late' = late
  PROVE  /\ exists' \ late' \subseteq exists \ late
         /\ CleanedUp => CleanedUp'
  BY DEF CleanedUp

\* rmdir leaves the directory only for a file created after the deletion began.
LEMMA RemoveLast ==
  ASSUME exists \ late \subseteq {Dir}, late' = late,
         exists' = IF Removable(Dir) THEN exists \ {Dir} ELSE exists
  PROVE  CleanedUp'
  BY DEF CleanedUp, Removable

-----------------------------------------------------------------------------
\* The steps of the compilation that create something.
LEMMA CreateStep ==
  ASSUME CleanInv, NEW i \in 0..deletedFiles, Create(i),
         UNCHANGED <<deletedFiles, isDeleted, pc, at, exited, expired>>,
         open' \subseteq open, step' = step \/ (step = "makeDir" /\ step' = "check")
  PROVE  CleanInv'
  <1> USE DEF CleanInv
  <1>1. TypeOK'
    BY ConstantsAssumption DEF ConstantsAssumption, TypeOK, Create, File
  <1>2. Recorded' /\ NotBegun'
    BY DEF Recorded, NotBegun, Create
  <1>3. Progress' /\ DeletedClean'
    <2>1. CASE isDeleted = "NOT_DELETED"
      BY <2>1 DEF NotBegun, Progress, DeletedClean
    <2>2. CASE isDeleted # "NOT_DELETED"
      BY <2>2, CreateLate DEF Progress, DeletedClean
    <2> QED
      BY <2>1, <2>2
  <1>4. EndedBy' /\ OneDeleter'
    BY DEF EndedBy, OneDeleter, Deleting
  <1> QED
    BY <1>1, <1>2, <1>3, <1>4

\* The steps that neither create, remove nor delete.
LEMMA QuietStep ==
  ASSUME CleanInv, TypeOK',
         UNCHANGED <<exists, isDeleted, pc, at, exited, ghosts>>,
         deletedFiles' >= deletedFiles, open' \subseteq 1..deletedFiles',
         step' \in {"makeDir", "check"} => deletedFiles' > 0
  PROVE  CleanInv'
  <1> USE DEF CleanInv, ghosts
  <1>1. Recorded' /\ NotBegun'
    BY DEF Recorded, NotBegun, TypeOK
  <1>2. Progress' /\ DeletedClean' /\ EndedBy' /\ OneDeleter'
    BY DEF Progress, DeletedClean, EndedBy, OneDeleter, Deleting, CleanedUp
  <1> QED
    BY <1>1, <1>2

LEMMA CompileStep ==
  CleanInv /\ (RecordFile \/ MakeDir \/ CheckDeleted \/ \E f \in File : Write(f)) => CleanInv'
  <1> SUFFICES ASSUME CleanInv PROVE
        RecordFile \/ MakeDir \/ CheckDeleted \/ (\E f \in File : Write(f)) => CleanInv'
    OBVIOUS
  <1>1. /\ TypeOK /\ deletedFiles \in 0..N /\ N \in Nat
        /\ open \subseteq 1..deletedFiles /\ exists \subseteq 0..deletedFiles
        /\ step \in {"makeDir", "check"} => deletedFiles > 0
    BY ConstantsAssumption DEF ConstantsAssumption, CleanInv, TypeOK, Recorded
  <1>2. CASE RecordFile
    <2>1. deletedFiles' = deletedFiles + 1 /\ deletedFiles' \in 0..N /\ open' = open
      BY <1>1, <1>2 DEF RecordFile
    <2>2. TypeOK'
      BY <1>1, <1>2, <2>1 DEF RecordFile, TypeOK, ghosts
    <2> QED
      BY <1>1, <1>2, <2>1, <2>2, QuietStep DEF RecordFile
  <1>3. CASE CheckDeleted
    <2>1. open' \subseteq 1..deletedFiles /\ deletedFiles' = deletedFiles
      <3>1. deletedFiles \in 1..deletedFiles
        BY <1>1, <1>3 DEF CheckDeleted
      <3> QED
        BY <1>1, <1>3, <3>1 DEF CheckDeleted
    <2>2. TypeOK'
      BY <1>1, <1>3, <2>1 DEF CheckDeleted, TypeOK, ghosts, File
    <2> QED
      BY <1>1, <1>3, <2>1, <2>2, QuietStep DEF CheckDeleted
  <1>4. CASE MakeDir
    <2>1. CASE Dir \in exists
      <3>1. TypeOK'
        BY <1>1, <1>4, <2>1 DEF MakeDir, TypeOK
      <3> QED
        BY <1>1, <1>4, <2>1, <3>1, QuietStep DEF MakeDir, ghosts
    <2>2. CASE Dir \notin exists
      <3>1. Dir \in 0..deletedFiles
        BY <1>1 DEF Dir
      <3> QED
        BY <1>4, <2>2, <3>1, CreateStep DEF MakeDir
    <2> QED
      BY <2>1, <2>2
  <1>5. ASSUME NEW f \in File, Write(f) PROVE CleanInv'
    <2>1. f \in 0..deletedFiles
      BY <1>1, <1>5 DEF Write
    <2>2. CASE Dir \in exists
      BY <1>5, <2>1, <2>2, CreateStep DEF Write
    <2>3. CASE Dir \notin exists
      <3>1. TypeOK'
        BY <1>1, <1>5, <2>3 DEF Write, TypeOK
      <3> QED
        BY <1>1, <1>5, <2>3, <3>1, QuietStep DEF Write, ghosts
    <2> QED
      BY <2>2, <2>3
  <1> QED
    BY <1>2, <1>3, <1>4, <1>5

\* The steps that move one context without touching a file.
LEMMA StartStep ==
  CleanInv /\ (Finish \/ \E h \in Handler : SignalArrives(h)) => CleanInv'
  <1> SUFFICES ASSUME CleanInv, NEW c \in Context, pc[c] = "outside",
                      pc' = [pc EXCEPT ![c] = "exchange"], ~exited,
                      UNCHANGED <<compileVars, exists, isDeleted, at, exited, ghosts>>
               PROVE  CleanInv'
    BY DEF Finish, SignalArrives, Context, Runs
  <1> USE DEF CleanInv, compileVars, ghosts
  <1>1. TypeOK' /\ Recorded'
    BY DEF TypeOK, Recorded
  <1>2. NotBegun' /\ Progress' /\ DeletedClean'
    BY DEF TypeOK, NotBegun, Progress, DeletedClean, CleanedUp
  <1>3. EndedBy' /\ OneDeleter'
    BY DEF TypeOK, EndedBy, OneDeleter, Deleting
  <1> QED
    BY <1>1, <1>2, <1>3

LEMMA ExchangeStep ==
  ASSUME CleanInv, NEW c \in Context, Exchange(c)
  PROVE  CleanInv'
  <1> USE DEF CleanInv, Exchange, compileVars, ghosts
  <1>1. TypeOK' /\ Recorded'
    BY ConstantsAssumption DEF ConstantsAssumption, TypeOK, Recorded, LastIndex
  <1>2. NotBegun' /\ DeletedClean'
    BY DEF NotBegun, DeletedClean
  <1>3. Progress'
    <2>1. CASE IsFirst
      BY <2>1 DEF IsFirst, LastIndex, TypeOK, NotBegun, Recorded, Progress
    <2>2. CASE ~IsFirst
      BY <2>2 DEF TypeOK, Progress, CleanedUp
    <2> QED
      BY <2>1, <2>2
  <1>4. EndedBy'
    BY DEF EndedBy, TypeOK, Runs
  <1>5. OneDeleter'
    BY DEF IsFirst, TypeOK, NotBegun, OneDeleter, Deleting
  <1> QED
    BY <1>1, <1>2, <1>3, <1>4, <1>5

LEMMA WaitStep ==
  ASSUME CleanInv, NEW c \in Context, SeesDeleted(c) \/ WaitExpires(c)
  PROVE  CleanInv'
  <1> USE DEF CleanInv, SeesDeleted, WaitExpires, compileVars, ghosts
  <1>1. TypeOK' /\ Recorded'
    BY DEF TypeOK, Recorded
  <1>2. NotBegun' /\ DeletedClean'
    BY DEF TypeOK, NotBegun, DeletedClean, CleanedUp
  <1>3. Progress'
    BY DEF TypeOK, Progress, DeletedClean, CleanedUp
  <1>4. EndedBy' /\ OneDeleter'
    BY DEF TypeOK, EndedBy, OneDeleter, Deleting
  <1> QED
    BY <1>1, <1>2, <1>3, <1>4

\* The steps of the deletion that remove something, or end it.
LEMMA RemoveStep ==
  ASSUME CleanInv, NEW c \in Context,
         Remove(c) \/ (c = Main /\ (EmptyDir \/ RemoveDir))
  PROVE  CleanInv'
  <1> USE DEF CleanInv, compileVars, ghosts
  <1>1. /\ exists' \subseteq exists /\ late' = late /\ ~exited /\ Deleting(c)
        /\ UNCHANGED <<compileVars, isDeleted, exited, expired>>
        /\ \A d \in Context : d # c => pc'[d] = pc[d] /\ at'[d] = at[d]
    BY DEF Remove, EmptyDir, RemoveDir, Deleting, TypeOK, Runs
  <1>2. TypeOK' /\ Recorded'
    <2>1. CASE Remove(c)
      <3>1. N \in Nat /\ at[c] \in 0..N
        BY <2>1, ConstantsAssumption DEF ConstantsAssumption, Remove, Progress
      <3>2. at' \in [Context -> -1..N]
        <4>1. at[c] - 1 \in -1..N
          BY <3>1
        <4> QED
          BY <2>1, <4>1 DEF Remove, TypeOK
      <3> QED
        BY <1>1, <2>1, <3>2 DEF Remove, TypeOK, Recorded
    <2>2. CASE EmptyDir \/ RemoveDir
      BY <1>1, <2>2 DEF EmptyDir, RemoveDir, TypeOK, Recorded
    <2> QED
      BY <2>1, <2>2
  <1>3. Deleting(c)' /\ isDeleted # "NOT_DELETED"
    BY <1>1 DEF Remove, EmptyDir, RemoveDir, Deleting, TypeOK, OneDeleter
  <1>4. /\ pc'[c] = "loop" => at'[c] \in 0..N /\ exists' \ late' \subseteq 0..at'[c]
        /\ pc'[c] \in {"empty", "rmdir"} => c = Main /\ exists' \ late' \subseteq {Dir}
        /\ pc'[c] = "store" => CleanedUp'
    <2>1. CASE Remove(c)
      <3>1. at[c] \in 0..N /\ exists \ late \subseteq 0..at[c] /\ N \in Nat
        BY <2>1, ConstantsAssumption DEF ConstantsAssumption, Remove, Progress
      <3>2. CASE at[c] > 0
        <4>1. at[c] # Dir /\ at[c] > Dir
          BY <3>1, <3>2 DEF Dir
        <4>2. exists' = exists \ {at[c]}
          BY <2>1, <4>1 DEF Remove, Removable
        <4>3. at'[c] = at[c] - 1 /\ pc'[c] = "loop"
          BY <2>1, <4>1 DEF Remove, TypeOK
        <4>4. at[c] - 1 \in 0..N
          BY <3>1, <3>2
        <4>5. exists' \ late' \subseteq 0..(at[c] - 1)
          BY <1>1, <3>1, <4>2
        <4> QED
          BY <4>3, <4>4, <4>5
      <3>3. CASE at[c] = 0
        <4>1. exists \ late \subseteq {Dir}
          BY <3>1, <3>3 DEF Dir
        <4>2. CleanedUp'
          BY <1>1, <2>1, <3>3, <4>1, RemoveLast DEF Remove, Dir
        <4> QED
          BY <1>1, <2>1, <3>3, <4>1, <4>2 DEF Remove, TypeOK, Dir
      <3> QED
        BY <3>1, <3>2, <3>3
    <2>2. CASE c = Main /\ EmptyDir
      BY <1>1, <2>2 DEF EmptyDir, TypeOK, Progress
    <2>3. CASE c = Main /\ RemoveDir
      <3>1. exists \ late \subseteq {Dir}
        BY <2>3 DEF RemoveDir, Progress
      <3>2. CleanedUp'
        BY <1>1, <2>3, <3>1, RemoveLast DEF RemoveDir
      <3> QED
        BY <2>3, <3>2 DEF RemoveDir, TypeOK
    <2> QED
      BY <2>1, <2>2, <2>3
  <1>5. Progress' /\ DeletedClean'
    BY <1>1, <1>3, <1>4, FewerClean DEF Progress, DeletedClean, Deleting
  <1>6. NotBegun' /\ EndedBy' /\ OneDeleter'
    BY <1>1, <1>3 DEF NotBegun, EndedBy, OneDeleter, Deleting
  <1> QED
    BY <1>2, <1>5, <1>6

LEMMA StoreStep ==
  ASSUME CleanInv, NEW c \in Context, StoreDeleted(c)
  PROVE  CleanInv'
  <1> USE DEF CleanInv, StoreDeleted, compileVars, ghosts
  <1>1. TypeOK' /\ Recorded'
    BY DEF TypeOK, Recorded
  <1>2. NotBegun' /\ DeletedClean' /\ Progress'
    BY DEF TypeOK, NotBegun, DeletedClean, CleanedUp, Progress
  <1>3. EndedBy' /\ OneDeleter'
    BY DEF TypeOK, EndedBy, OneDeleter, Deleting
  <1> QED
    BY <1>1, <1>2, <1>3

LEMMA ExitStep ==
  ASSUME CleanInv, NEW c \in Context, Exit(c)
  PROVE  CleanInv'
  <1> USE DEF CleanInv, Exit, compileVars, ghosts
  <1>1. TypeOK' /\ Recorded' /\ NotBegun'
    BY DEF TypeOK, Recorded, NotBegun
  <1>2. DeletedClean' /\ Progress' /\ EndedBy' /\ OneDeleter'
    BY DEF DeletedClean, CleanedUp, Progress, EndedBy, OneDeleter, Deleting
  <1> QED
    BY <1>1, <1>2

LEMMA StutterStep == CleanInv /\ UNCHANGED vars => CleanInv'
  BY DEF vars, compileVars, ghosts, CleanInv, TypeOK, Recorded, NotBegun, Progress, DeletedClean,
         EndedBy, OneDeleter, Deleting, CleanedUp

LEMMA NextClean == CleanInv /\ [Next]_vars => CleanInv'
  <1> SUFFICES ASSUME CleanInv, [Next]_vars PROVE CleanInv'
    OBVIOUS
  <1>1. CASE Compile
    BY <1>1, CompileStep, StartStep, RemoveStep DEF Compile, Context
  <1>2. CASE (\E f \in File : Write(f)) \/ (\E h \in Handler : SignalArrives(h))
    BY <1>2, CompileStep, StartStep
  <1>3. ASSUME NEW c \in Context, Delete(c) PROVE CleanInv'
    BY <1>3, ExchangeStep, WaitStep, RemoveStep, StoreStep, ExitStep, StutterStep
       DEF Delete, WaitOn
  <1>4. CASE Gone \/ UNCHANGED vars
    BY <1>4, StutterStep DEF Gone
  <1> QED
    BY <1>1, <1>2, <1>3, <1>4 DEF Next

LEMMA SpecClean == Spec => []CleanInv
  BY InitClean, NextClean, PTL DEF Spec

-----------------------------------------------------------------------------
\* Every variable of the deletion keeps its type.
THEOREM TypeCorrect == Spec => []TypeOK
  <1>1. CleanInv => TypeOK
    BY DEF CleanInv
  <1> QED
    BY SpecClean, <1>1, PTL

\* The exchange of DeleteTempFiles and DeleteTempFilesSignalSafe lets a single
\* context through, however many ask for the deletion.
THEOREM OneDeleterCorrect == Spec => []OneDeleter
  <1>1. CleanInv => OneDeleter
    BY DEF CleanInv
  <1> QED
    BY SpecClean, <1>1, PTL

\* Whoever ends the process, the files that were there when the deletion began
\* are gone, unless a wait in IsDeleted ran out.
THEOREM ExitCorrect == Spec => []ExitClean
  <1>1. CleanInv => ExitClean
    BY DEF CleanInv, ExitClean, EndedBy, Progress
  <1> QED
    BY SpecClean, <1>1, PTL
=============================================================================
