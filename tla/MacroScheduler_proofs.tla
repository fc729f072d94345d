----------------------- MODULE MacroScheduler_proofs -----------------------
(***************************************************************************)
(* Theorems about MacroScheduler, for every number of calls, set of roots, *)
(* number of slots and kind of evaluation.  The invariants are proved in   *)
(* layers: Control is inductive by itself, and the others rest on those    *)
(* before them.                                                            *)
(***************************************************************************)
EXTENDS MacroScheduler, FiniteSetTheorems, WellFoundedInduction, TLAPS

(***************************************************************************)
(* First layer: the type invariant, where the main thread may be while     *)
(* calls run, and what a running call looks like.                          *)
(***************************************************************************)
LoopsApart ==
    /\ pc \in {"Create", "Eval", "Serial", "Free", "Done"} => evalMacCalls = {}
    /\ pc \in {"Create", "Eval", "Exchange", "Done"} => toScan = {}
    /\ (pc = "Wait" /\ Parallel) => toScan = {}
    /\ pc \in {"Scan", "Exchange"} => Parallel
    /\ pc = "Serial" => ~Parallel

RunningLooksLikeIt ==
    /\ \A c \in evalMacCalls : status[c] \in {"EVAL", "FAIL"} /\ form[c] # "builtin"
    /\ ~Parallel => \A c, d \in evalMacCalls : c = d
    /\ \A c \in pMacroCalls : status[c] \notin {"FINISH", "REEVALFAILED"}

\* The counter covers the calls that run or may still be started: it is what
\* keeps EvalMacroCallsOnMultiThread from leaving its loop over a running call.
Undecided ==
    {c \in pMacroCalls : c \in evalMacCalls \/ status[c] \notin {"SUCCESS", "FAIL"}}

Counted ==
    (Parallel /\ pc \in {"Scan", "Exchange", "Wait"}) =>
        Cardinality(Undecided) <= needEvalMacCalls

Control == TypeOK /\ LoopsApart /\ RunningLooksLikeIt /\ Counted

\* What the check of a call can make of it, by cases on what the call is.
LEMMA CheckFacts ==
    ASSUME TypeOK, NEW c \in Call
    PROVE  /\ StatusAfterCheck(c) \in Status
           /\ form[c] # "builtin" /\ status[c] \in {"EVAL", "FAIL"}
                 => StatusAfterCheck(c) = status[c]
           /\ status[c] = "SUCCESS" => StatusAfterCheck(c) = "SUCCESS"
           /\ StatusAfterCheck(c) \in {status[c], "EVAL", "FAIL", "SUCCESS"}
           /\ Starts(c) => /\ form[c] # "builtin"
                           /\ status[c] \in {"READY", "INIT"}
                           /\ status[c] = "INIT" => AllChildrenSucceeded(c)
                                                    /\ form[c] # "parseFail"
           /\ status[c] # "SUCCESS" /\ StatusAfterCheck(c) = "SUCCESS"
                 => \/ form[c] \in {"builtin", "interpolation"}
                    \/ status[c] \in {"REEVAL", "ANNOTATION"}
  BY DEF StatusAfterCheck, ArgumentsParse, Starts, TypeOK, Status

LEMMA CallsFinite == IsFiniteSet(Call) /\ \A S \in SUBSET Call : IsFiniteSet(S)
                        /\ Cardinality(S) \in Nat
  <1>1. IsFiniteSet(Call)
    BY ConstantsAssumption, FS_Interval, 1 \in Int, N \in Int DEF Call, ConstantsAssumption
  <1> QED
    BY <1>1, FS_Subset, FS_CardinalityType

LEMMA SubsetCounts ==
    ASSUME NEW T \in SUBSET Call, NEW S \in SUBSET T
    PROVE  /\ Cardinality(S) <= Cardinality(T)
           /\ \A c \in T : c \notin S => Cardinality(S) <= Cardinality(T) - 1
           /\ S = T \/ Cardinality(S) < Cardinality(T)
  <1>1. IsFiniteSet(T) /\ IsFiniteSet(S)
    BY CallsFinite
  <1>2. Cardinality(S) \in Nat /\ Cardinality(T) \in Nat
    BY CallsFinite
  <1> QED
    BY <1>1, <1>2, FS_Subset

LEMMA ControlInit == Init => Control
  <1> SUFFICES ASSUME Init PROVE Control
    OBVIOUS
  <1>1. 0 \in Slot
    BY ConstantsAssumption DEF ConstantsAssumption, Slot
  <1>2. status \in [Call -> Status] /\ children \in [Call -> SUBSET Call]
    BY DEF Init, Status
  <1>3. form \in [Call -> Form \cup {"none"}] /\ threadId \in [Call -> Slot]
    BY <1>1 DEF Init
  <1>4. /\ pMacroCalls = {} /\ toScan = {} /\ evalMacCalls = {} /\ isThreadUseds = {}
        /\ needEvalMacCalls = 0 /\ tokensWritten = {} /\ isDataReady = {}
        /\ pc = "Create"
    BY DEF Init
  <1>5. reEval \in BOOLEAN /\ srvLost \in BOOLEAN /\ options \in Option
    BY DEF Init
  <1>6. TypeOK
    BY <1>2, <1>3, <1>4, <1>5 DEF TypeOK
  <1> QED
    BY <1>4, <1>6 DEF Control, LoopsApart, RunningLooksLikeIt, Counted

\* What building the calls of a pass does to the variables it changes.
LEMMA GrowFacts ==
    ASSUME TypeOK, NEW new \in SUBSET Unused(Live), NEW bad \in SUBSET Live,
           NEW up \in Trees(new), NEW found \in [Fresh(new) -> Forms],
           Grow(new, up, found, bad)
    PROVE  /\ new \subseteq Call /\ Live \subseteq Roots
           /\ form' \in [Call -> Form \cup {"none"}]
           /\ children' \in [Call -> SUBSET Call]
           /\ status' \in [Call -> Status]
           /\ pMacroCalls' \subseteq Call
           /\ \A c \in pMacroCalls' : status'[c] \notin {"FAIL", "FINISH", "REEVALFAILED"}
           /\ \A c \in Call : status'[c] = status[c] \/ status'[c] # "EVAL"
  <1>1. new \subseteq Call /\ Live \subseteq Roots /\ Roots \subseteq Call
    BY ConstantsAssumption DEF ConstantsAssumption, Unused, Live
  <1>2. form' \in [Call -> Form \cup {"none"}]
    BY ConstantsAssumption DEF ConstantsAssumption, Grow, FormsFound, Form, TypeOK
  <1>3. \A c : /\ FirstStatus(c, new, up, form') \in Status
               /\ ReEvalStatus(c, new, up, form') \in Status
    BY DEF FirstStatus, ReEvalStatus, Status
  <1>4. status' \in [Call -> Status]
    BY <1>3 DEF Grow, TypeOK
  <1>5. children' \in [Call -> SUBSET Call]
    BY <1>1 DEF Grow, TypeOK
  <1>6. \A c \in Call : status'[c] = status[c] \/ status'[c] # "EVAL"
    BY DEF Grow, FirstStatus, ReEvalStatus
  <1> QED
    BY <1>1, <1>2, <1>4, <1>5, <1>6 DEF Grow

\* No step changes the options of the compilation.
LEMMA OptionsFixed == [Next]_vars => options' = options
  BY DEF Next, Main, CreateMacroCallsTree, EvalMacroCalls, ScanOver, ScanStart, ScanNoSlot,
         ScanDone, Exchange, ExchangeFails, Collect, Spin, Coroutine, WriteTokens,
         SetDataReady, SerialTurn, SerialResult, SerialDone, FreeMacroCalls, Finished, vars

LEMMA CountedStep ==
    ASSUME Control, [Next]_vars, TypeOK'
    PROVE  Counted'
  <1>0. options' = options
    BY OptionsFixed
  <1> USE <1>0 DEF Control, Parallel
  <1>1. Undecided \in SUBSET Call /\ Undecided' \in SUBSET Call
    BY DEF Undecided, TypeOK
  <1>2. /\ Cardinality(Undecided) \in Nat /\ Cardinality(Undecided') \in Nat
        /\ needEvalMacCalls \in Int /\ needEvalMacCalls' \in Int
    BY <1>1, CallsFinite DEF TypeOK
  <1>3. CASE CreateMacroCallsTree
    BY <1>3 DEF CreateMacroCallsTree, Counted
  <1>4. CASE EvalMacroCalls
    <2>1. Undecided' \subseteq pMacroCalls /\ pMacroCalls \subseteq Call
      BY <1>4 DEF EvalMacroCalls, Undecided, TypeOK
    <2>2. Cardinality(Undecided') <= Cardinality(pMacroCalls)
      BY <2>1, SubsetCounts
    <2> QED
      BY <1>4, <2>2 DEF EvalMacroCalls, Counted
  <1>5. ASSUME NEW c \in Call, ScanOver(c) PROVE Counted'
    <2>1. c \in pMacroCalls /\ pc' = pc /\ pMacroCalls' = pMacroCalls
          /\ evalMacCalls' = evalMacCalls
      BY <1>5 DEF ScanOver, IsNext, TypeOK
    <2>2. CASE status[c] # "FAIL" /\ StatusAfterCheck(c) = "FAIL"
      <3>1. c \in Undecided
        BY <2>1, <2>2, CheckFacts DEF Undecided
      <3>2. c \notin evalMacCalls
        BY <2>2, CheckFacts DEF RunningLooksLikeIt
      <3>3. Undecided' \subseteq Undecided /\ c \notin Undecided'
        BY <1>5, <2>1, <2>2, <3>2 DEF ScanOver, Undecided, TypeOK
      <3>4. needEvalMacCalls' = needEvalMacCalls - 1
        BY <1>5, <2>2 DEF ScanOver, CountedByCheck
      <3> QED
        BY <1>1, <1>2, <1>5, <2>1, <3>1, <3>3, <3>4, SubsetCounts DEF Counted, ScanOver
    <2>3. CASE ~(status[c] # "FAIL" /\ StatusAfterCheck(c) = "FAIL")
      <3>1. needEvalMacCalls' = needEvalMacCalls
        BY <1>2, <1>5, <2>3 DEF ScanOver, CountedByCheck
      <3>2. Undecided' \subseteq Undecided
        BY <1>5, <2>1, <2>3, CheckFacts DEF ScanOver, Undecided, TypeOK
      <3> QED
        BY <1>1, <1>2, <1>5, <2>1, <3>1, <3>2, SubsetCounts DEF Counted, ScanOver
    <2> QED
      BY <2>2, <2>3
  <1>6. ASSUME NEW c \in Call, ScanStart(c) \/ ScanNoSlot(c) PROVE Counted'
    <2>1. Undecided' \subseteq Undecided
      BY <1>6, CheckFacts DEF ScanStart, ScanNoSlot, Undecided, TypeOK, IsNext
    <2> QED
      BY <1>1, <1>2, <1>6, <2>1, SubsetCounts DEF Counted, ScanStart, ScanNoSlot
  <1>7. CASE ScanDone \/ Exchange
    <2>1. Undecided' \subseteq Undecided
      BY <1>7 DEF ScanDone, Exchange, Undecided, TypeOK
    <2> QED
      BY <1>1, <1>2, <1>7, <2>1, SubsetCounts DEF Counted, ScanDone, Exchange, LoopsApart
  <1>8. ASSUME NEW c \in Call, Collect(c) PROVE Counted'
    <2>1. status'[c] \in {"SUCCESS", "FAIL"} /\ c \in Undecided
      BY <1>8 DEF Collect, ResultStatus, TypeOK, Undecided
    <2>2. Undecided' \subseteq Undecided /\ c \notin Undecided'
      BY <1>8, <2>1 DEF Collect, Erased, Undecided, TypeOK
    <2> QED
      BY <1>1, <1>2, <1>8, <2>1, <2>2, SubsetCounts DEF Counted, Collect
  <1>9. CASE ExchangeFails \/ SerialDone \/ FreeMacroCalls
    BY <1>9 DEF Counted, ExchangeFails, SerialDone, FreeMacroCalls
  <1>10. ASSUME NEW c \in Call, SerialTurn(c) \/ SerialResult(c) PROVE Counted'
    BY <1>10 DEF Counted, SerialTurn, SerialResult, LoopsApart
  <1>11. ASSUME NEW c \in Call, Coroutine(c) PROVE Counted'
    BY <1>11 DEF Counted, Coroutine, WriteTokens, SetDataReady, Undecided
  <1>12. CASE Spin \/ Finished \/ UNCHANGED vars
    BY <1>12 DEF Counted, Spin, Finished, vars, Undecided
  <1> QED
    BY <1>3, <1>4, <1>5, <1>6, <1>7, <1>8, <1>9, <1>10, <1>11, <1>12 DEF Next, Main

LEMMA ControlStep == Control /\ [Next]_vars => Control'
  <1> SUFFICES ASSUME Control, [Next]_vars PROVE Control'
    OBVIOUS
  <1> SUFFICES (TypeOK /\ LoopsApart /\ RunningLooksLikeIt)'
    BY CountedStep DEF Control
  <1>0. options' = options
    BY OptionsFixed
  <1> USE <1>0 DEF Control, Parallel, ChildProcess
  <1>1. CASE CreateMacroCallsTree
    <2>1. PICK new \in SUBSET Unused(Live), bad \in SUBSET Live :
            \E up \in Trees(new), found \in [Fresh(new) -> Forms] :
              Grow(new, up, found, bad)
      BY <1>1 DEF CreateMacroCallsTree
    <2>2. PICK up \in Trees(new), found \in [Fresh(new) -> Forms] :
              Grow(new, up, found, bad)
      BY <2>1
    <2>3. /\ form' \in [Call -> Form \cup {"none"}]
          /\ children' \in [Call -> SUBSET Call]
          /\ status' \in [Call -> Status]
          /\ pMacroCalls' \subseteq Call
          /\ \A c \in pMacroCalls' : status'[c] \notin {"FAIL", "FINISH", "REEVALFAILED"}
      BY <2>2, GrowFacts
    <2>4. evalMacCalls = {} /\ toScan = {} /\ pc' \in {"Done", "Eval"}
      BY <1>1 DEF CreateMacroCallsTree, LoopsApart
    <2>5. TypeOK'
      BY <1>1, <2>3, <2>4 DEF CreateMacroCallsTree, TypeOK, slotVars, dataVars
    <2> QED
      BY <1>1, <2>3, <2>4, <2>5
      DEF CreateMacroCallsTree, LoopsApart, RunningLooksLikeIt, slotVars, dataVars
  <1>2. CASE EvalMacroCalls
    <2>1. Cardinality(pMacroCalls) \in Int
      BY CallsFinite DEF TypeOK
    <2>2. TypeOK'
      BY <1>2, <2>1 DEF EvalMacroCalls, TypeOK, treeVars, slotVars, dataVars
    <2> QED
      BY <1>2, <2>2
      DEF EvalMacroCalls, LoopsApart, RunningLooksLikeIt, treeVars, slotVars, dataVars
  <1>3. ASSUME NEW c \in Call, ScanOver(c) PROVE (TypeOK /\ LoopsApart /\ RunningLooksLikeIt)'
    <2>1. TypeOK'
      BY <1>3, CheckFacts DEF ScanOver, CountedByCheck, TypeOK, treeVars, slotVars, dataVars
    <2>2. LoopsApart'
      BY <1>3 DEF ScanOver, LoopsApart, slotVars, dataVars
    <2>3. status'[c] \notin {"FINISH", "REEVALFAILED"} /\ (c \in evalMacCalls => status'[c] \in {"EVAL", "FAIL"})
      BY <1>3, CheckFacts DEF ScanOver, TypeOK, RunningLooksLikeIt, IsNext
    <2> QED
      BY <1>3, <2>1, <2>2, <2>3
      DEF ScanOver, RunningLooksLikeIt, TypeOK, treeVars, slotVars, dataVars
  <1>4. ASSUME NEW c \in Call, ScanStart(c) PROVE (TypeOK /\ LoopsApart /\ RunningLooksLikeIt)'
    <2>1. form[c] # "builtin" /\ c \in pMacroCalls
      BY <1>4, CheckFacts DEF ScanStart, TypeOK, IsNext
    <2>2. TypeOK'
      BY <1>4, <2>1 DEF ScanStart, TypeOK, treeVars, slotVars, dataVars, Status
    <2> QED
      BY <1>4, <2>1, <2>2
      DEF ScanStart, LoopsApart, RunningLooksLikeIt, TypeOK, treeVars, slotVars, dataVars
  <1>5. ASSUME NEW c \in Call, ScanNoSlot(c) PROVE (TypeOK /\ LoopsApart /\ RunningLooksLikeIt)'
    <2>1. TypeOK'
      BY <1>5 DEF ScanNoSlot, TypeOK, treeVars, slotVars, dataVars, Status
    <2> QED
      BY <1>5, <2>1
      DEF ScanNoSlot, LoopsApart, RunningLooksLikeIt, TypeOK, treeVars, slotVars, dataVars
  <1>6. CASE ScanDone
    BY <1>6 DEF ScanDone, AfterScan, TypeOK, LoopsApart, RunningLooksLikeIt,
                treeVars, slotVars, dataVars
  <1>7. CASE Exchange
    <2>1. \A c \in Call : status'[c] = status[c] \/ (c \in evalMacCalls /\ status'[c] = "FAIL")
      BY <1>7 DEF Exchange
    <2>2. status' \in [Call -> Status]
      BY <1>7 DEF Exchange, TypeOK, Status
    <2>3. tokensWritten' \subseteq Call /\ isDataReady' \subseteq Call
      BY <1>7 DEF Exchange, TypeOK
    <2>4. TypeOK'
      BY <1>7, <2>2, <2>3 DEF Exchange, TypeOK, treeVars, slotVars
    <2> QED
      BY <1>7, <2>1, <2>4
      DEF Exchange, LoopsApart, RunningLooksLikeIt, TypeOK, treeVars, slotVars
  <1>8. CASE ExchangeFails
    <2>1. TypeOK'
      BY <1>8 DEF ExchangeFails, TypeOK, treeVars, slotVars, dataVars, Status
    <2> QED
      BY <1>8, <2>1
      DEF ExchangeFails, LoopsApart, RunningLooksLikeIt, TypeOK, treeVars, slotVars, dataVars
  <1>9. ASSUME NEW c \in Call, Collect(c) PROVE (TypeOK /\ LoopsApart /\ RunningLooksLikeIt)'
    <2>1. ResultStatus(c) \in {"SUCCESS", "FAIL"}
      BY DEF ResultStatus
    <2>2. TypeOK'
      BY <1>9, <2>1 DEF Collect, Erased, TypeOK, treeVars, dataVars, Status
    <2>3. pc' = "Free" => evalMacCalls' = {}
      <3>1. CASE pc' = "Free" /\ evalMacCalls' # {}
        <4>1. Undecided \in SUBSET Call /\ evalMacCalls \in SUBSET Undecided /\ c \in evalMacCalls
          BY <1>9 DEF Undecided, TypeOK, Collect
        <4>2. {c} \in SUBSET evalMacCalls /\ {c} # evalMacCalls
          BY <1>9, <3>1 DEF Collect, Erased
        <4>3. Cardinality({c}) = 1
          BY FS_Singleton
        <4>4. Cardinality({c}) < Cardinality(evalMacCalls)
              /\ Cardinality(evalMacCalls) <= Cardinality(Undecided)
          BY <4>1, <4>2, SubsetCounts
        <4>5. Cardinality(Undecided) <= needEvalMacCalls /\ needEvalMacCalls - 1 <= 0
          BY <1>9, <3>1 DEF Collect, Counted, TypeOK
        <4> QED
          BY <4>1, <4>3, <4>4, <4>5, CallsFinite DEF TypeOK
      <3> QED
        BY <3>1
    <2> QED
      BY <1>9, <2>1, <2>2, <2>3
      DEF Collect, Erased, LoopsApart, RunningLooksLikeIt, TypeOK, treeVars, dataVars
  <1>10. CASE Spin
    BY <1>10 DEF Spin, vars, TypeOK, LoopsApart, RunningLooksLikeIt
  <1>11. ASSUME NEW c \in Call, WriteTokens(c) PROVE (TypeOK /\ LoopsApart /\ RunningLooksLikeIt)'
    BY <1>11 DEF WriteTokens, TypeOK, LoopsApart, RunningLooksLikeIt, treeVars, slotVars
  <1>12. ASSUME NEW c \in Call, SetDataReady(c) PROVE (TypeOK /\ LoopsApart /\ RunningLooksLikeIt)'
    BY <1>12 DEF SetDataReady, TypeOK, LoopsApart, RunningLooksLikeIt, treeVars, slotVars
  <1>13. ASSUME NEW c \in Call, SerialTurn(c) PROVE (TypeOK /\ LoopsApart /\ RunningLooksLikeIt)'
    <2>1. Starts(c) => form[c] # "builtin" /\ StatusAfterCheck(c) = "EVAL"
      BY CheckFacts DEF Starts
    <2>2. status'[c] \notin {"FINISH", "REEVALFAILED"} /\ c \in pMacroCalls
      BY <1>13, CheckFacts DEF SerialTurn, TypeOK, RunningLooksLikeIt, IsNext
    <2>3. TypeOK'
      BY <1>13, <2>2, CheckFacts DEF SerialTurn, TypeOK, treeVars, slotVars, dataVars
    <2>4. LoopsApart'
      BY <1>13 DEF SerialTurn, LoopsApart, slotVars, dataVars
    <2> QED
      BY <1>13, <2>1, <2>2, <2>3, <2>4
      DEF SerialTurn, LoopsApart, RunningLooksLikeIt, TypeOK, treeVars, slotVars, dataVars
  <1>14. ASSUME NEW c \in Call, SerialResult(c) PROVE (TypeOK /\ LoopsApart /\ RunningLooksLikeIt)'
    <2>1. status' = [status EXCEPT ![c] = status'[c]] /\ status'[c] \in {"SUCCESS", "FAIL"}
      BY <1>14 DEF SerialResult, ResultStatus, StatusWhenLost, TypeOK
    <2>2. tokensWritten' \subseteq Call /\ isDataReady' \subseteq Call /\ srvLost' \in BOOLEAN
      BY <1>14 DEF SerialResult, TypeOK, dataVars
    <2>3. TypeOK'
      BY <1>14, <2>1, <2>2 DEF SerialResult, TypeOK, Status, treeVars, slotVars
    <2> QED
      BY <1>14, <2>1, <2>3
      DEF SerialResult, LoopsApart, RunningLooksLikeIt, TypeOK, treeVars, slotVars
  <1>15. CASE SerialDone
    BY <1>15 DEF SerialDone, TypeOK, LoopsApart, RunningLooksLikeIt,
                 treeVars, slotVars, dataVars
  <1>16. CASE FreeMacroCalls
    <2>1. children' \in [Call -> SUBSET Call] /\ evalMacCalls = {}
      BY <1>16 DEF FreeMacroCalls, TypeOK, LoopsApart
    <2> QED
      BY <1>16, <2>1
      DEF FreeMacroCalls, TypeOK, LoopsApart, RunningLooksLikeIt, slotVars, dataVars
  <1>17. CASE UNCHANGED vars
    BY <1>17 DEF vars, TypeOK, LoopsApart, RunningLooksLikeIt
  <1> QED
    BY <1>1, <1>2, <1>3, <1>4, <1>5, <1>6, <1>7, <1>8, <1>9, <1>10, <1>11, <1>12,
       <1>13, <1>14, <1>15, <1>16, <1>17
    DEF Next, Main, Coroutine, Finished

(***************************************************************************)
(* Every variable keeps its type, whatever the trees of calls and the      *)
(* order in which coroutines and the server answer (the whole of           *)
(* EvalMacros).                                                            *)
(***************************************************************************)
THEOREM TypeCorrect == Spec => []TypeOK
  <1>1. Control => TypeOK
    BY DEF Control
  <1> QED
    BY <1>1, ControlInit, ControlStep, PTL DEF Spec

\* The counter of EvalMacroCallsOnMultiThread counts every running call, so the
\* loop cannot end over one.
THEOREM CounterCorrect == Spec => []CounterCoversRunning
  <1>1. Control => CounterCoversRunning
    <2> SUFFICES ASSUME Control, Parallel, pc \in {"Scan", "Exchange", "Wait"}
                 PROVE  Cardinality(evalMacCalls) <= needEvalMacCalls
      BY DEF CounterCoversRunning
    <2>1. Undecided \in SUBSET Call /\ evalMacCalls \in SUBSET Undecided
      BY DEF Control, TypeOK, Undecided
    <2>2. Cardinality(evalMacCalls) <= Cardinality(Undecided)
      BY <2>1, SubsetCounts
    <2>3. Cardinality(Undecided) <= needEvalMacCalls /\ needEvalMacCalls \in Int
      BY DEF Control, Counted, TypeOK
    <2>4. Cardinality(evalMacCalls) \in Nat /\ Cardinality(Undecided) \in Nat
      BY <2>1, CallsFinite
    <2> QED
      BY <2>2, <2>3, <2>4
  <1> QED
    BY <1>1, ControlInit, ControlStep, PTL DEF Spec

(***************************************************************************)
(* Second layer: the slots.  A scan goes on only while fewer than          *)
(* ThreadNum calls run, so a ready call always finds a slot, and a call    *)
(* marked EVAL is one that runs.                                           *)
(***************************************************************************)
Room ==
    Parallel =>
        /\ Cardinality(evalMacCalls) <= ThreadNum
        /\ (pc = "Scan" /\ toScan # {}) => Cardinality(evalMacCalls) < ThreadNum

Slotted == SlotsOwned /\ EvalIsRunning /\ Room

LEMMA SlottedInit == Init => Slotted
  <1> SUFFICES ASSUME Init PROVE Slotted
    OBVIOUS
  <1>1. /\ evalMacCalls = {} /\ isThreadUseds = {} /\ toScan = {}
        /\ \A c \in Call : status[c] # "EVAL"
    BY DEF Init
  <1>2. Cardinality({}) = 0 /\ ThreadNum \in Nat \ {0}
    BY FS_EmptySet, ConstantsAssumption DEF ConstantsAssumption
  <1> QED
    BY <1>1, <1>2 DEF Slotted, SlotsOwned, EvalIsRunning, Room

\* When no slot is free and none has leaked, as many calls run as there are slots.
LEMMA FullMeansBusy ==
    ASSUME TypeOK, SlotsOwned, Parallel, ~srvLost, FreeSlots = {}
    PROVE  ThreadNum <= Cardinality(evalMacCalls)
  <1> DEFINE holds == [c \in evalMacCalls |-> threadId[c]]
  <1>1. evalMacCalls \in SUBSET Call /\ isThreadUseds = Slot
    BY DEF TypeOK, FreeSlots
  <1>2. holds \in Surjection(evalMacCalls, Slot)
    BY <1>1 DEF Surjection, SlotsOwned, TypeOK
  <1>3. Cardinality(Slot) <= Cardinality(evalMacCalls)
    BY <1>1, <1>2, CallsFinite, FS_Surjection
  <1>4. Cardinality(Slot) = ThreadNum
    BY ConstantsAssumption, FS_Interval DEF ConstantsAssumption, Slot
  <1> QED
    BY <1>3, <1>4

LEMMA SlottedStep ==
    ASSUME Control, Control', Slotted, [Next]_vars
    PROVE  Slotted'
  <1>0. options' = options
    BY OptionsFixed
  <1> USE <1>0 DEF Slotted, Parallel
  <1>1. /\ evalMacCalls \in SUBSET Call /\ evalMacCalls' \in SUBSET Call
        /\ IsFiniteSet(evalMacCalls)
        /\ Cardinality(evalMacCalls) \in Nat /\ Cardinality(evalMacCalls') \in Nat
        /\ ThreadNum \in Nat \ {0} /\ Cardinality({}) = 0
    BY CallsFinite, FS_EmptySet, ConstantsAssumption DEF Control, TypeOK, ConstantsAssumption
  <1>2. CASE CreateMacroCallsTree
    <2>1. PICK new \in SUBSET Unused(Live), bad \in SUBSET Live :
            \E up \in Trees(new), found \in [Fresh(new) -> Forms] :
              Grow(new, up, found, bad)
      BY <1>2 DEF CreateMacroCallsTree
    <2>2. \A c \in Call : status'[c] = status[c] \/ status'[c] # "EVAL"
      BY <2>1, GrowFacts DEF Control
    <2>3. pc = "Create" /\ evalMacCalls = {} /\ pc' \in {"Done", "Eval"}
      BY <1>2 DEF CreateMacroCallsTree, Control, LoopsApart
    <2> QED
      BY <1>1, <1>2, <2>2, <2>3
      DEF CreateMacroCallsTree, SlotsOwned, EvalIsRunning, Room, slotVars
  <1>3. CASE EvalMacroCalls
    <2>1. evalMacCalls' = {}
      BY <1>3 DEF EvalMacroCalls, Control, LoopsApart
    <2> QED
      BY <1>1, <1>3, <2>1
      DEF EvalMacroCalls, SlotsOwned, EvalIsRunning, Room, slotVars
  <1>4. ASSUME NEW c \in Call, ScanOver(c) PROVE Slotted'
    <2>1. status'[c] = "EVAL" => status[c] = "EVAL"
      BY <1>4 DEF ScanOver, Starts, Control, TypeOK
    <2> QED
      BY <1>1, <1>4, <2>1
      DEF ScanOver, IsNext, SlotsOwned, EvalIsRunning, Room, slotVars, Control, TypeOK
  <1>5. ASSUME NEW c \in Call, ScanStart(c) PROVE Slotted'
    <2>1. PICK s \in Slot : /\ s \in FreeSlots
                            /\ isThreadUseds' = isThreadUseds \cup {s}
                            /\ threadId' = [threadId EXCEPT ![c] = s]
      BY <1>5 DEF ScanStart, IsFirstFree
    <2>2. evalMacCalls' = evalMacCalls \cup {c} /\ Parallel /\ s \notin isThreadUseds
      BY <1>5, <2>1 DEF ScanStart, Control, LoopsApart, FreeSlots
    <2>3. c \notin evalMacCalls
      BY <1>5, CheckFacts DEF ScanStart, Control, RunningLooksLikeIt
    <2>4. Cardinality(evalMacCalls') = Cardinality(evalMacCalls) + 1
      BY <1>1, <2>2, <2>3, FS_AddElement
    <2>5. Room'
      <3>1. Cardinality(evalMacCalls) < ThreadNum
        BY <1>5, <2>2 DEF ScanStart, IsNext, Room
      <3>2. ~ScanIsFull(evalMacCalls') \/ toScan' = {}
        BY <1>5 DEF ScanStart
      <3>3. toScan' # {} => Cardinality(evalMacCalls') < ThreadNum
        BY <1>1, <3>2 DEF ScanIsFull
      <3> QED
        BY <1>1, <2>4, <3>1, <3>3 DEF Room
    <2>6. SlotsOwned'
      BY <1>5, <2>1, <2>2, <2>3 DEF ScanStart, SlotsOwned, Control, TypeOK
    <2>7. EvalIsRunning'
      BY <1>5, <2>2 DEF ScanStart, EvalIsRunning, Control, TypeOK
    <2> QED
      BY <2>5, <2>6, <2>7
  <1>6. ASSUME NEW c \in Call, ScanNoSlot(c) PROVE Slotted'
    <2>1. Parallel /\ Cardinality(evalMacCalls) < ThreadNum
      BY <1>6 DEF ScanNoSlot, IsNext, Room, Control, LoopsApart
    <2>2. srvLost
      BY <1>1, <1>6, <2>1, FullMeansBusy DEF ScanNoSlot, Control
    <2> QED
      BY <1>6, <2>1, <2>2 DEF ScanNoSlot, SlotsOwned, EvalIsRunning, Room, slotVars
  <1>7. CASE ScanDone
    BY <1>7 DEF ScanDone, SlotsOwned, EvalIsRunning, Room, slotVars
  <1>8. CASE Exchange
    <2>1. \A c \in Call : status'[c] = "EVAL" => status[c] = "EVAL"
      BY <1>8 DEF Exchange
    <2> QED
      BY <1>8, <2>1 DEF Exchange, SlotsOwned, EvalIsRunning, Room, slotVars
  <1>9. CASE ExchangeFails
    BY <1>1, <1>9 DEF ExchangeFails, SlotsOwned, EvalIsRunning, Room, slotVars
  <1>10. ASSUME NEW c \in Call, Collect(c) PROVE Slotted'
    <2>1. /\ evalMacCalls' = evalMacCalls \ {c} /\ c \in evalMacCalls
          /\ isThreadUseds' = isThreadUseds \ {threadId[c]} /\ threadId' = threadId
          /\ srvLost' = srvLost
      BY <1>10 DEF Collect, Erased, slotVars
    <2>2. Cardinality(evalMacCalls') = Cardinality(evalMacCalls) - 1
      BY <1>1, <2>1, FS_RemoveElement
    <2>3. Room'
      BY <1>1, <2>2 DEF Room
    <2>4. SlotsOwned'
      BY <2>1 DEF SlotsOwned
    <2>5. EvalIsRunning'
      BY <1>10, <2>1 DEF Collect, ResultStatus, EvalIsRunning, Control, TypeOK
    <2> QED
      BY <2>3, <2>4, <2>5
  <1>11. ASSUME NEW c \in Call, Coroutine(c) PROVE Slotted'
    BY <1>11 DEF Coroutine, WriteTokens, SetDataReady, SlotsOwned, EvalIsRunning, Room,
                 slotVars
  <1>12. ASSUME NEW c \in Call, SerialTurn(c) PROVE Slotted'
    <2>1. evalMacCalls = {} /\ ~Parallel
      BY <1>12 DEF SerialTurn, Control, LoopsApart
    <2>2. EvalIsRunning'
      BY <1>12, <2>1 DEF SerialTurn, Starts, EvalIsRunning, Control, TypeOK
    <2> QED
      BY <2>1, <2>2 DEF SlotsOwned, Room
  <1>13. ASSUME NEW c \in Call, SerialResult(c) PROVE Slotted'
    <2>1. \A d \in evalMacCalls : d = c
      BY <1>13 DEF SerialResult, Control, RunningLooksLikeIt
    <2>2. ~Parallel /\ (srvLost' \/ srvLost' = srvLost)
      BY <1>13 DEF SerialResult
    <2>3. \A d \in Call : d # c => status'[d] = status[d]
      BY <1>13 DEF SerialResult, Control, TypeOK
    <2>4. status'[c] # "EVAL"
      BY <1>13 DEF SerialResult, ResultStatus, StatusWhenLost, Control, TypeOK
    <2> QED
      BY <2>1, <2>2, <2>3, <2>4 DEF SlotsOwned, Room, EvalIsRunning
  <1>14. CASE SerialDone \/ FreeMacroCalls
    BY <1>14 DEF SerialDone, FreeMacroCalls, SlotsOwned, EvalIsRunning, Room, slotVars
  <1>15. CASE Spin \/ Finished \/ UNCHANGED vars
    BY <1>15 DEF Spin, Finished, vars, SlotsOwned, EvalIsRunning, Room
  <1> QED
    BY <1>2, <1>3, <1>4, <1>5, <1>6, <1>7, <1>8, <1>9, <1>10, <1>11, <1>12, <1>13,
       <1>14, <1>15 DEF Next, Main

\* No two running calls share a slot of CreateThreadToEvalMacroCall, and no slot
\* is lost while the server lives.
THEOREM SlotsCorrect == Spec => []SlotsOwned
  <1>1. Slotted => SlotsOwned
    BY DEF Slotted
  <1> QED
    BY <1>1, ControlInit, ControlStep, SlottedInit, SlottedStep, PTL DEF Spec

\* IsMacroCallReadyForEval marks a call EVAL before GetUnUsedThread is asked for
\* a slot; there always is one, so the mark is never left on an idle call.
THEOREM EvalCorrect == Spec => []EvalIsRunning
  <1>1. Slotted => EvalIsRunning
    BY DEF Slotted
  <1> QED
    BY <1>1, ControlInit, ControlStep, SlottedInit, SlottedStep, PTL DEF Spec

(***************************************************************************)
(* Third layer: the numbers that are no calls yet, the calls without       *)
(* children, and what the serial loop has still to visit.  It is all the   *)
(* order of evaluation needs: MacroEvalOrder is implemented whatever the   *)
(* memory of the machine does.                                             *)
(***************************************************************************)
NumberUnused(c) ==
    form[c] = "none" => status[c] = "INIT" /\ children[c] = {} /\ c \notin pMacroCalls

ReadyAlone(c) == status[c] = "READY" => children[c] = {}

\* A serial pass visits a call once, so it finds none that has failed.
SerialUnvisited ==
    /\ pc = "Eval" => \A c \in pMacroCalls : status[c] # "FAIL"
    /\ (~Parallel /\ pc \in {"Serial", "Wait"}) =>
          \A c \in toScan : status[c] # "FAIL" /\ c \notin evalMacCalls

Numbered ==
    /\ \A c \in Call : NumberUnused(c) /\ ReadyAlone(c)
    /\ (pc = "Create" /\ ~reEval) => \A c \in Call : form[c] = "none"
    /\ SerialUnvisited

LEMMA NumberedInit == Init => Numbered
  BY DEF Init, Numbered, NumberUnused, ReadyAlone, SerialUnvisited

LEMMA FirstFacts ==
    ASSUME NEW c, NEW new, NEW up, NEW frm
    PROVE  /\ FirstStatus(c, new, up, frm) \in {"FAIL", "ANNOTATION", "INIT", "READY"}
           /\ FirstStatus(c, new, up, frm) = "ANNOTATION" => frm[c] = "annotation"
           /\ FirstStatus(c, new, up, frm) = "READY" => \A d \in new : up[d] # c
           /\ ReEvalStatus(c, new, up, frm) \in
                  {"SUCCESS", "REEVALFAILED", "REEVAL", "FINISH"}
  BY DEF FirstStatus, ReEvalStatus

\* What a call is once the calls of a pass are built: seen for the first time, a
\* root evaluated before, or none of this pass.
LEMMA GrowCases ==
    ASSUME TypeOK, Numbered, pc = "Create",
           NEW new \in SUBSET Unused(Live), NEW bad \in SUBSET Live,
           NEW up \in Trees(new), NEW found \in [Fresh(new) -> Forms],
           Grow(new, up, found, bad), NEW c \in Call
    PROVE  /\ c \in Fresh(new) =>
                 /\ form[c] = "none" /\ children[c] = {} /\ form'[c] # "none"
                 /\ status'[c] = FirstStatus(c, new, up, form')
           /\ c \notin Fresh(new) /\ c \in Live =>
                 /\ status[c] = "SUCCESS" /\ form[c] # "none"
                 /\ form'[c] = form[c] \/ form'[c] = "badEscape"
                 /\ status'[c] \in {"SUCCESS", "REEVALFAILED", "REEVAL", "FINISH"}
           /\ c \notin Fresh(new) /\ c \notin Live =>
                 /\ form'[c] = form[c] /\ status'[c] = status[c]
                 /\ children'[c] = children[c] /\ c \notin pMacroCalls'
  <1>1. \A d \in new : /\ d \in Call /\ form[d] = "none" /\ RootOf(d) \in Live
                       /\ up[d] \in new \cup Live
    BY DEF Unused, Trees
  <1>2. "none" \notin Forms
    BY ConstantsAssumption DEF ConstantsAssumption, Form
  <1>3. new \subseteq Fresh(new) /\ Fresh(new) \subseteq new \cup Live
        /\ (~reEval => Live \subseteq Fresh(new))
    BY DEF Fresh
  <1>4. reEval => \A r \in Live : status[r] = "SUCCESS"
    BY DEF Live
  <1>5. /\ form'[c] = IF c \in Fresh(new) THEN found[c]
                      ELSE IF c \in bad THEN "badEscape" ELSE form[c]
        /\ children'[c] = children[c] \cup {d \in new : up[d] = c}
        /\ status'[c] = IF c \in Fresh(new) THEN FirstStatus(c, new, up, form')
                        ELSE IF c \in Live THEN ReEvalStatus(c, new, up, form')
                        ELSE status[c]
        /\ pMacroCalls' \subseteq new \cup Live
    BY DEF Grow, FormsFound
  <1>6. NumberUnused(c)
    BY DEF Numbered
  <1>7. ASSUME c \in Fresh(new)
        PROVE  form[c] = "none" /\ children[c] = {} /\ form'[c] # "none"
    <2>1. c \in new \/ ~reEval
      BY <1>7 DEF Fresh
    <2>2. form[c] = "none"
      BY <1>1, <2>1 DEF Numbered
    <2> QED
      BY <1>2, <1>5, <1>6, <1>7, <2>2 DEF NumberUnused
  <1>8. ASSUME c \notin Fresh(new), c \in Live
        PROVE  /\ status[c] = "SUCCESS" /\ form[c] # "none"
               /\ form'[c] = form[c] \/ form'[c] = "badEscape"
    <2>1. status[c] = "SUCCESS"
      BY <1>3, <1>4, <1>8
    <2> QED
      BY <1>5, <1>6, <1>8, <2>1 DEF NumberUnused
  <1>9. ASSUME c \notin Fresh(new), c \notin Live
        PROVE  /\ form'[c] = form[c] /\ status'[c] = status[c]
               /\ children'[c] = children[c] /\ c \notin pMacroCalls'
    BY <1>1, <1>3, <1>5, <1>9
  <1> QED
    BY <1>5, <1>7, <1>8, <1>9, FirstFacts

LEMMA NumberedStep ==
    ASSUME Control, Control', Numbered, [Next]_vars
    PROVE  Numbered'
  <1>0. options' = options
    BY OptionsFixed
  <1> USE <1>0 DEF Control, Parallel
  <1>1. CASE CreateMacroCallsTree
    <2>1. PICK new \in SUBSET Unused(Live), bad \in SUBSET Live :
            \E up \in Trees(new), found \in [Fresh(new) -> Forms] :
              Grow(new, up, found, bad)
      BY <1>1 DEF CreateMacroCallsTree
    <2>2. PICK up \in Trees(new), found \in [Fresh(new) -> Forms] :
              Grow(new, up, found, bad)
      BY <2>1
    <2>3. pc = "Create" /\ pc' \in {"Done", "Eval"}
      BY <1>1 DEF CreateMacroCallsTree
    <2>4. ASSUME NEW c \in Call PROVE NumberUnused(c)' /\ ReadyAlone(c)'
      <3>1. NumberUnused(c) /\ ReadyAlone(c)
        BY DEF Numbered
      <3>2. CASE c \in Fresh(new)
        <4>1. /\ form[c] = "none" /\ children[c] = {} /\ form'[c] # "none"
              /\ status'[c] = FirstStatus(c, new, up, form')
          BY <2>2, <2>3, <3>2, GrowCases
        <4>2. children'[c] = children[c] \cup {d \in new : up[d] = c}
          BY <2>2 DEF Grow
        <4> QED
          BY <4>1, <4>2, FirstFacts DEF NumberUnused, ReadyAlone
      <3>3. CASE c \notin Fresh(new) /\ c \in Live
        <4>1. /\ form[c] # "none" /\ form'[c] \in {form[c], "badEscape"}
              /\ status'[c] \in {"SUCCESS", "REEVALFAILED", "REEVAL", "FINISH"}
          BY <2>2, <2>3, <3>3, GrowCases
        <4> QED
          BY <4>1 DEF NumberUnused, ReadyAlone
      <3>4. CASE c \notin Fresh(new) /\ c \notin Live
        <4>1. /\ form'[c] = form[c] /\ status'[c] = status[c]
              /\ children'[c] = children[c] /\ c \notin pMacroCalls'
          BY <2>2, <2>3, <3>4, GrowCases
        <4> QED
          BY <3>1, <4>1 DEF NumberUnused, ReadyAlone
      <3> QED
        BY <3>2, <3>3, <3>4
    <2>5. \A c \in pMacroCalls' : status'[c] # "FAIL"
      BY <2>2, GrowFacts
    <2> QED
      BY <2>3, <2>4, <2>5 DEF Numbered, SerialUnvisited
  <1>2. CASE EvalMacroCalls \/ ScanDone \/ SerialDone
    BY <1>2 DEF EvalMacroCalls, ScanDone, SerialDone, treeVars, AfterScan, LoopsApart,
                Numbered, NumberUnused, ReadyAlone, SerialUnvisited
  <1>3. ASSUME NEW c \in Call, ScanOver(c) \/ ScanStart(c) \/ ScanNoSlot(c)
        PROVE  Numbered'
    <2>1. /\ form' = form /\ children' = children /\ pMacroCalls' = pMacroCalls
          /\ pc' = "Scan" /\ c \in pMacroCalls /\ Parallel
          /\ \A d \in Call : d # c => status'[d] = status[d]
          /\ status'[c] \in {status[c], "EVAL", "FAIL", "SUCCESS"}
      BY <1>3, CheckFacts
      DEF ScanOver, ScanStart, ScanNoSlot, IsNext, TypeOK, LoopsApart, treeVars
    <2> QED
      BY <2>1 DEF Numbered, NumberUnused, ReadyAlone, SerialUnvisited
  <1>4. CASE Exchange \/ ExchangeFails
    <2>1. /\ form' = form /\ children' = children /\ pMacroCalls' = pMacroCalls
          /\ pc' \in {"Wait", "Free"} /\ Parallel
          /\ \A d \in Call : status'[d] = status[d]
                             \/ (status'[d] = "FAIL" /\ d \in pMacroCalls)
      BY <1>4 DEF Exchange, ExchangeFails, FailsWithServer, LoopsApart, TypeOK, treeVars
    <2> QED
      BY <2>1 DEF Numbered, NumberUnused, ReadyAlone, SerialUnvisited
  <1>5. ASSUME NEW c \in Call, Collect(c) PROVE Numbered'
    <2>1. /\ form' = form /\ children' = children /\ pMacroCalls' = pMacroCalls
          /\ pc' \in {"Scan", "Free"} /\ c \in pMacroCalls /\ Parallel
          /\ \A d \in Call : d # c => status'[d] = status[d]
          /\ status'[c] \in {"SUCCESS", "FAIL"}
      BY <1>5 DEF Collect, ResultStatus, TypeOK, treeVars
    <2> QED
      BY <2>1 DEF Numbered, NumberUnused, ReadyAlone, SerialUnvisited
  <1>6. ASSUME NEW c \in Call, Coroutine(c) PROVE Numbered'
    BY <1>6 DEF Coroutine, WriteTokens, SetDataReady, treeVars,
                Numbered, NumberUnused, ReadyAlone, SerialUnvisited
  <1>7. ASSUME NEW c \in Call, SerialTurn(c) PROVE Numbered'
    <2>1. /\ form' = form /\ children' = children /\ pMacroCalls' = pMacroCalls
          /\ toScan' = toScan \ {c} /\ evalMacCalls' \subseteq {c}
          /\ pc = "Serial" /\ pc' \in {"Serial", "Wait"} /\ c \in pMacroCalls
          /\ \A d \in Call : d # c => status'[d] = status[d]
          /\ status'[c] \in {status[c], "EVAL", "FAIL", "SUCCESS"}
      BY <1>7, CheckFacts DEF SerialTurn, IsNext, LoopsApart, TypeOK, treeVars
    <2>2. \A d \in Call : NumberUnused(d)' /\ ReadyAlone(d)'
      BY <2>1 DEF Numbered, NumberUnused, ReadyAlone
    <2>3. SerialUnvisited'
      BY <2>1 DEF Numbered, SerialUnvisited, TypeOK
    <2> QED
      BY <2>1, <2>2, <2>3 DEF Numbered
  <1>8. ASSUME NEW c \in Call, SerialResult(c) PROVE Numbered'
    <2>1. /\ form' = form /\ children' = children /\ pMacroCalls' = pMacroCalls
          /\ toScan' = toScan /\ evalMacCalls' = {} /\ c \in evalMacCalls
          /\ pc = "Wait" /\ pc' = "Serial" /\ c \in pMacroCalls /\ ~Parallel
          /\ \A d \in Call : d # c => status'[d] = status[d]
          /\ status'[c] \in {"SUCCESS", "FAIL"}
      BY <1>8 DEF SerialResult, ResultStatus, StatusWhenLost, TypeOK, treeVars
    <2>2. \A d \in Call : NumberUnused(d)' /\ ReadyAlone(d)'
      BY <2>1 DEF Numbered, NumberUnused, ReadyAlone
    <2>3. SerialUnvisited'
      BY <2>1 DEF Numbered, SerialUnvisited, TypeOK
    <2> QED
      BY <2>1, <2>2, <2>3 DEF Numbered
  <1>9. CASE FreeMacroCalls
    BY <1>9 DEF FreeMacroCalls, Numbered, NumberUnused, ReadyAlone, SerialUnvisited
  <1>10. CASE Spin \/ Finished \/ UNCHANGED vars
    BY <1>10 DEF Spin, Finished, vars, Numbered, NumberUnused, ReadyAlone, SerialUnvisited
  <1> QED
    BY <1>1, <1>2, <1>3, <1>4, <1>5, <1>6, <1>7, <1>8, <1>9, <1>10 DEF Next, Main

(***************************************************************************)
(* The scheduler implements MacroEvalOrder: each step moves every call     *)
(* from one phase to the next or leaves it where it is.                    *)
(***************************************************************************)
Phases == [c \in Call |-> Phase(c)]

\* The ways the phase of one call may change, as Order!Next lists them.
Moves(c) ==
    \/ Phase(c)' = Phase(c)
    \/ Phase(c) = "unborn" /\ Phase(c)' \in {"waiting", "failed"}
    \/ /\ Phase(c) = "waiting" /\ Phase(c)' = "running"
       /\ \A d \in children[c] : Phase(d) = "expanded"
    \/ Phase(c) = "running" /\ Phase(c)' \in {"expanded", "failed"}
    \/ Phase(c) = "waiting" /\ Phase(c)' = "expanded"
    \/ Phase(c) \in {"waiting", "expanded"} /\ Phase(c)' = "failed"

\* What the phases say of the variables.
LEMMA PhaseFacts ==
    ASSUME Control, Numbered, NEW c \in Call
    PROVE  /\ Phase(c) \in {"unborn", "waiting", "running", "expanded", "failed"}
           /\ Phase(c) = "running" <=> c \in evalMacCalls
           /\ c \in pMacroCalls => Phase(c) # "unborn"
           /\ Phase(c) = "unborn" => c \notin pMacroCalls /\ status[c] = "INIT"
           /\ c \in pMacroCalls /\ c \notin evalMacCalls =>
                 /\ status[c] = "FAIL" <=> Phase(c) = "failed"
                 /\ status[c] \in {"SUCCESS", "REEVAL"} <=> Phase(c) = "expanded"
                 /\ status[c] \in {"INIT", "READY", "EVAL", "ANNOTATION"}
                       <=> Phase(c) = "waiting"
  <1>1. NumberUnused(c) /\ evalMacCalls \subseteq pMacroCalls /\ status[c] \in Status
    BY DEF Numbered, Control, TypeOK
  <1>2. c \in pMacroCalls => status[c] \notin {"FINISH", "REEVALFAILED"}
    BY DEF Control, RunningLooksLikeIt
  <1> QED
    BY <1>1, <1>2 DEF NumberUnused, Phase, Status

\* A call that starts waits, and the calls below it are expanded.
LEMMA StartsInOrder ==
    ASSUME Control, Numbered, NEW c \in pMacroCalls, Starts(c)
    PROVE  /\ Phase(c) = "waiting"
           /\ \A d \in children[c] : Phase(d) = "expanded"
  <1>1. c \in Call /\ children[c] \subseteq Call
    BY DEF Control, TypeOK
  <1>2. status[c] = "READY" \/ (status[c] = "INIT" /\ AllChildrenSucceeded(c))
    BY <1>1, CheckFacts DEF Control
  <1>3. c \notin evalMacCalls
    BY <1>2 DEF Control, RunningLooksLikeIt
  <1>4. Phase(c) = "waiting"
    BY <1>1, <1>2, <1>3, PhaseFacts
  <1>5. ASSUME NEW d \in children[c] PROVE Phase(d) = "expanded"
    <2>1. status[d] = "SUCCESS"
      BY <1>2, <1>5, <1>1 DEF AllChildrenSucceeded, Numbered, ReadyAlone
    <2>2. NumberUnused(d) /\ d \notin evalMacCalls
      BY <1>1, <1>5, <2>1 DEF Numbered, Control, RunningLooksLikeIt
    <2> QED
      BY <2>1, <2>2 DEF NumberUnused, Phase
  <1> QED
    BY <1>4, <1>5

\* A step that changes the status of one call and runs none, and may end the run
\* of that call.
LEMMA OneCallMoves ==
    ASSUME Control, Control', Numbered, Numbered', NEW c \in Call, form' = form,
           \A d \in Call : d # c => status'[d] = status[d],
           \A d \in Call : d # c => (d \in evalMacCalls' <=> d \in evalMacCalls),
           NEW d \in Call, d # c
    PROVE  Phase(d)' = Phase(d)
  BY DEF Phase

LEMMA PhasesMove ==
    ASSUME Control, Control', Numbered, Numbered', [Next]_vars
    PROVE  \A c \in Call : Moves(c)
  <1>0. options' = options
    BY OptionsFixed
  <1> USE <1>0 DEF Parallel, ChildProcess
  <1>1. CASE CreateMacroCallsTree
    <2>1. PICK new \in SUBSET Unused(Live), bad \in SUBSET Live :
            \E up \in Trees(new), found \in [Fresh(new) -> Forms] :
              Grow(new, up, found, bad)
      BY <1>1 DEF CreateMacroCallsTree
    <2>2. PICK up \in Trees(new), found \in [Fresh(new) -> Forms] :
              Grow(new, up, found, bad)
      BY <2>1
    <2>3. pc = "Create" /\ evalMacCalls = {} /\ evalMacCalls' = {}
      BY <1>1 DEF CreateMacroCallsTree, Control, LoopsApart
    <2> SUFFICES ASSUME NEW c \in Call PROVE Moves(c)
      OBVIOUS
    <2>4. CASE c \in Fresh(new)
      <3>1. /\ form[c] = "none" /\ form'[c] # "none"
            /\ status'[c] = FirstStatus(c, new, up, form')
        BY <2>2, <2>3, <2>4, GrowCases DEF Control
      <3> QED
        BY <2>3, <3>1, FirstFacts DEF Moves, Phase
    <2>5. CASE c \notin Fresh(new) /\ c \in Live
      <3>1. /\ status[c] = "SUCCESS" /\ form[c] # "none" /\ form'[c] \in {form[c], "badEscape"}
            /\ status'[c] \in {"SUCCESS", "REEVALFAILED", "REEVAL", "FINISH"}
        BY <2>2, <2>3, <2>5, GrowCases DEF Control
      <3> QED
        BY <2>3, <3>1 DEF Moves, Phase
    <2>6. CASE c \notin Fresh(new) /\ c \notin Live
      <3>1. form'[c] = form[c] /\ status'[c] = status[c]
        BY <2>2, <2>3, <2>6, GrowCases DEF Control
      <3> QED
        BY <2>3, <3>1 DEF Moves, Phase
    <2> QED
      BY <2>4, <2>5, <2>6
  <1>2. CASE EvalMacroCalls \/ ScanDone \/ SerialDone \/ FreeMacroCalls
    BY <1>2 DEF EvalMacroCalls, ScanDone, SerialDone, FreeMacroCalls, treeVars, Moves, Phase
  <1>3. ASSUME NEW c \in Call, ScanOver(c) \/ ScanNoSlot(c) PROVE \A d \in Call : Moves(d)
    <2>1. /\ form' = form /\ evalMacCalls' = evalMacCalls /\ c \in pMacroCalls
          /\ pMacroCalls' = pMacroCalls
          /\ \A d \in Call : d # c => status'[d] = status[d]
      BY <1>3 DEF ScanOver, ScanNoSlot, IsNext, Control, TypeOK, treeVars
    <2>2. \A d \in Call : d # c => Moves(d)
      BY <2>1, OneCallMoves DEF Moves
    <2>3. status'[c] # status[c] => /\ status[c] # "FAIL" /\ c \notin evalMacCalls
                                    /\ status'[c] \in {"EVAL", "FAIL", "SUCCESS"}
                                    /\ status'[c] = "EVAL" => Starts(c)
      BY <1>3, CheckFacts
      DEF ScanOver, ScanNoSlot, Starts, Control, TypeOK, RunningLooksLikeIt
    <2>4. status[c] # "EVAL" /\ status'[c] = "EVAL" => Phase(c) = "waiting"
      BY <2>1, <2>3, StartsInOrder
    <2>5. Moves(c)
      BY <2>1, <2>3, <2>4 DEF Moves, Phase, Numbered, NumberUnused, Control, RunningLooksLikeIt
    <2> QED
      BY <2>2, <2>5
  <1>4. ASSUME NEW c \in Call, ScanStart(c) PROVE \A d \in Call : Moves(d)
    <2>1. /\ form' = form /\ evalMacCalls' = evalMacCalls \cup {c} /\ c \in pMacroCalls
          /\ pMacroCalls' = pMacroCalls /\ Starts(c)
          /\ \A d \in Call : d # c => status'[d] = status[d]
      BY <1>4 DEF ScanStart, IsNext, Control, TypeOK, treeVars
    <2>2. \A d \in Call : d # c => Moves(d)
      BY <2>1, OneCallMoves DEF Moves
    <2>3. Phase(c)' = "running"
      BY <2>1, PhaseFacts DEF Phase, Numbered, NumberUnused
    <2> QED
      BY <2>1, <2>2, <2>3, StartsInOrder DEF Moves
  <1>5. CASE Exchange
    BY <1>5 DEF Exchange, treeVars, Moves, Phase
  <1>6. CASE ExchangeFails
    <2> SUFFICES ASSUME NEW c \in Call PROVE Moves(c)
      OBVIOUS
    <2>1. form' = form /\ evalMacCalls' = {}
          /\ status'[c] = IF FailsWithServer(c) THEN "FAIL" ELSE status[c]
      BY <1>6 DEF ExchangeFails, treeVars
    <2>2. CASE FailsWithServer(c)
      BY <2>1, <2>2, PhaseFacts
      DEF FailsWithServer, Moves, Phase, Numbered, NumberUnused
    <2>3. CASE ~FailsWithServer(c)
      <3>1. c \notin evalMacCalls
        BY <2>3 DEF FailsWithServer, Control, TypeOK, RunningLooksLikeIt
      <3> QED
        BY <2>1, <2>3, <3>1 DEF Moves, Phase
    <2> QED
      BY <2>2, <2>3
  <1>7. ASSUME NEW c \in Call, Collect(c) \/ SerialResult(c) PROVE \A d \in Call : Moves(d)
    <2>1. /\ form' = form /\ evalMacCalls' = evalMacCalls \ {c} /\ c \in evalMacCalls
          /\ \A d \in Call : d # c => status'[d] = status[d]
          /\ status'[c] \in {"SUCCESS", "FAIL"}
      BY <1>7 DEF Collect, SerialResult, Erased, ResultStatus, StatusWhenLost, Control,
                  TypeOK, RunningLooksLikeIt, treeVars
    <2>2. \A d \in Call : d # c => Moves(d)
      BY <2>1, OneCallMoves DEF Moves
    <2>3. form[c] # "none"
      BY <2>1 DEF Control, TypeOK, Numbered, NumberUnused
    <2> QED
      BY <2>1, <2>2, <2>3 DEF Moves, Phase
  <1>8. ASSUME NEW c \in Call, Coroutine(c) PROVE \A d \in Call : Moves(d)
    BY <1>8 DEF Coroutine, WriteTokens, SetDataReady, treeVars, Moves, Phase
  <1>9. ASSUME NEW c \in Call, SerialTurn(c) PROVE \A d \in Call : Moves(d)
    <2>1. /\ form' = form /\ evalMacCalls = {} /\ c \in pMacroCalls /\ status[c] # "FAIL"
          /\ \A d \in Call : d # c => status'[d] = status[d]
          /\ status'[c] = StatusAfterCheck(c)
          /\ evalMacCalls' = IF Starts(c) THEN {c} ELSE {}
      BY <1>9 DEF SerialTurn, IsNext, Control, LoopsApart, TypeOK, Numbered,
                  SerialUnvisited, treeVars
    <2>2. \A d \in Call : d # c => Moves(d)
      BY <2>1, OneCallMoves DEF Moves
    <2>3. CASE Starts(c)
      <3>1. Phase(c)' = "running"
        BY <2>1, <2>3, PhaseFacts DEF Phase, Numbered, NumberUnused
      <3> QED
        BY <2>1, <2>2, <2>3, <3>1, StartsInOrder DEF Moves
    <2>4. CASE ~Starts(c)
      <3>1. status'[c] \in {status[c], "FAIL", "SUCCESS"}
        BY <2>1, <2>4, CheckFacts DEF Starts, Control
      <3> QED
        BY <2>1, <2>2, <2>4, <3>1
        DEF Moves, Phase, Numbered, NumberUnused, Control, RunningLooksLikeIt
    <2> QED
      BY <2>3, <2>4
  <1>10. CASE Spin \/ Finished \/ UNCHANGED vars
    BY <1>10 DEF Spin, Finished, vars, Moves, Phase
  <1> QED
    BY <1>1, <1>2, <1>3, <1>4, <1>5, <1>6, <1>7, <1>8, <1>9, <1>10 DEF Next, Main

\* The arguments of a running call are not touched.
LEMMA ChildrenKept ==
    ASSUME Control, [Next]_vars, NEW c \in evalMacCalls
    PROVE  children'[c] = children[c]
  BY DEF Control, LoopsApart, Next, Main, CreateMacroCallsTree, EvalMacroCalls, ScanOver,
         ScanStart, ScanNoSlot, ScanDone, Exchange, ExchangeFails, Collect, Spin, Coroutine,
         WriteTokens, SetDataReady, SerialTurn, SerialResult, SerialDone, FreeMacroCalls,
         Finished, treeVars, vars

FewRunning ==
    Cardinality({c \in Call : Phase(c) = "running"}) <= IF Parallel THEN ThreadNum ELSE 1

LEMMA FewRun == Control /\ Slotted /\ Numbered => FewRunning
  <1> SUFFICES ASSUME Control, Slotted, Numbered PROVE FewRunning
    OBVIOUS
  <1> USE DEF FewRunning
  <1>1. {c \in Call : Phase(c) = "running"} = evalMacCalls
    BY PhaseFacts DEF Control, TypeOK
  <1>2. CASE Parallel
    BY <1>1, <1>2 DEF Slotted, Room
  <1>3. CASE ~Parallel /\ evalMacCalls = {}
    BY <1>1, <1>3, FS_EmptySet
  <1>4. CASE ~Parallel /\ evalMacCalls # {}
    <2>1. PICK c : c \in evalMacCalls
      BY <1>4
    <2>2. evalMacCalls = {c}
      BY <1>4, <2>1 DEF Control, RunningLooksLikeIt
    <2>3. Cardinality({c}) = 1
      BY FS_Singleton
    <2> QED
      BY <1>1, <1>4, <2>2, <2>3
  <1> QED
    BY <1>2, <1>3, <1>4

\* What a macro author may rely on (MacroEvalOrder) is what EvalMacros does: each
\* call is invoked at most once and after the calls nested in it, its arguments
\* stay as they are while it runs, a failure is final, and the loop keeps to its
\* width.  The order in which the writes of a coroutine are seen does not matter.
THEOREM OrderCorrect == Spec => OrderSpec
  <1>1. Init => Order!Init
    BY ConstantsAssumption DEF Init, Order!Init, Phase, ConstantsAssumption
  <1>2. Control /\ Control' /\ Slotted' /\ Numbered /\ Numbered' /\ [Next]_vars
            => [Order!Next]_<<IF Parallel THEN ThreadNum ELSE 1, Phases, children>>
    <2> SUFFICES ASSUME Control, Control', Slotted', Numbered, Numbered', [Next]_vars
                 PROVE  Order!Next
      BY DEF Phases
    <2>1. [c \in Call |-> Phase(c)]' \in [Call -> {"unborn", "waiting", "running", "expanded", "failed"}]
      BY PhaseFacts DEF Phase
    <2>2. ASSUME NEW c \in Call
          PROVE  \/ [d \in Call |-> Phase(d)]'[c] = [d \in Call |-> Phase(d)][c]
                 \/ Order!Appears(c) \/ Order!Runs(c) \/ Order!Returns(c)
                 \/ Order!ExpandsInPlace(c) \/ Order!Fails(c)
      <3>1. Moves(c) /\ children[c] \subseteq Call
        BY PhasesMove DEF Control, TypeOK
      <3> QED
        BY <3>1 DEF Moves, Order!Appears, Order!Runs, Order!Returns, Order!ExpandsInPlace,
                    Order!Fails
    <2>3. \A c \in Call : [d \in Call |-> Phase(d)][c] = "running" => children'[c] = children[c]
      BY ChildrenKept, PhaseFacts
    <2>4. Cardinality({c \in Call : [d \in Call |-> Phase(d)]'[c] = "running"})
             <= (IF Parallel THEN ThreadNum ELSE 1)'
      <3>1. FewRunning'
        BY FewRun, PTL
      <3>2. {c \in Call : Phase(c)' = "running"}
               = {c \in Call : [d \in Call |-> Phase(d)]'[c] = "running"}
        OBVIOUS
      <3> QED
        BY <3>1, <3>2 DEF FewRunning
    <2>5. (IF Parallel THEN ThreadNum ELSE 1)' = IF Parallel THEN ThreadNum ELSE 1
      BY OptionsFixed DEF Parallel
    <2>6. \A S : Order!Cardinality(S) = Cardinality(S)
      BY DEF Order!Cardinality, Cardinality
    <2> QED
      BY <2>1, <2>2, <2>3, <2>4, <2>5, <2>6 DEF Order!Next
  <1> QED
    BY <1>1, <1>2, ControlInit, ControlStep, SlottedInit, SlottedStep, NumberedInit,
       NumberedStep, PTL DEF Spec, OrderSpec, Order!Spec, Phases

(***************************************************************************)
(* Fourth layer: the loss of the server.  A scan that finds nothing to run *)
(* and a serial pass have looked at every call of the pass before they     *)
(* end, in the order of the list, in which a call comes after its          *)
(* children: what is said of a call they have passed stays true.           *)
(***************************************************************************)
Decided(c) == status[c] \in {"SUCCESS", "FAIL"}

ChildrenBelow == \A c \in Call : \A d \in children[c] : d < c

ScanInOrder == \A c \in pMacroCalls \ toScan, d \in toScan : c < d

\* A call that was looked at and waits for one of its children.
Waits(c) ==
    /\ form[c] # "builtin"
    /\ status[c] \in {"INIT", "REEVAL", "ANNOTATION"}
    /\ \A d \in children[c] : status[d] # "FAIL" /\ d \notin evalMacCalls
    /\ \E d \in children[c] : ~Decided(d)

\* Why a call that was looked at is left as it is.
Accounted(c) ==
    \/ Decided(c) \/ c \in evalMacCalls \/ Waits(c)
    \/ /\ Parallel /\ srvLost /\ isThreadUseds = Slot
       /\ \E d \in pMacroCalls : d <= c /\ status[d] = "EVAL"

AllAccounted ==
    /\ (pc = "Scan" /\ evalMacCalls = {}) \/ (~Parallel /\ pc \in {"Serial", "Wait"}) =>
          \A c \in pMacroCalls \ toScan : Accounted(c)
    /\ (pc = "Free" /\ ~srvLost) => \A c \in pMacroCalls : Decided(c) \/ Waits(c)

NotMarked ==
    /\ pc = "Eval" => \A c \in pMacroCalls : status[c] # "EVAL"
    /\ (pc = "Scan" /\ srvLost) \/ (~Parallel /\ pc \in {"Serial", "Wait"}) =>
          \A c \in toScan : status[c] # "EVAL"

\* Once lost the server is not asked again.
LostForGood ==
    /\ pc = "Exchange" => ChildProcess
    /\ srvLost => ChildProcess /\ (Parallel => pc # "Wait")

Visited ==
    ChildrenBelow /\ ScanInOrder /\ AllAccounted /\ NotMarked /\ LostForGood /\ NothingDropped

LEMMA VisitedInit == Init => Visited
  BY DEF Init, Visited, ChildrenBelow, ScanInOrder, AllAccounted, NotMarked, LostForGood,
         NothingDropped

\* A scan goes on after the least of the calls it has still to visit.
LEMMA ScanForward ==
    ASSUME TypeOK, ScanInOrder, NEW c \in toScan, \A d \in toScan : c <= d,
           pMacroCalls' = pMacroCalls, toScan' = toScan \ {c} \/ toScan' = {}
    PROVE  ScanInOrder'
  <1> SUFFICES ASSUME NEW a \in pMacroCalls \ toScan', NEW d \in toScan' PROVE a < d
    BY DEF ScanInOrder
  <1>1. toScan' = toScan \ {c} /\ toScan \subseteq pMacroCalls /\ pMacroCalls \subseteq 1..N
    BY DEF TypeOK, Call
  <1>2. a \in Int /\ d \in Int /\ c \in Int /\ d \in toScan /\ d # c
    BY <1>1
  <1>3. CASE a = c
    BY <1>2, <1>3
  <1>4. CASE a # c
    BY <1>2, <1>4, <1>1 DEF ScanInOrder
  <1> QED
    BY <1>3, <1>4

\* The check decides a call, starts it, or finds a child that is not decided.
LEMMA CheckDecides ==
    ASSUME Control, NEW c \in pMacroCalls, status[c] # "EVAL"
    PROVE  \/ StatusAfterCheck(c) \in {"SUCCESS", "FAIL"}
           \/ Starts(c)
           \/ /\ StatusAfterCheck(c) = status[c] /\ status[c] \in {"INIT", "REEVAL", "ANNOTATION"}
              /\ form[c] # "builtin"
              /\ \A d \in children[c] : status[d] # "FAIL"
              /\ \E d \in children[c] : ~Decided(d)
  <1>1. c \in Call /\ status[c] \in Status /\ status[c] \notin {"FINISH", "REEVALFAILED"}
    BY DEF Control, TypeOK, RunningLooksLikeIt
  <1>2. ~SomeChildFailed(c) /\ ~AllChildrenSucceeded(c) =>
            /\ \A d \in children[c] : status[d] # "FAIL"
            /\ \E d \in children[c] : ~Decided(d)
    BY DEF SomeChildFailed, AllChildrenSucceeded, Decided
  <1> QED
    BY <1>1, <1>2 DEF StatusAfterCheck, Starts, Status

\* A step that decides, starts or leaves one call keeps what was said of those the
\* scan had passed before it.
LEMMA AccountedKept ==
    ASSUME ChildrenBelow, ScanInOrder, TypeOK,
           NEW c \in toScan, NEW d \in pMacroCalls \ toScan, Accounted(d),
           evalMacCalls = {}, evalMacCalls' \subseteq {c},
           UNCHANGED <<options, treeVars, pMacroCalls, srvLost, isThreadUseds>>,
           \A e \in Call : e # c => status'[e] = status[e]
    PROVE  Accounted(d)'
  <1>1. c \in Call /\ d \in Call /\ d < c /\ \A e \in Call : e <= d => e # c
    BY DEF ScanInOrder, TypeOK, Call
  <1>2. children[d] \subseteq Call /\ \A e \in children[d] : e # c
    BY <1>1 DEF ChildrenBelow, TypeOK, Call
  <1>3. status'[d] = status[d] /\ \A e \in children[d] : status'[e] = status[e]
    BY <1>1, <1>2
  <1>4. \A e \in pMacroCalls : e <= d => status'[e] = status[e]
    BY <1>1 DEF TypeOK
  <1> QED
    BY <1>2, <1>3, <1>4 DEF Accounted, Waits, Decided, Parallel, treeVars

\* The call itself once the scan has passed it.
LEMMA AccountedNow ==
    ASSUME ChildrenBelow, Control, NEW c \in toScan, status[c] # "EVAL",
           evalMacCalls = {}, UNCHANGED treeVars,
           status'[c] = StatusAfterCheck(c) \/ (status[c] = "FAIL" /\ status'[c] = "FAIL"),
           \A e \in Call : e # c => status'[e] = status[e],
           evalMacCalls' = IF Starts(c) THEN {c} ELSE {}
    PROVE  Accounted(c)'
  <1>1. c \in pMacroCalls /\ c \in Call /\ children[c] \subseteq Call
    BY DEF Control, TypeOK
  <1>2. CASE Starts(c)
    BY <1>2 DEF Accounted
  <1>3. CASE status'[c] \in {"SUCCESS", "FAIL"}
    BY <1>3 DEF Accounted, Decided
  <1>4. CASE /\ ~Starts(c) /\ StatusAfterCheck(c) = status[c]
             /\ status[c] \in {"INIT", "REEVAL", "ANNOTATION"} /\ form[c] # "builtin"
             /\ \A d \in children[c] : status[d] # "FAIL"
             /\ \E d \in children[c] : ~Decided(d)
    <2>1. status'[c] = status[c] /\ evalMacCalls' = {}
      BY <1>4
    <2>2. \A d \in children[c] : d \in Call /\ d # c
      BY <1>1 DEF ChildrenBelow, Call
    <2>3. \A d \in children'[c] : status'[d] = status[d]
      BY <2>2 DEF treeVars
    <2> QED
      BY <1>4, <2>1, <2>3 DEF Accounted, Waits, Decided, treeVars
  <1> QED
    BY <1>1, <1>2, <1>3, <1>4, CheckDecides

LEMMA VisitedStep ==
    ASSUME Control, Control', Slotted, Numbered, Visited, [Next]_vars
    PROVE  Visited'
  <1>0. options' = options
    BY OptionsFixed
  <1> USE <1>0 DEF Parallel, ChildProcess, treeVars
  <1>1. CASE CreateMacroCallsTree
    <2>1. PICK new \in SUBSET Unused(Live), bad \in SUBSET Live :
            \E up \in Trees(new), found \in [Fresh(new) -> Forms] :
              Grow(new, up, found, bad)
      BY <1>1 DEF CreateMacroCallsTree
    <2>2. PICK up \in Trees(new), found \in [Fresh(new) -> Forms] :
              Grow(new, up, found, bad)
      BY <2>1
    <2>3. pc = "Create" /\ pc' \in {"Done", "Eval"} /\ toScan' = {} /\ srvLost' = srvLost
      BY <1>1 DEF CreateMacroCallsTree, Control, LoopsApart
    <2>4. ChildrenBelow'
      BY <2>2 DEF Grow, Trees, Visited, ChildrenBelow
    <2>5. ASSUME NEW c \in pMacroCalls' PROVE status'[c] # "EVAL"
      <3>1. c \in Call
        BY <2>2, GrowFacts DEF Control
      <3>2. CASE c \in Fresh(new)
        <4>1. status'[c] = FirstStatus(c, new, up, form')
          BY <2>2, <2>3, <3>1, <3>2, GrowCases DEF Control
        <4> QED
          BY <4>1, FirstFacts
      <3>3. CASE c \notin Fresh(new)
        <4>1. status'[c] \in {"SUCCESS", "REEVALFAILED", "REEVAL", "FINISH"}
          BY <2>2, <2>3, <3>1, <3>3, <2>5, GrowCases DEF Control
        <4> QED
          BY <4>1
      <3> QED
        BY <3>2, <3>3
    <2> QED
      BY <2>3, <2>4, <2>5
      DEF Visited, ScanInOrder, AllAccounted, NotMarked, LostForGood, NothingDropped
  <1>2. CASE EvalMacroCalls
    <2>1. /\ UNCHANGED <<treeVars, status, pMacroCalls, srvLost>> /\ toScan' = pMacroCalls
          /\ pc = "Eval" /\ pc' \in {"Free", "Scan", "Serial"}
          /\ pc' = "Free" => pMacroCalls = {}
      BY <1>2 DEF EvalMacroCalls, treeVars
    <2> QED
      BY <2>1 DEF Visited, ChildrenBelow, ScanInOrder, AllAccounted, NotMarked, LostForGood,
                  NothingDropped
  <1>3. ASSUME NEW c \in Call, ScanOver(c) PROVE Visited'
    <2>1. /\ UNCHANGED <<treeVars, pMacroCalls, srvLost, isThreadUseds, evalMacCalls>>
          /\ toScan' = toScan \ {c} /\ pc = "Scan" /\ pc' = "Scan" /\ c \in toScan
          /\ \A d \in toScan : c <= d
          /\ \A e \in Call : e # c => status'[e] = status[e]
      BY <1>3 DEF ScanOver, IsNext, Control, TypeOK, treeVars, slotVars
    <2>2. status'[c] = StatusAfterCheck(c) \/ (status[c] = "FAIL" /\ status'[c] = "FAIL")
      BY <1>3 DEF ScanOver, Control, TypeOK
    <2>3. toScan \subseteq pMacroCalls /\ pMacroCalls \subseteq Call
      BY DEF Control, TypeOK
    <2>4. ScanInOrder'
      BY <2>1, ScanForward DEF Visited, Control
    <2>5. ASSUME evalMacCalls = {}, NEW d \in pMacroCalls \ (toScan \ {c}) PROVE Accounted(d)'
      <3>1. CASE d # c
        BY <2>1, <2>5, <3>1, AccountedKept DEF Visited, AllAccounted, Control
      <3>2. status[c] # "EVAL"
        <4>1. CASE srvLost
          BY <2>1, <4>1 DEF Visited, NotMarked
        <4>2. CASE ~srvLost
          BY <2>1, <2>3, <2>5, <4>2 DEF Slotted, EvalIsRunning
        <4> QED
          BY <4>1, <4>2
      <3>3. CASE d = c
        <4>1. ~Starts(c)
          BY <1>3, <2>3, CheckFacts DEF ScanOver, Control
        <4> QED
          BY <2>1, <2>5, <2>2, <3>2, <3>3, <4>1, AccountedNow DEF Visited
      <3> QED
        BY <3>1, <3>3
    <2>6. AllAccounted' /\ NotMarked'
      <3>1. pc' = "Scan" /\ Parallel
        BY <2>1 DEF Control, LoopsApart
      <3> QED
        BY <2>1, <2>3, <2>5, <3>1 DEF Visited, AllAccounted, NotMarked
    <2> QED
      BY <2>1, <2>4, <2>6 DEF Visited, ChildrenBelow, LostForGood, NothingDropped
  <1>4. ASSUME NEW c \in Call, ScanStart(c) PROVE Visited'
    <2>1. /\ UNCHANGED <<treeVars, pMacroCalls, srvLost>> /\ evalMacCalls' # {}
          /\ toScan' = {} \/ toScan' = toScan \ {c}
          /\ pc = "Scan" /\ pc' = "Scan" /\ c \in toScan
          /\ \A d \in toScan : c <= d
          /\ \A e \in Call : e # c => status'[e] = status[e]
      BY <1>4 DEF ScanStart, IsNext, Control, TypeOK, treeVars
    <2>2. toScan \subseteq pMacroCalls /\ pMacroCalls \subseteq Call
      BY DEF Control, TypeOK
    <2>3. ScanInOrder'
      BY <2>1, ScanForward DEF Visited, Control
    <2>4. pc' = "Scan" /\ Parallel
      BY <2>1 DEF Control, LoopsApart
    <2> QED
      BY <2>1, <2>2, <2>3, <2>4
      DEF Visited, ChildrenBelow, LostForGood, NothingDropped, AllAccounted, NotMarked
  <1>5. ASSUME NEW c \in Call, ScanNoSlot(c) PROVE Visited'
    <2>1. /\ UNCHANGED <<treeVars, pMacroCalls, srvLost, isThreadUseds, evalMacCalls>>
          /\ toScan' = {} /\ pc = "Scan" /\ pc' = "Scan" /\ c \in toScan
          /\ \A d \in toScan : c <= d
          /\ \A e \in Call : e # c => status'[e] = status[e]
          /\ status'[c] = "EVAL" /\ FreeSlots = {} /\ Parallel
      BY <1>5 DEF ScanNoSlot, IsNext, Control, TypeOK, LoopsApart, treeVars, slotVars
    <2>2. toScan \subseteq pMacroCalls /\ pMacroCalls \subseteq Call
      BY DEF Control, TypeOK
    <2>3. isThreadUseds = Slot
      BY <2>1 DEF FreeSlots, Control, TypeOK
    <2>4. ASSUME evalMacCalls = {}, NEW d \in pMacroCalls PROVE Accounted(d)'
      <3>1. CASE d \notin toScan
        BY <2>1, <2>4, <3>1, AccountedKept DEF Visited, AllAccounted, Control
      <3>2. CASE d \in toScan
        <4>1. srvLost
          <5>1. CASE ~srvLost
            <6>1. ThreadNum <= Cardinality(evalMacCalls) /\ ThreadNum \in Nat \ {0}
              BY <2>1, <5>1, FullMeansBusy, ConstantsAssumption
              DEF Control, Slotted, ConstantsAssumption
            <6> QED
              BY <2>4, <6>1, FS_EmptySet
          <5> QED
            BY <5>1
        <4>2. c \in pMacroCalls /\ c <= d
          BY <2>1, <2>2, <3>2
        <4> QED
          BY <2>1, <2>3, <4>1, <4>2 DEF Accounted
      <3> QED
        BY <3>1, <3>2
    <2>5. AllAccounted'
      BY <2>1, <2>4 DEF AllAccounted
    <2> QED
      BY <2>1, <2>5
      DEF Visited, ChildrenBelow, ScanInOrder, LostForGood, NothingDropped, NotMarked
  <1>6. CASE ScanDone
    <2>1. /\ UNCHANGED <<treeVars, status, pMacroCalls, srvLost, isThreadUseds, evalMacCalls, toScan>>
          /\ toScan = {} /\ pc = "Scan" /\ Parallel
          /\ pc' = IF evalMacCalls = {} THEN "Free" ELSE IF ChildProcess THEN "Exchange" ELSE "Wait"
      BY <1>6 DEF ScanDone, AfterScan, Control, LoopsApart, treeVars, slotVars
    <2>2. CASE evalMacCalls = {}
      <3>1. \A c \in pMacroCalls : Accounted(c) /\ c \in Call
        BY <2>1, <2>2 DEF Visited, AllAccounted, Control, TypeOK
      <3>2. AllAccounted'
        BY <2>1, <2>2, <3>1 DEF AllAccounted, Accounted, Waits, Decided
      <3>3. ASSUME NEW c \in pMacroCalls, ~Decided(c), ~Waits(c),
                   ~(status[c] = "EVAL" /\ srvLost /\ isThreadUseds = Slot)
            PROVE  isThreadUseds = Slot /\ srvLost
                   /\ \E d \in pMacroCalls : d < c /\ status[d] = "EVAL"
        BY <2>2, <3>1, <3>3 DEF Accounted, Call
      <3>4. NothingDropped'
        BY <2>1, <3>3 DEF NothingDropped, Waits, Decided
      <3> QED
        BY <2>1, <2>2, <3>2, <3>4
        DEF Visited, ChildrenBelow, ScanInOrder, NotMarked, LostForGood
    <2>3. CASE evalMacCalls # {}
      BY <2>1, <2>3 DEF Visited, ChildrenBelow, ScanInOrder, AllAccounted, NotMarked,
                        LostForGood, NothingDropped
    <2> QED
      BY <2>2, <2>3
  <1>7. CASE Exchange
    <2>1. UNCHANGED <<treeVars, pMacroCalls, srvLost, toScan>> /\ toScan = {} /\ ~srvLost
          /\ pc' = "Wait" /\ Parallel
      BY <1>7 DEF Exchange, Control, LoopsApart, treeVars
    <2> QED
      BY <2>1 DEF Visited, ChildrenBelow, ScanInOrder, AllAccounted, NotMarked, LostForGood,
                  NothingDropped
  <1>8. CASE ExchangeFails
    <2>1. /\ UNCHANGED <<treeVars, pMacroCalls, toScan>> /\ toScan = {} /\ pc' = "Free"
          /\ pc = "Exchange" /\ Parallel
          /\ \A c \in Call : status'[c] = IF FailsWithServer(c) THEN "FAIL" ELSE status[c]
          /\ pMacroCalls \subseteq Call
      BY <1>8 DEF ExchangeFails, Control, LoopsApart, TypeOK, treeVars
    <2>2. \A c \in pMacroCalls : status'[c] \in {"SUCCESS", "FAIL"}
      BY <2>1 DEF FailsWithServer, Control, RunningLooksLikeIt
    <2>3. NothingDropped'
      BY <2>1, <2>2 DEF NothingDropped
    <2>4. srvLost'
      BY <1>8 DEF ExchangeFails
    <2>5. LostForGood'
      BY <1>8 DEF ExchangeFails, Visited, LostForGood
    <2> QED
      BY <2>1, <2>3, <2>4, <2>5 DEF Visited, ChildrenBelow, ScanInOrder, AllAccounted, NotMarked
  <1>9. ASSUME NEW c \in Call, Collect(c) PROVE Visited'
    <2>1. /\ UNCHANGED <<treeVars, pMacroCalls, srvLost>> /\ c \in evalMacCalls /\ pc = "Wait"
          /\ Parallel /\ toScan' = (IF pc' = "Scan" THEN pMacroCalls ELSE toScan)
          /\ pc' = IF needEvalMacCalls - 1 > 0 THEN "Scan" ELSE "Free"
          /\ \A e \in Call : e # c => status'[e] = status[e]
          /\ status'[c] \in {"SUCCESS", "FAIL"}
      BY <1>9 DEF Collect, ResultStatus, Control, TypeOK, treeVars
    <2>2. ~srvLost
      BY <2>1 DEF Visited, LostForGood
    <2>3. toScan = {}
      BY <2>1 DEF Control, LoopsApart
    <2>4. ASSUME pc' = "Free", NEW d \in pMacroCalls PROVE status'[d] \in {"SUCCESS", "FAIL"}
      <3>1. Undecided \in SUBSET Call /\ c \in Undecided /\ {c} \in SUBSET Undecided
        BY <2>1 DEF Undecided, Control, TypeOK
      <3>2. Cardinality(Undecided) <= needEvalMacCalls /\ needEvalMacCalls \in Int
            /\ Cardinality(Undecided) \in Nat
        BY <2>1, <3>1, CallsFinite DEF Control, Counted, TypeOK
      <3>3. ~(1 < Cardinality(Undecided))
        BY <2>1, <2>4, <3>2
      <3>4. {c} = Undecided
        <4>1. {c} = Undecided \/ Cardinality({c}) < Cardinality(Undecided)
          BY <3>1, SubsetCounts
        <4>2. Cardinality({c}) = 1
          BY FS_Singleton
        <4> QED
          BY <3>3, <4>1, <4>2
      <3>5. d # c => status[d] \in {"SUCCESS", "FAIL"} /\ d \in Call
        BY <3>4 DEF Undecided, Control, TypeOK
      <3> QED
        BY <2>1, <3>5
    <2>5. NothingDropped'
      BY <2>1, <2>4 DEF NothingDropped
    <2>6. AllAccounted'
      BY <2>1, <2>3, <2>4 DEF AllAccounted, Decided
    <2> QED
      BY <2>1, <2>2, <2>3, <2>5, <2>6
      DEF Visited, ChildrenBelow, ScanInOrder, NotMarked, LostForGood
  <1>10. ASSUME NEW c \in Call, Coroutine(c) PROVE Visited'
    BY <1>10 DEF Coroutine, WriteTokens, SetDataReady, treeVars, slotVars, Visited,
                 ChildrenBelow, ScanInOrder, AllAccounted, Accounted, Waits, Decided, NotMarked,
                 LostForGood, NothingDropped
  <1>11. ASSUME NEW c \in Call, SerialTurn(c) PROVE Visited'
    <2>1. /\ UNCHANGED <<treeVars, pMacroCalls, srvLost, isThreadUseds>> /\ evalMacCalls = {}
          /\ toScan' = toScan \ {c} /\ pc = "Serial" /\ ~Parallel /\ c \in toScan
          /\ pc' = (IF Starts(c) THEN "Wait" ELSE "Serial")
          /\ \A d \in toScan : c <= d
          /\ \A e \in Call : e # c => status'[e] = status[e]
          /\ status'[c] = StatusAfterCheck(c)
          /\ evalMacCalls' = IF Starts(c) THEN {c} ELSE {}
      BY <1>11 DEF SerialTurn, IsNext, Control, TypeOK, LoopsApart, treeVars, slotVars
    <2>2. toScan \subseteq pMacroCalls /\ pMacroCalls \subseteq Call
      BY DEF Control, TypeOK
    <2>3. ScanInOrder'
      BY <2>1, ScanForward DEF Visited, Control
    <2>4. ASSUME NEW d \in pMacroCalls \ (toScan \ {c}) PROVE Accounted(d)'
      <3>1. CASE d # c
        BY <2>1, <2>4, <3>1, AccountedKept DEF Visited, AllAccounted, Control
      <3>2. CASE d = c
        BY <2>1, <3>2, AccountedNow DEF Visited, NotMarked
      <3> QED
        BY <3>1, <3>2
    <2> QED
      BY <2>1, <2>2, <2>3, <2>4
      DEF Visited, ChildrenBelow, AllAccounted, NotMarked, LostForGood, NothingDropped
  <1>12. ASSUME NEW c \in Call, SerialResult(c) PROVE Visited'
    <2>1. /\ UNCHANGED <<treeVars, pMacroCalls, isThreadUseds, toScan>>
          /\ evalMacCalls' = {} /\ pc' = "Serial" /\ pc = "Wait" /\ ~Parallel
          /\ \A e \in Call : e # c => status'[e] = status[e]
          /\ status'[c] \in {"SUCCESS", "FAIL"} /\ c \in evalMacCalls
          /\ srvLost' = srvLost \/ (srvLost' /\ ChildProcess)
      BY <1>12 DEF SerialResult, ResultStatus, StatusWhenLost, Control, TypeOK, treeVars,
                   slotVars
    <2>2. evalMacCalls = {c} /\ c \notin toScan
      BY <2>1 DEF Control, RunningLooksLikeIt, Numbered, SerialUnvisited
    <2>3. /\ pMacroCalls \subseteq Call /\ toScan \subseteq Call
          /\ \A d \in pMacroCalls : children[d] \subseteq Call
      BY DEF Control, TypeOK
    <2>4. ASSUME NEW d \in pMacroCalls \ toScan PROVE Accounted(d)'
      <3>1. Accounted(d)
        BY <2>1 DEF Visited, AllAccounted
      <3>2. CASE Decided(d) \/ d \in evalMacCalls
        <4>1. d = c \/ (d # c /\ Decided(d))
          BY <2>2, <3>2
        <4> QED
          BY <2>1, <2>3, <4>1 DEF Accounted, Decided
      <3>3. CASE Waits(d) /\ d \notin evalMacCalls
        <4>1. status'[d] = status[d] /\ \A e \in children[d] : status'[e] = status[e]
          BY <2>1, <2>2, <2>3, <3>3 DEF Waits
        <4> QED
          BY <2>1, <3>3, <4>1 DEF Accounted, Waits, Decided, treeVars
      <3> QED
        BY <2>1, <3>1, <3>2, <3>3 DEF Accounted
    <2> QED
      BY <2>1, <2>2, <2>3, <2>4
      DEF Visited, ChildrenBelow, ScanInOrder, AllAccounted, NotMarked, LostForGood,
          NothingDropped
  <1>13. CASE SerialDone
    <2>1. /\ UNCHANGED <<treeVars, status, pMacroCalls, srvLost, evalMacCalls, toScan>>
          /\ toScan = {} /\ pc = "Serial" /\ ~Parallel /\ pc' = "Free" /\ evalMacCalls = {}
      BY <1>13 DEF SerialDone, Control, LoopsApart, treeVars
    <2>2. \A c \in pMacroCalls : Decided(c) \/ Waits(c)
      BY <2>1 DEF Visited, AllAccounted, Accounted
    <2>3. NothingDropped' /\ AllAccounted'
      BY <2>1, <2>2 DEF NothingDropped, AllAccounted, Waits, Decided
    <2> QED
      BY <2>1, <2>3 DEF Visited, ChildrenBelow, ScanInOrder, NotMarked, LostForGood
  <1>14. CASE FreeMacroCalls
    <2>1. /\ \A c \in Call : children'[c] \subseteq children[c]
          /\ toScan' = {} /\ pc' = "Create" /\ srvLost' = srvLost
      BY <1>14 DEF FreeMacroCalls
    <2> QED
      BY <2>1 DEF Visited, ChildrenBelow, ScanInOrder, AllAccounted, NotMarked, LostForGood,
                  NothingDropped
  <1>15. CASE Spin \/ Finished \/ UNCHANGED vars
    BY <1>15 DEF Spin, Finished, vars, Visited, ChildrenBelow, ScanInOrder, AllAccounted,
                 Accounted, Waits, Decided, NotMarked, LostForGood, NothingDropped
  <1> QED
    BY <1>1, <1>2, <1>3, <1>4, <1>5, <1>6, <1>7, <1>8, <1>9, <1>10, <1>11, <1>12, <1>13,
       <1>14, <1>15 DEF Next, Main

\* When EvalMacroCallsOnMultiThread loses the server, and when a loop ends on its own,
\* every call of the pass is decided, waits for one that is not, or was found ready
\* while the calls running at the loss held every slot.
THEOREM DroppedCorrect == Spec => []NothingDropped
  <1>1. Visited => NothingDropped
    BY DEF Visited
  <1> QED
    BY <1>1, ControlInit, ControlStep, SlottedInit, SlottedStep, NumberedInit, NumberedStep,
       VisitedInit, VisitedStep, PTL DEF Spec

(***************************************************************************)
(* Fifth layer: what a call has when it carries a status, for a run in    *)
(* which the writes of a coroutine are seen in order (a serial evaluation, *)
(* or a machine with a strong memory model).                               *)
(***************************************************************************)
SeenInOrder == ~(WeakMemory /\ Parallel)

UserMacro == {"ok", "evalFail", "parseFail"}

StatusExplained(c) ==
    /\ status[c] = "READY" => form[c] # "parseFail"
    /\ status[c] = "ANNOTATION" => form[c] = "annotation"
    /\ (status[c] \in {"SUCCESS", "REEVAL"} /\ form[c] \in UserMacro) =>
          form[c] = "ok" /\ c \in tokensWritten

Expanded ==
    /\ isDataReady \subseteq tokensWritten
    /\ \A c \in Call : StatusExplained(c)
    /\ \A c \in evalMacCalls : form[c] # "parseFail"
    /\ ArgumentsComplete

LEMMA ExpandedInit == Init => Expanded
  <1> SUFFICES ASSUME Init PROVE Expanded
    OBVIOUS
  <1>1. /\ isDataReady = {} /\ evalMacCalls = {} /\ pMacroCalls = {}
        /\ \A c \in Call : form[c] = "none" /\ status[c] = "INIT" /\ children[c] = {}
    BY DEF Init
  <1> QED
    BY <1>1 DEF Expanded, StatusExplained, UserMacro, ArgumentsComplete

LEMMA GrowExpanded ==
    ASSUME TypeOK, Numbered, Expanded, pc = "Create",
           NEW new \in SUBSET Unused(Live), NEW bad \in SUBSET Live,
           NEW up \in Trees(new), NEW found \in [Fresh(new) -> Forms],
           Grow(new, up, found, bad), tokensWritten' = tokensWritten
    PROVE  \A c \in Call : StatusExplained(c)'
  <1> SUFFICES ASSUME NEW c \in Call PROVE StatusExplained(c)'
    OBVIOUS
  <1>1. StatusExplained(c)
    BY DEF Expanded
  <1>2. CASE c \in Fresh(new)
    <2>1. status'[c] = FirstStatus(c, new, up, form')
      BY <1>2, GrowCases
    <2>2. form'[c] = "parseFail" => \E d \in new : up[d] = c
      BY <1>2, ConstantsAssumption DEF Grow, FormsFit, Fresh, Live, ConstantsAssumption
    <2> QED
      BY <2>1, <2>2, FirstFacts DEF StatusExplained
  <1>3. CASE c \notin Fresh(new) /\ c \in Live
    <2>1. /\ status[c] = "SUCCESS" /\ form'[c] \in {form[c], "badEscape"}
          /\ status'[c] \in {"SUCCESS", "REEVALFAILED", "REEVAL", "FINISH"}
      BY <1>3, GrowCases
    <2> QED
      BY <1>1, <2>1 DEF StatusExplained, UserMacro
  <1>4. CASE c \notin Fresh(new) /\ c \notin Live
    BY <1>1, <1>4, GrowCases DEF StatusExplained
  <1> QED
    BY <1>2, <1>3, <1>4

\* What the check makes of a call keeps its explanation.
LEMMA CheckExplained ==
    ASSUME TypeOK, Expanded, NEW c \in Call
    PROVE  LET s == StatusAfterCheck(c)
           IN /\ s = "READY" => status[c] = "READY"
              /\ s = "ANNOTATION" => status[c] = "ANNOTATION"
              /\ s = "REEVAL" => status[c] = "REEVAL"
              /\ (s = "SUCCESS" /\ form[c] \in UserMacro) =>
                    form[c] = "ok" /\ c \in tokensWritten
  BY CheckFacts DEF Expanded, StatusExplained, UserMacro

\* A call that starts has the results of its children.
LEMMA StartComplete ==
    ASSUME TypeOK, Numbered, Expanded, NEW c \in Call, Starts(c)
    PROVE  /\ form[c] # "parseFail"
           /\ \A d \in children[c] :
                 /\ status[d] = "SUCCESS"
                 /\ form[d] \in {"ok", "evalFail"} => d \in tokensWritten
  <1>1. status[c] = "READY" \/ (status[c] = "INIT" /\ AllChildrenSucceeded(c) /\ form[c] # "parseFail")
    BY CheckFacts
  <1>2. CASE status[c] = "READY"
    BY <1>2 DEF Numbered, ReadyAlone, Expanded, StatusExplained
  <1>3. CASE AllChildrenSucceeded(c) /\ form[c] # "parseFail"
    BY <1>3 DEF AllChildrenSucceeded, Expanded, StatusExplained, UserMacro, TypeOK
  <1> QED
    BY <1>1, <1>2, <1>3

LEMMA ExpandedStep ==
    ASSUME SeenInOrder, Control, Control', Numbered, Expanded, [Next]_vars
    PROVE  Expanded'
  <1>0. options' = options
    BY OptionsFixed
  <1> USE <1>0 DEF Control, Parallel
  <1>1. CASE CreateMacroCallsTree
    <2>1. PICK new \in SUBSET Unused(Live), bad \in SUBSET Live :
            \E up \in Trees(new), found \in [Fresh(new) -> Forms] :
              Grow(new, up, found, bad)
      BY <1>1 DEF CreateMacroCallsTree
    <2>2. pc = "Create" /\ tokensWritten' = tokensWritten /\ isDataReady' = isDataReady
          /\ evalMacCalls' = {} /\ pc' # "Create"
      BY <1>1 DEF CreateMacroCallsTree, LoopsApart, dataVars
    <2>3. \A c \in Call : StatusExplained(c)'
      BY <2>1, <2>2, GrowExpanded
    <2> QED
      BY <2>2, <2>3 DEF Expanded, ArgumentsComplete
  <1>2. CASE EvalMacroCalls \/ ScanDone \/ SerialDone
    BY <1>2 DEF EvalMacroCalls, ScanDone, SerialDone, treeVars, dataVars, Expanded,
                AfterScan, StatusExplained, ArgumentsComplete
  <1>3. ASSUME NEW c \in Call, ScanOver(c) PROVE Expanded'
    <2>1. /\ form' = form /\ children' = children /\ tokensWritten' = tokensWritten
          /\ isDataReady' = isDataReady /\ evalMacCalls' = evalMacCalls
          /\ pMacroCalls' = pMacroCalls /\ pc' = "Scan" /\ c \in pMacroCalls
          /\ \A d \in Call : d # c => status'[d] = status[d]
          /\ status'[c] = status[c] \/ status'[c] = StatusAfterCheck(c)
      BY <1>3 DEF ScanOver, IsNext, TypeOK, treeVars, dataVars
    <2>2. \A d \in Call : StatusExplained(d)'
      BY <2>1, CheckExplained DEF Expanded, StatusExplained, UserMacro
    <2>3. \A d \in Call : status[d] = "SUCCESS" => status'[d] = "SUCCESS"
      BY <2>1, CheckFacts
    <2>4. ArgumentsComplete'
      BY <2>1, <2>3 DEF Expanded, ArgumentsComplete, TypeOK
    <2> QED
      BY <2>1, <2>2, <2>4 DEF Expanded
  <1>4. ASSUME NEW c \in Call, ScanStart(c) \/ ScanNoSlot(c) PROVE Expanded'
    <2>1. /\ form' = form /\ children' = children /\ tokensWritten' = tokensWritten
          /\ isDataReady' = isDataReady /\ evalMacCalls' \subseteq evalMacCalls \cup {c}
          /\ pMacroCalls' = pMacroCalls /\ pc' = "Scan" /\ c \in pMacroCalls
          /\ status' = [status EXCEPT ![c] = "EVAL"] /\ Starts(c)
      BY <1>4 DEF ScanStart, ScanNoSlot, IsNext, TypeOK, treeVars, dataVars
    <2>2. \A d \in Call : StatusExplained(d)'
      BY <2>1 DEF Expanded, StatusExplained, TypeOK
    <2>3. status[c] # "SUCCESS"
      BY <2>1, CheckFacts
    <2>4. \A d \in Call : status[d] = "SUCCESS" => status'[d] = "SUCCESS"
      BY <2>1, <2>3 DEF TypeOK
    <2>5. ArgumentsComplete'
      BY <2>1, <2>4, StartComplete DEF Expanded, ArgumentsComplete, TypeOK
    <2>6. form[c] # "parseFail"
      BY <2>1, StartComplete
    <2> QED
      BY <2>1, <2>2, <2>5, <2>6 DEF Expanded
  <1>5. CASE Exchange
    <2>1. /\ form' = form /\ children' = children /\ tokensWritten \subseteq tokensWritten'
          /\ isDataReady' \subseteq tokensWritten' /\ evalMacCalls' = evalMacCalls
          /\ pMacroCalls' = pMacroCalls /\ pc' = "Wait"
          /\ \A d \in Call : status'[d] = status[d]
                             \/ (status'[d] = "FAIL" /\ d \in evalMacCalls)
      BY <1>5 DEF Exchange, Expanded, treeVars
    <2>2. \A d \in Call : StatusExplained(d)'
      BY <2>1 DEF Expanded, StatusExplained, TypeOK
    <2>3. \A d \in Call : status[d] = "SUCCESS" => status'[d] = "SUCCESS"
      BY <2>1 DEF RunningLooksLikeIt
    <2>4. ArgumentsComplete'
      BY <2>1, <2>3 DEF Expanded, ArgumentsComplete, TypeOK
    <2> QED
      BY <2>1, <2>2, <2>4 DEF Expanded
  <1>6. CASE ExchangeFails
    <2>1. \A d \in Call : status'[d] = status[d]
                          \/ (status'[d] = "FAIL" /\ d \in pMacroCalls)
      BY <1>6 DEF ExchangeFails, FailsWithServer
    <2> QED
      BY <1>6, <2>1 DEF ExchangeFails, Expanded, StatusExplained,
                        ArgumentsComplete, treeVars, dataVars
  <1>7. ASSUME NEW c \in Call, Collect(c) \/ SerialResult(c) PROVE Expanded'
    <2>1. /\ form' = form /\ children' = children /\ tokensWritten \subseteq tokensWritten'
          /\ isDataReady' \subseteq tokensWritten' /\ evalMacCalls' \subseteq evalMacCalls \ {c}
          /\ pMacroCalls' = pMacroCalls /\ pc' # "Create" /\ c \in evalMacCalls
          /\ \A d \in Call : d # c => status'[d] = status[d]
      BY <1>7 DEF Collect, SerialResult, Erased, Expanded, treeVars, dataVars,
                  TypeOK, RunningLooksLikeIt
    <2>2. /\ status'[c] \in {"SUCCESS", "FAIL"}
          /\ status'[c] = "SUCCESS" => form[c] # "evalFail" /\ c \in tokensWritten'
      <3>1. CASE status' = [status EXCEPT ![c] = ResultStatus(c)]
                /\ c \in tokensWritten /\ tokensWritten' = tokensWritten
        BY <3>1 DEF ResultStatus, TypeOK
      <3>2. CASE Collect(c)
        BY <3>1, <3>2 DEF Collect, Expanded, dataVars
      <3>3. CASE SerialResult(c)
        BY <3>1, <3>3 DEF SerialResult, StatusWhenLost, Expanded, TypeOK, dataVars
      <3> QED
        BY <1>7, <3>2, <3>3
    <2>3. form[c] # "parseFail" /\ c \in pMacroCalls
      BY <2>1 DEF Expanded, TypeOK
    <2>4. \A d \in Call : StatusExplained(d)'
      BY <2>1, <2>2, <2>3 DEF Expanded, StatusExplained, UserMacro
    <2>5. \A d \in Call : status[d] = "SUCCESS" => status'[d] = "SUCCESS"
      BY <2>1 DEF RunningLooksLikeIt
    <2>6. ArgumentsComplete'
      BY <2>1, <2>5 DEF Expanded, ArgumentsComplete, TypeOK
    <2> QED
      BY <2>1, <2>4, <2>6 DEF Expanded
  <1>8. ASSUME NEW c \in Call, Coroutine(c) PROVE Expanded'
    <2>1. /\ form' = form /\ children' = children /\ tokensWritten \subseteq tokensWritten'
          /\ status' = status /\ evalMacCalls' = evalMacCalls
          /\ pMacroCalls' = pMacroCalls /\ pc' = pc /\ reEval' = reEval
      BY <1>8 DEF Coroutine, WriteTokens, SetDataReady, treeVars
    <2>2. isDataReady' \subseteq tokensWritten'
      BY <1>8 DEF Coroutine, WriteTokens, SetDataReady, Expanded, SeenInOrder
    <2> QED
      BY <2>1, <2>2 DEF Expanded, StatusExplained, ArgumentsComplete
  <1>9. ASSUME NEW c \in Call, SerialTurn(c) PROVE Expanded'
    <2>1. /\ form' = form /\ children' = children /\ tokensWritten' = tokensWritten
          /\ isDataReady' = isDataReady /\ evalMacCalls' \subseteq {c} /\ evalMacCalls = {}
          /\ pMacroCalls' = pMacroCalls /\ pc' # "Create" /\ c \in pMacroCalls
          /\ status' = [status EXCEPT ![c] = StatusAfterCheck(c)]
          /\ c \in evalMacCalls' => Starts(c)
      BY <1>9 DEF SerialTurn, IsNext, LoopsApart, TypeOK, treeVars, dataVars
    <2>2. \A d \in Call : d # c => status'[d] = status[d]
      BY <2>1 DEF TypeOK
    <2>3. status'[c] = StatusAfterCheck(c)
      BY <2>1 DEF TypeOK
    <2>4. \A d \in Call : StatusExplained(d)'
      BY <2>1, <2>2, <2>3, CheckExplained
      DEF Expanded, StatusExplained, UserMacro
    <2>5. \A d \in Call : status[d] = "SUCCESS" => status'[d] = "SUCCESS"
      BY <2>2, <2>3, CheckFacts
    <2>6. ArgumentsComplete'
      BY <2>1, <2>5, StartComplete DEF ArgumentsComplete, TypeOK
    <2> QED
      BY <2>1, <2>4, <2>6, StartComplete DEF Expanded
  <1>10. CASE FreeMacroCalls
    <2>1. \A d \in Call : children'[d] \subseteq children[d]
      BY <1>10 DEF FreeMacroCalls
    <2>2. evalMacCalls' = {} /\ reEval'
      BY <1>10 DEF FreeMacroCalls, LoopsApart
    <2> QED
      BY <1>10, <2>1, <2>2
      DEF FreeMacroCalls, Expanded, StatusExplained, ArgumentsComplete, dataVars
  <1>11. CASE Spin \/ Finished \/ UNCHANGED vars
    BY <1>11 DEF Spin, Finished, vars, Expanded, StatusExplained,
                 ArgumentsComplete
  <1> QED
    BY <1>1, <1>2, <1>3, <1>4, <1>5, <1>6, <1>7, <1>8, <1>9, <1>10, <1>11 DEF Next, Main

\* The same for every compilation: the options stay, and SeenInOrder with them.
LEMMA ExpandedKept ==
    ASSUME Control, Control', Numbered, SeenInOrder => Expanded, [Next]_vars
    PROVE  (SeenInOrder => Expanded)'
  <1>1. SeenInOrder' => SeenInOrder
    BY OptionsFixed DEF SeenInOrder, Parallel
  <1> QED
    BY <1>1, ExpandedStep

\* RefreshMacroCallArgs puts the new tokens of the nested calls into the
\* arguments of a call that is about to run: all of them have succeeded and can
\* be seen, in either loop, as long as the writes of a coroutine keep their order.
THEOREM ArgumentsCorrect == Spec => [](SeenInOrder => ArgumentsComplete)
  <1>1. Expanded => ArgumentsComplete
    BY DEF Expanded
  <1> QED
    BY <1>1, ControlInit, ControlStep, NumberedInit, NumberedStep, ExpandedInit, ExpandedKept, PTL DEF Spec

\* A call of a user macro is successful only when its function ran, succeeded
\* and its tokens are there to replace it (MacroExpansion::ReplaceEachMacro).
THEOREM SuccessCorrect == Spec => [](SeenInOrder => SuccessMeansEvaluated)
  <1>1. Expanded => SuccessMeansEvaluated
    BY DEF Expanded, StatusExplained, UserMacro, SuccessMeansEvaluated
  <1> QED
    BY <1>1, ControlInit, ControlStep, NumberedInit, NumberedStep, ExpandedInit, ExpandedKept, PTL DEF Spec

(***************************************************************************)
(* Sixth layer: the outcome of a pass.  Status by status, a call carries   *)
(* what its form and the outcomes of its children say; the recursion of    *)
(* Result is then followed from the first call up.                         *)
(***************************************************************************)
LEMMA LeastNumber ==
    ASSUME NEW T \in SUBSET Nat, T # {}
    PROVE  \E m \in T : \A k \in T : m <= k
  <1> DEFINE Less == {p \in Nat \X Nat : p[1] < p[2]}
  <1>1. IsWellFoundedOn(Less, Nat)
    BY NatLessThanWellFounded DEF OpToRel
  <1>2. PICK m \in T : \A k \in T : <<k, m>> \notin Less
    <2> HIDE DEF Less
    <2> QED
      BY <1>1, WFMin
  <1>3. m \in Nat /\ \A k \in T : k \in Nat /\ ~(k < m)
    BY <1>2
  <1> HIDE DEF Less
  <1> QED
    BY <1>3

\* A step of a recursion over the calls, which looks at smaller calls only.
LooksBelow(V, step) ==
    /\ V # {} /\ step \in [Call -> [[Call -> V] -> V]]
    /\ \A c \in Call : \A g, h \in [Call -> V] :
          (\A d \in Call : d < c => g[d] = h[d]) => step[c][g] = step[c][h]

Solution(V, step, g) == g \in [Call -> V] /\ \A c \in Call : g[c] = step[c][g]

\* Such a recursion has a solution.
LEMMA Recursion ==
    ASSUME NEW V, NEW step, LooksBelow(V, step)
    PROVE  \E g : Solution(V, step, g)
  <1> USE DEF LooksBelow
  <1> DEFINE Solves(g, n) == \A c \in Call : c <= n => g[c] = step[c][g]
             Short == {n \in Nat : n <= N /\ ~\E g \in [Call -> V] : Solves(g, n)}
  <1>1. N \in Nat \ {0}
    BY ConstantsAssumption DEF ConstantsAssumption
  <1>2. Short = {}
    <2> SUFFICES ASSUME Short # {} PROVE FALSE
      OBVIOUS
    <2>1. PICK m \in Short : \A k \in Short : m <= k
      BY LeastNumber
    <2>2. m # 0
      <3>1. PICK v \in V : TRUE
        OBVIOUS
      <3>2. [c \in Call |-> v] \in [Call -> V] /\ Solves([c \in Call |-> v], 0)
        BY <1>1 DEF Call
      <3> QED
        BY <3>2
    <2>3. m \in Call /\ m - 1 \in Nat /\ m - 1 <= N /\ m - 1 \notin Short
      <3>1. m \in Nat /\ m <= N
        OBVIOUS
      <3>2. ~(m <= m - 1)
        BY <3>1
      <3>3. m - 1 \notin Short
        BY <2>1, <3>2
      <3> QED
        BY <1>1, <2>2, <3>1, <3>3 DEF Call
    <2>4. PICK g \in [Call -> V] : Solves(g, m - 1)
      BY <2>3
    <2> DEFINE h == [g EXCEPT ![m] = step[m][g]]
    <2>5. step[m][g] \in V /\ h \in [Call -> V] /\ h[m] = step[m][g]
          /\ \A c \in Call : c # m => h[c] = g[c]
      BY <2>3
    <2> HIDE DEF h
    <2>6. ASSUME NEW c \in Call, c <= m PROVE h[c] = step[c][h]
      <3>1. \A d \in Call : d < c => g[d] = h[d]
        BY <2>3, <2>5, <2>6 DEF Call
      <3>2. step[c][g] = step[c][h]
        BY <2>5, <3>1
      <3>3. CASE c = m
        BY <2>5, <3>2, <3>3
      <3>4. CASE c # m
        <4>1. c <= m - 1
          BY <2>3, <2>6, <3>4 DEF Call
        <4> QED
          BY <2>4, <2>5, <3>2, <3>4, <4>1
      <3> QED
        BY <3>3, <3>4
    <2> QED
      BY <2>1, <2>5, <2>6
  <1>3. PICK g \in [Call -> V] : Solves(g, N)
    <2>1. N \in Nat /\ N <= N
      BY <1>1
    <2>2. N \notin Short
      <3> HIDE DEF Short
      <3> QED
        BY <1>2
    <2> QED
      BY <2>1, <2>2
  <1> QED
    BY <1>1, <1>3 DEF Call, Solution

\* What Result says of a call when g tells the outcomes of the smaller ones.
ResultOf(g, c) ==
    IF c \notin pMacroCalls THEN status[c]
    ELSE IF form[c] = "builtin" THEN "SUCCESS"
    ELSE IF \E d \in children[c] : d < c /\ g[d] = "FAIL" THEN "FAIL"
    ELSE IF \E d \in children[c] : d < c /\ g[d] # "SUCCESS" THEN "stuck"
    ELSE IF form[c] \in {"annotation", "interpolation"} \/ (reEval /\ c \in Roots)
         THEN "SUCCESS"
    ELSE IF form[c] = "ok" THEN "SUCCESS" ELSE "FAIL"

LEMMA ResultUnfolds ==
    ASSUME TypeOK
    PROVE  \A c \in Call : Result[c] = ResultOf(Result, c)
  <1> DEFINE V == Status \cup {"stuck"}
             step == [c \in Call |-> [g \in [Call -> V] |-> ResultOf(g, c)]]
  <1>1. \A c \in Call : children[c] \subseteq Call /\ status[c] \in Status
    BY DEF TypeOK
  <1>2. \A c \in Call, g \in [Call -> V] : ResultOf(g, c) \in V
    BY <1>1 DEF ResultOf, Status
  <1>3. V # {} /\ step \in [Call -> [[Call -> V] -> V]]
    BY <1>2
  <1>4. ASSUME NEW c \in Call, NEW g \in [Call -> V], NEW h \in [Call -> V],
               \A d \in Call : d < c => g[d] = h[d]
        PROVE  step[c][g] = step[c][h]
    <2>1. ResultOf(g, c) = ResultOf(h, c)
      BY <1>1, <1>4 DEF ResultOf
    <2> QED
      BY <2>1
  <1>5. LooksBelow(V, step)
    BY <1>3, <1>4 DEF LooksBelow
  <1>6. PICK g : Solution(V, step, g)
    <2> HIDE DEF V, step
    <2> QED
      BY <1>5, Recursion
  <1>7. g = [c \in Call |-> ResultOf(g, c)]
    BY <1>6 DEF Solution
  <1>8. Result = [c \in Call |-> ResultOf(Result, c)]
    BY <1>7 DEF Result, ResultOf
  <1> QED
    BY <1>8

\* A call fails at its creation when it was not resolved, or through a call below it.
FailsOf(g, c, new, up, frm) ==
    \/ frm[c] = "undeclared"
    \/ frm[c] # "interpolation" /\ \E d \in new : d < c /\ up[d] = c /\ g[d]

\* A call that was not resolved fails when the tree is built.
LEMMA UndeclaredFails ==
    ASSUME NEW new \in SUBSET Call, NEW up, NEW frm, NEW c \in Call, frm[c] = "undeclared"
    PROVE  CreationFails(new, up, frm)[c]
  <1> DEFINE step == [d \in Call |-> [g \in [Call -> BOOLEAN] |-> FailsOf(g, d, new, up, frm)]]
  <1>1. \A d \in Call, g \in [Call -> BOOLEAN] : FailsOf(g, d, new, up, frm) \in BOOLEAN
    BY DEF FailsOf
  <1>2. step \in [Call -> [[Call -> BOOLEAN] -> BOOLEAN]]
    BY <1>1
  <1>3. ASSUME NEW d \in Call, NEW g \in [Call -> BOOLEAN], NEW h \in [Call -> BOOLEAN],
               \A e \in Call : e < d => g[e] = h[e]
        PROVE  step[d][g] = step[d][h]
    <2>1. FailsOf(g, d, new, up, frm) = FailsOf(h, d, new, up, frm)
      BY <1>3 DEF FailsOf
    <2> QED
      BY <2>1
  <1>4. LooksBelow(BOOLEAN, step)
    BY <1>2, <1>3 DEF LooksBelow
  <1>5. PICK g : Solution(BOOLEAN, step, g)
    <2> HIDE DEF step
    <2> QED
      BY <1>4, Recursion
  <1>6. g = [d \in Call |-> FailsOf(g, d, new, up, frm)]
    BY <1>5 DEF Solution
  <1> DEFINE F == CreationFails(new, up, frm)
  <1>7. F = [d \in Call |-> FailsOf(F, d, new, up, frm)]
    BY <1>6 DEF CreationFails, FailsOf
  <1>8. F[c] = FailsOf(F, c, new, up, frm)
    <2> HIDE DEF F
    <2> QED
      BY <1>7
  <1> QED
    BY <1>8 DEF FailsOf

\* A root that holds the tokens of an earlier pass.
Replaced(c) == reEval /\ c \in Roots

Invoked == {"ok", "evalFail"}

\* Each status has the reason Result gives for it.
Right(c) ==
    /\ form[c] \in {"ok", "evalFail", "parseFail", "builtin", "annotation", "interpolation"}
    /\ status[c] = "READY" => form[c] \in Invoked \cup {"builtin"}
    /\ status[c] = "INIT" => form[c] # "annotation"
    /\ status[c] = "ANNOTATION" => form[c] = "annotation"
    /\ status[c] \in {"INIT", "READY"} => ~Replaced(c)
    /\ status[c] = "REEVAL" => Replaced(c)
    /\ c \in evalMacCalls =>
          /\ form[c] \in Invoked /\ ~Replaced(c) /\ AllChildrenSucceeded(c)
          /\ status[c] = "FAIL" => form[c] = "evalFail"
    /\ (status[c] = "SUCCESS" /\ form[c] # "builtin") =>
          /\ AllChildrenSucceeded(c)
          /\ form[c] \in {"annotation", "interpolation", "ok"} \/ Replaced(c)
    /\ (status[c] = "FAIL" /\ c \notin evalMacCalls) =>
          /\ form[c] # "builtin"
          /\ \/ SomeChildFailed(c)
             \/ /\ AllChildrenSucceeded(c) /\ form[c] \in {"evalFail", "parseFail"}
                /\ ~Replaced(c)

UndeclaredFailed ==
    \A c \in Call : form[c] = "undeclared" => status[c] = "FAIL" /\ c \notin pMacroCalls

Settled ==
    /\ UndeclaredFailed
    /\ (pc \notin {"Create", "Done"} /\ ~srvLost) => \A c \in pMacroCalls : Right(c)

LEMMA SettledInit == Init => Settled
  BY DEF Init, Settled, UndeclaredFailed

\* A call keeps its reason while the calls decided stay as they are.
LEMMA RightKept ==
    ASSUME NEW c \in Call, Right(c), children[c] \subseteq Call,
           UNCHANGED <<form, children, reEval>>, status'[c] = status[c],
           c \in evalMacCalls' <=> c \in evalMacCalls,
           \A d \in Call : status[d] \in {"SUCCESS", "FAIL"} => status'[d] = status[d]
    PROVE  Right(c)'
  <1>1. AllChildrenSucceeded(c) => AllChildrenSucceeded(c)'
    BY DEF AllChildrenSucceeded
  <1>2. SomeChildFailed(c) => SomeChildFailed(c)'
    BY DEF SomeChildFailed
  <1> QED
    BY <1>1, <1>2 DEF Right, Replaced

\* A call the check does not start has a reason for what it becomes.
LEMMA CheckRight ==
    ASSUME Control, ChildrenBelow, NEW c \in pMacroCalls, Right(c), status[c] # "FAIL",
           ~Starts(c), UNCHANGED <<form, children, reEval, evalMacCalls>>,
           \A d \in Call : d # c => status'[d] = status[d],
           status'[c] = StatusAfterCheck(c)
    PROVE  Right(c)'
  <1>1. c \in Call /\ children[c] \subseteq Call /\ status[c] \in Status
        /\ status[c] \notin {"FINISH", "REEVALFAILED"}
        /\ (c \in evalMacCalls => status[c] = "EVAL" /\ form[c] # "builtin")
    BY DEF Control, TypeOK, RunningLooksLikeIt
  <1>2. \A d \in children[c] : status'[d] = status[d]
    BY <1>1 DEF ChildrenBelow, Call
  <1>3. AllChildrenSucceeded(c)' <=> AllChildrenSucceeded(c)
    BY <1>2 DEF AllChildrenSucceeded
  <1>4. SomeChildFailed(c)' <=> SomeChildFailed(c)
    BY <1>2 DEF SomeChildFailed
  <1>5. CASE form[c] = "builtin"
    BY <1>1, <1>5 DEF Right, StatusAfterCheck, Replaced
  <1>6. CASE form[c] # "builtin" /\ status[c] \in {"READY", "EVAL", "SUCCESS"}
    <2>1. status'[c] = status[c]
      BY <1>6 DEF StatusAfterCheck, Starts
    <2> QED
      BY <1>3, <1>4, <2>1 DEF Right, Replaced
  <1>7. CASE form[c] # "builtin" /\ status[c] \in {"INIT", "REEVAL", "ANNOTATION"}
    <2>1. c \notin evalMacCalls
      BY <1>1, <1>7
    <2>2. CASE SomeChildFailed(c)
      <3>1. status'[c] = "FAIL"
        BY <1>7, <2>2 DEF StatusAfterCheck
      <3> QED
        BY <1>4, <1>7, <2>1, <2>2, <3>1 DEF Right
    <2>3. CASE ~SomeChildFailed(c) /\ ~AllChildrenSucceeded(c)
      <3>1. status'[c] = status[c]
        BY <1>7, <2>3 DEF StatusAfterCheck
      <3> QED
        BY <1>3, <1>4, <3>1 DEF Right, Replaced
    <2>4. CASE AllChildrenSucceeded(c) /\ ~SomeChildFailed(c)
      <3>1. CASE status[c] # "INIT" \/ form[c] = "interpolation"
        <4>1. status'[c] = "SUCCESS"
          BY <1>7, <2>4, <3>1 DEF StatusAfterCheck
        <4> QED
          BY <1>3, <1>7, <2>1, <2>4, <3>1, <4>1 DEF Right, Replaced
      <3>2. CASE status[c] = "INIT" /\ form[c] # "interpolation"
        <4>1. status'[c] = "FAIL" /\ form[c] = "parseFail"
          BY <1>7, <2>4, <3>2 DEF StatusAfterCheck, Starts, ArgumentsParse
        <4> QED
          BY <1>3, <2>1, <2>4, <3>2, <4>1 DEF Right, Replaced
      <3> QED
        BY <3>1, <3>2
    <2> QED
      BY <2>2, <2>3, <2>4
  <1> QED
    BY <1>1, <1>5, <1>6, <1>7 DEF Status

\* A call that starts is a call of a user macro with its arguments complete.
LEMMA StartRight ==
    ASSUME Control, Numbered, ChildrenBelow, NEW c \in pMacroCalls, Right(c), Starts(c),
           UNCHANGED <<form, children, reEval>>, c \in evalMacCalls',
           \A d \in Call : d # c => status'[d] = status[d],
           status'[c] = "EVAL"
    PROVE  Right(c)'
  <1>1. c \in Call /\ children[c] \subseteq Call
    BY DEF Control, TypeOK
  <1>2. \A d \in children[c] : status'[d] = status[d]
    BY <1>1 DEF ChildrenBelow, Call
  <1>3. AllChildrenSucceeded(c)' <=> AllChildrenSucceeded(c)
    BY <1>2 DEF AllChildrenSucceeded
  <1>4. form[c] # "builtin" /\ status[c] \in {"READY", "INIT"}
    BY <1>1, CheckFacts DEF Control
  <1>5. AllChildrenSucceeded(c) /\ form[c] \in Invoked
    <2>1. CASE status[c] = "READY"
      BY <1>1, <1>4, <2>1 DEF Right, Numbered, ReadyAlone, AllChildrenSucceeded
    <2>2. CASE status[c] = "INIT"
      <3>1. AllChildrenSucceeded(c) /\ form[c] \notin {"parseFail", "interpolation"}
        BY <1>4, <2>2 DEF Starts, StatusAfterCheck, ArgumentsParse
      <3> QED
        BY <1>4, <2>2, <3>1 DEF Right, Invoked
    <2> QED
      BY <1>4, <2>1, <2>2
  <1> QED
    BY <1>3, <1>4, <1>5 DEF Right, Replaced, Invoked

\* A running call whose result is in.
LEMMA ResultRight ==
    ASSUME Control, ChildrenBelow, NEW c \in evalMacCalls, Right(c),
           UNCHANGED <<form, children, reEval>>, c \notin evalMacCalls',
           \A d \in Call : d # c => status'[d] = status[d],
           status'[c] = IF form[c] = "evalFail" THEN "FAIL" ELSE "SUCCESS"
    PROVE  Right(c)'
  <1>1. c \in Call /\ children[c] \subseteq Call
    BY DEF Control, TypeOK
  <1>2. \A d \in children[c] : status'[d] = status[d]
    BY <1>1 DEF ChildrenBelow, Call
  <1>3. AllChildrenSucceeded(c)' <=> AllChildrenSucceeded(c)
    BY <1>2 DEF AllChildrenSucceeded
  <1> QED
    BY <1>3 DEF Right, Replaced, Invoked

\* A new pass gives each call it lists a status that has its reason.
LEMMA GrowRight ==
    ASSUME TypeOK, Numbered, UndeclaredFailed, pc = "Create", evalMacCalls' = {},
           reEval' = reEval,
           NEW new \in SUBSET Unused(Live), NEW bad \in SUBSET Live,
           NEW up \in Trees(new), NEW found \in [Fresh(new) -> Forms],
           Grow(new, up, found, bad)
    PROVE  UndeclaredFailed' /\ \A c \in pMacroCalls' : Right(c)'
  <1>1. new \subseteq Call /\ pMacroCalls' \subseteq Call /\ form' \in [Call -> Form \cup {"none"}]
    BY GrowFacts
  <1>2. \A c \in pMacroCalls' :
           form'[c] # "badEscape" /\ status'[c] \notin {"FAIL", "FINISH", "REEVALFAILED"}
    BY DEF Grow
  <1>3. ASSUME NEW c \in Fresh(new), c \in Call
        PROVE  /\ form'[c] = "undeclared" => status'[c] = "FAIL" /\ c \notin pMacroCalls'
               /\ c \in pMacroCalls' => Right(c)'
    <2>1. /\ form'[c] # "none" /\ status'[c] = FirstStatus(c, new, up, form')
      BY <1>3, GrowCases
    <2>2. form'[c] = "undeclared" => status'[c] = "FAIL"
      BY <1>1, <1>3, <2>1, UndeclaredFails DEF FirstStatus
    <2>3. ASSUME c \in pMacroCalls'
          PROVE  form'[c] \in {"ok", "evalFail", "parseFail", "builtin", "annotation",
                               "interpolation"}
      BY <1>1, <1>2, <1>3, <2>1, <2>2, <2>3 DEF Form
    <2>4. ~Replaced(c)'
      BY <1>3 DEF Fresh, Unused, Replaced
    <2>5. form'[c] = "parseFail" => \E d \in new : up[d] = c
      BY <1>3, ConstantsAssumption DEF Grow, FormsFit, Fresh, Live, ConstantsAssumption
    <2>6. /\ status'[c] = "READY" => form'[c] \notin {"annotation", "interpolation", "parseFail"}
          /\ status'[c] = "INIT" => form'[c] # "annotation"
          /\ status'[c] = "ANNOTATION" => form'[c] = "annotation"
          /\ status'[c] \in {"FAIL", "ANNOTATION", "INIT", "READY"}
      BY <2>1, <2>5 DEF FirstStatus
    <2>7. ASSUME c \in pMacroCalls' PROVE Right(c)'
      BY <1>2, <2>3, <2>4, <2>6, <2>7 DEF Right, Invoked
    <2> QED
      BY <1>2, <2>2, <2>7
  <1>4. ASSUME NEW c \in Live, c \in Call, c \notin Fresh(new)
        PROVE  form'[c] # "undeclared" /\ (c \in pMacroCalls' => Right(c)')
    <2>1. /\ status[c] = "SUCCESS" /\ form[c] # "none" /\ form'[c] \in {form[c], "badEscape"}
      BY <1>4, GrowCases
    <2>2. form'[c] # "undeclared"
      BY <1>4, <2>1 DEF UndeclaredFailed
    <2>3. reEval /\ c \in Roots
      BY <1>4 DEF Fresh, Live
    <2>4. status'[c] = ReEvalStatus(c, new, up, form')
      BY <1>4 DEF Grow
    <2>5. ASSUME c \in pMacroCalls' PROVE Right(c)'
      <3>1. status'[c] = "REEVAL"
        BY <1>2, <2>4, <2>5 DEF ReEvalStatus
      <3>2. form'[c] \in {"ok", "evalFail", "parseFail", "builtin", "annotation",
                          "interpolation"}
        BY <1>1, <1>2, <1>4, <2>1, <2>2, <2>5 DEF Form
      <3> QED
        BY <2>3, <3>1, <3>2 DEF Right, Replaced
    <2> QED
      BY <2>2, <2>5
  <1>5. ASSUME NEW c \in Call, c \notin Live, c \notin Fresh(new)
        PROVE  /\ form'[c] = "undeclared" => status'[c] = "FAIL"
               /\ c \notin pMacroCalls'
    <2>1. form'[c] = form[c] /\ status'[c] = status[c] /\ c \notin pMacroCalls'
      BY <1>5, GrowCases
    <2> QED
      BY <2>1 DEF UndeclaredFailed
  <1> QED
    BY <1>1, <1>3, <1>4, <1>5 DEF UndeclaredFailed

LEMMA SettledStep ==
    ASSUME SeenInOrder, Control, Control', Slotted, Numbered, Visited, Expanded, Settled,
           [Next]_vars
    PROVE  Settled'
  <1>0. options' = options
    BY OptionsFixed
  <1>1. /\ pMacroCalls \subseteq Call /\ evalMacCalls \subseteq pMacroCalls
        /\ toScan \subseteq pMacroCalls /\ ChildrenBelow
        /\ \A c \in Call : children[c] \subseteq Call
    BY DEF Control, TypeOK, Visited
  <1> USE <1>0 DEF Parallel, ChildProcess
  <1>2. CASE CreateMacroCallsTree
    <2>1. PICK new \in SUBSET Unused(Live), bad \in SUBSET Live :
            \E up \in Trees(new), found \in [Fresh(new) -> Forms] :
              Grow(new, up, found, bad)
      BY <1>2 DEF CreateMacroCallsTree
    <2>2. PICK up \in Trees(new), found \in [Fresh(new) -> Forms] :
              Grow(new, up, found, bad)
      BY <2>1
    <2>3. pc = "Create" /\ evalMacCalls' = {} /\ reEval' = reEval
      BY <1>2 DEF CreateMacroCallsTree, Control, LoopsApart
    <2> QED
      BY <2>2, <2>3, GrowRight DEF Settled, Control
  \* Within a pass one call changes, or the calls whose results arrive.
  <1>3. ASSUME NEW c \in pMacroCalls, Settled, pc \notin {"Create", "Done"},
               UNCHANGED <<form, children, reEval, pMacroCalls>>,
               srvLost => srvLost',
               \A d \in Call : d # c => /\ status'[d] = status[d]
                                        /\ d \in evalMacCalls' <=> d \in evalMacCalls,
               ~srvLost' => (status[c] \in {"SUCCESS", "FAIL"} => status'[c] = status[c]),
               ~srvLost' => Right(c)'
        PROVE  Settled'
    <2>1. UndeclaredFailed'
      BY <1>1, <1>3 DEF Settled, UndeclaredFailed
    <2>2. ASSUME ~srvLost', NEW d \in pMacroCalls, d # c PROVE Right(d)'
      BY <1>1, <1>3, <2>2, RightKept DEF Settled
    <2> QED
      BY <1>3, <2>1, <2>2 DEF Settled
  <1>4. CASE EvalMacroCalls \/ ScanDone \/ SerialDone \/ FreeMacroCalls
    BY <1>4 DEF EvalMacroCalls, ScanDone, SerialDone, FreeMacroCalls, treeVars, Settled,
                UndeclaredFailed, Right, Replaced, AllChildrenSucceeded, SomeChildFailed
  <1>5. ASSUME NEW c \in Call, ScanOver(c) PROVE Settled'
    <2>1. /\ UNCHANGED <<form, children, reEval, pMacroCalls, srvLost, evalMacCalls>>
          /\ pc = "Scan" /\ c \in pMacroCalls
          /\ \A d \in Call : d # c => status'[d] = status[d]
      BY <1>1, <1>5 DEF ScanOver, IsNext, Control, TypeOK, treeVars
    <2>2. CASE status[c] = "FAIL"
      <3>1. status' = status
        BY <1>5, <2>2 DEF ScanOver
      <3>2. ~srvLost' => Right(c)'
        BY <1>1, <2>1, <3>1, RightKept DEF Settled
      <3> QED
        BY <1>3, <2>1, <3>1, <3>2
    <2>3. CASE status[c] # "FAIL"
      <3>1. status'[c] = StatusAfterCheck(c) /\ ~Starts(c)
        BY <1>5, <2>3 DEF ScanOver, Control, TypeOK
      <3>2. ~srvLost' => Right(c)'
        BY <1>1, <2>1, <2>3, <3>1, CheckRight DEF Settled
      <3>3. status[c] = "SUCCESS" => status'[c] = "SUCCESS"
        BY <3>1, CheckFacts DEF Control
      <3> QED
        BY <1>3, <2>1, <2>3, <3>2, <3>3
    <2> QED
      BY <2>2, <2>3
  <1>6. ASSUME NEW c \in Call, ScanStart(c) PROVE Settled'
    <2>1. /\ UNCHANGED <<form, children, reEval, pMacroCalls, srvLost>>
          /\ evalMacCalls' = evalMacCalls \cup {c}
          /\ pc = "Scan" /\ c \in pMacroCalls /\ Starts(c)
          /\ \A d \in Call : d # c => status'[d] = status[d]
          /\ status'[c] = "EVAL"
      BY <1>1, <1>6 DEF ScanStart, IsNext, Control, TypeOK, treeVars
    <2>2. status[c] \notin {"SUCCESS", "FAIL"}
      BY <2>1, CheckFacts DEF Control
    <2>3. ~srvLost' => Right(c)'
      BY <1>1, <2>1, StartRight DEF Settled
    <2> QED
      BY <1>3, <2>1, <2>2, <2>3
  <1>7. ASSUME NEW c \in Call, ScanNoSlot(c) PROVE Settled'
    <2>1. /\ UNCHANGED <<form, children, reEval, pMacroCalls, srvLost, evalMacCalls>>
          /\ pc = "Scan" /\ c \in toScan /\ Parallel /\ FreeSlots = {} /\ Starts(c)
          /\ \A d \in Call : d # c => status'[d] = status[d]
      BY <1>7 DEF ScanNoSlot, IsNext, Control, TypeOK, LoopsApart, treeVars
    <2>2. srvLost
      <3>1. CASE ~srvLost
        <4>1. ThreadNum <= Cardinality(evalMacCalls) /\ Cardinality(evalMacCalls) < ThreadNum
          BY <2>1, <3>1, FullMeansBusy DEF Control, Slotted, Room
        <4>2. ThreadNum \in Nat /\ Cardinality(evalMacCalls) \in Nat
          BY <1>1, CallsFinite, ConstantsAssumption DEF ConstantsAssumption
        <4> QED
          BY <4>1, <4>2
      <3> QED
        BY <3>1
    <2>3. status[c] \notin {"SUCCESS", "FAIL"}
      BY <1>1, <2>1, CheckFacts DEF Control
    <2> QED
      BY <1>1, <1>3, <2>1, <2>2, <2>3
  <1>8. CASE Exchange
    <2>1. /\ UNCHANGED <<form, children, reEval, pMacroCalls, srvLost, evalMacCalls>>
          /\ pc = "Exchange"
          /\ \A d \in Call : \/ status'[d] = status[d]
                             \/ d \in evalMacCalls /\ form[d] = "evalFail" /\ status'[d] = "FAIL"
      BY <1>8 DEF Exchange, treeVars
    <2>2. \A d \in evalMacCalls : status[d] \in {"EVAL", "FAIL"}
      BY DEF Control, RunningLooksLikeIt
    <2>3. \A d \in Call : status[d] \in {"SUCCESS", "FAIL"} => status'[d] = status[d]
      BY <2>1, <2>2
    <2>4. UndeclaredFailed'
      BY <1>1, <2>1, <2>3 DEF Settled, UndeclaredFailed
    <2>5. ASSUME ~srvLost, NEW d \in pMacroCalls PROVE Right(d)'
      <3>1. Right(d)
        BY <2>1, <2>5 DEF Settled
      <3>2. CASE status'[d] = status[d]
        BY <1>1, <2>1, <2>3, <3>1, <3>2, RightKept
      <3>3. CASE d \in evalMacCalls /\ form[d] = "evalFail" /\ status'[d] = "FAIL"
        <4>1. AllChildrenSucceeded(d) => AllChildrenSucceeded(d)'
          BY <1>1, <2>1, <2>3 DEF AllChildrenSucceeded
        <4> QED
          BY <2>1, <3>1, <3>3, <4>1 DEF Right, Replaced, Invoked
      <3> QED
        BY <1>1, <2>1, <3>2, <3>3
    <2> QED
      BY <2>1, <2>4, <2>5 DEF Settled
  <1>9. CASE ExchangeFails
    <2>1. \A c \in Call : status'[c] = status[c] \/ (status'[c] = "FAIL" /\ c \in pMacroCalls)
      BY <1>9 DEF ExchangeFails, FailsWithServer
    <2> QED
      BY <1>9, <2>1 DEF ExchangeFails, Settled, UndeclaredFailed, treeVars
  <1>10. ASSUME NEW c \in Call, Collect(c) \/ SerialResult(c) PROVE Settled'
    <2>1. /\ UNCHANGED <<form, children, reEval, pMacroCalls>>
          /\ evalMacCalls' = evalMacCalls \ {c} /\ c \in evalMacCalls /\ c \in pMacroCalls
          /\ pc = "Wait" /\ (srvLost => srvLost')
          /\ \A d \in Call : d # c => status'[d] = status[d]
      BY <1>1, <1>10
      DEF Collect, SerialResult, Erased, Control, RunningLooksLikeIt, TypeOK, treeVars
    <2>2. ~srvLost => Right(c)
      BY <2>1 DEF Settled
    <2>3. ~srvLost' => status'[c] = IF form[c] = "evalFail" THEN "FAIL" ELSE "SUCCESS"
      <3>1. c \in isDataReady => c \in tokensWritten
        BY DEF Expanded
      <3>2. CASE Collect(c)
        BY <2>2, <3>1, <3>2 DEF Collect, ResultStatus, Right, Control, TypeOK
      <3>3. CASE SerialResult(c)
        BY <2>1, <2>2, <3>1, <3>3 DEF SerialResult, ResultStatus, Right, Control, TypeOK
      <3> QED
        BY <1>10, <3>2, <3>3
    <2>4. ~srvLost' => Right(c)'
      BY <1>1, <2>1, <2>2, <2>3, ResultRight
    <2>5. ~srvLost' => (status[c] \in {"SUCCESS", "FAIL"} => status'[c] = status[c])
      BY <2>1, <2>2, <2>3 DEF Right, Control, RunningLooksLikeIt
    <2> QED
      BY <1>3, <2>1, <2>4, <2>5
  <1>11. ASSUME NEW c \in Call, Coroutine(c) PROVE Settled'
    BY <1>11 DEF Coroutine, WriteTokens, SetDataReady, treeVars, Settled,
                 UndeclaredFailed, Right, Replaced, AllChildrenSucceeded, SomeChildFailed
  <1>12. ASSUME NEW c \in Call, SerialTurn(c) PROVE Settled'
    <2>1. /\ UNCHANGED <<form, children, reEval, pMacroCalls, srvLost>>
          /\ evalMacCalls = {} /\ evalMacCalls' = (IF Starts(c) THEN {c} ELSE {})
          /\ pc = "Serial" /\ c \in pMacroCalls /\ status[c] # "FAIL"
          /\ \A d \in Call : d # c => status'[d] = status[d]
          /\ status'[c] = StatusAfterCheck(c)
      BY <1>1, <1>12 DEF SerialTurn, IsNext, Control, LoopsApart, TypeOK, Numbered,
                         SerialUnvisited, treeVars
    <2>2. CASE Starts(c)
      <3>1. status'[c] = "EVAL" /\ status[c] \notin {"SUCCESS", "FAIL"}
        BY <2>1, <2>2, CheckFacts DEF Starts, Control
      <3>2. ~srvLost' => Right(c)'
        BY <1>1, <2>1, <2>2, <3>1, StartRight DEF Settled
      <3> QED
        BY <1>3, <2>1, <2>2, <3>1, <3>2
    <2>3. CASE ~Starts(c)
      <3>1. ~srvLost' => Right(c)'
        BY <1>1, <2>1, <2>3, CheckRight DEF Settled
      <3>2. status[c] = "SUCCESS" => status'[c] = "SUCCESS"
        BY <2>1, CheckFacts DEF Control
      <3> QED
        BY <1>3, <2>1, <2>3, <3>1, <3>2
    <2> QED
      BY <2>2, <2>3
  <1>13. CASE Spin \/ Finished \/ UNCHANGED vars
    BY <1>13 DEF Spin, Finished, vars, Settled, UndeclaredFailed, Right, Replaced,
                 AllChildrenSucceeded, SomeChildFailed
  <1> QED
    BY <1>2, <1>4, <1>5, <1>6, <1>7, <1>8, <1>9, <1>10, <1>11, <1>12, <1>13 DEF Next, Main

LEMMA SettledKept ==
    ASSUME Control, Control', Slotted, Numbered, Visited, SeenInOrder => Expanded,
           SeenInOrder => Settled, [Next]_vars
    PROVE  (SeenInOrder => Settled)'
  <1>1. SeenInOrder' => SeenInOrder
    BY OptionsFixed DEF SeenInOrder, Parallel
  <1> QED
    BY <1>1, SettledStep

\* At the end of a pass every call is decided or waits, and has a reason: by the least
\* call of which it were not so, it is as Result says.
LEMMA OutcomeFollows ==
    ASSUME Control, Visited, Settled
    PROVE  ScheduleIndependent
  <1> SUFFICES ASSUME pc = "Free", ~srvLost
               PROVE  \A c \in pMacroCalls :
                         IF Result[c] = "stuck" THEN status[c] \in {"INIT", "REEVAL", "ANNOTATION"}
                         ELSE status[c] = Result[c]
    BY DEF ScheduleIndependent
  <1> DEFINE AsResult(c) == IF Result[c] = "stuck" THEN status[c] \in {"INIT", "REEVAL", "ANNOTATION"}
                            ELSE status[c] = Result[c]
             Other == {c \in Call : ~AsResult(c)}
  <1>1. /\ pMacroCalls \subseteq Call /\ evalMacCalls = {} /\ Call \subseteq Nat
        /\ \A c \in Call : children[c] \subseteq Call /\ status[c] \in Status
        /\ \A c \in Call : \A d \in children[c] : d < c
    BY DEF Control, TypeOK, LoopsApart, Visited, ChildrenBelow, Call
  <1>2. Other = {}
    <2> SUFFICES ASSUME Other # {} PROVE FALSE
      OBVIOUS
    <2>1. PICK c \in Other : \A d \in Other : c <= d
      BY <1>1, LeastNumber
    <2>2. c \in Call /\ ~AsResult(c)
      BY <2>1
    <2>3. ASSUME NEW d \in children[c]
          PROVE  d < c /\ AsResult(d) /\ status[d] \in Status
      <3>1. d \in Call /\ d < c /\ c \in Nat /\ d \in Nat /\ status[d] \in Status
        BY <1>1, <2>2
      <3>2. ~(c <= d)
        BY <3>1
      <3>3. d \notin Other
        BY <2>1, <3>2
      <3> QED
        BY <3>1, <3>3
    <2>4. Result[c] = ResultOf(Result, c)
      BY <2>2, ResultUnfolds DEF Control
    <2>5. CASE c \notin pMacroCalls
      BY <1>1, <2>2, <2>4, <2>5 DEF ResultOf, Status
    <2>6. CASE c \in pMacroCalls
      <3>1. Right(c) /\ (Decided(c) \/ Waits(c))
        BY <2>6 DEF Settled, Visited, AllAccounted
      <3>2. /\ (\E d \in children[c] : d < c /\ Result[d] = "FAIL") <=> SomeChildFailed(c)
            /\ (\E d \in children[c] : d < c /\ Result[d] # "SUCCESS") <=> ~AllChildrenSucceeded(c)
        BY <2>3 DEF SomeChildFailed, AllChildrenSucceeded
      <3>3. Waits(c) => ~SomeChildFailed(c) /\ ~AllChildrenSucceeded(c)
        BY DEF Waits, Decided, SomeChildFailed, AllChildrenSucceeded
      <3>4. AllChildrenSucceeded(c) => ~SomeChildFailed(c)
        BY DEF SomeChildFailed, AllChildrenSucceeded
      <3>5. form[c] = "builtin" => status[c] = "SUCCESS"
        BY <1>1, <3>1 DEF Right, Waits, Decided
      <3> QED
        BY <1>1, <2>2, <2>4, <2>6, <3>1, <3>2, <3>3, <3>4, <3>5
        DEF ResultOf, Right, Replaced, Waits, Decided
    <2> QED
      BY <2>5, <2>6
  <1> QED
    BY <1>1, <1>2

\* Whatever the order in which coroutines and the server answer, a pass of
\* EvalMacroCalls leaves each call with the status the recursion over the tree gives
\* it, in either loop, as long as the server lives and writes keep their order.
THEOREM ScheduleCorrect == Spec => [](SeenInOrder => ScheduleIndependent)
  <1>1. Control /\ Visited /\ (SeenInOrder => Settled) => (SeenInOrder => ScheduleIndependent)
    BY OutcomeFollows
  <1>2. Init => (SeenInOrder => Settled)
    BY SettledInit
  <1> QED
    BY <1>1, <1>2, ControlInit, ControlStep, SlottedInit, SlottedStep, NumberedInit,
       NumberedStep, VisitedInit, VisitedStep, ExpandedInit, ExpandedKept, SettledKept,
       PTL DEF Spec
=============================================================================
