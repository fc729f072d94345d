--------------------------- MODULE MacroScheduler ---------------------------
(***************************************************************************)
(* The scheduler of macro calls in src/src/Macro/MacroEvaluation.cpp:      *)
(* EvalMacros builds the tree of the calls (children are calls nested in   *)
(* the arguments of their parent), evaluates every call after its          *)
(* children, and repeats on the tokens the evaluation produced until they  *)
(* contain no macro call.  One action is one turn of a loop of the main    *)
(* thread, or one visible write of a coroutine that runs a macro.          *)
(*                                                                         *)
(* A call is a number.  The numbers follow the order of the list           *)
(* pMacroCalls: CreateMacroCallTree pushes a call after its descendants,   *)
(* so the list and its scans are sets visited in increasing order.  A      *)
(* number is used for one call only; the calls that may appear below the   *)
(* root r are the unused numbers between the preceding root and r, and     *)
(* that supply bounds the passes.                                          *)
(***************************************************************************)
EXTENDS Integers, FiniteSets

CONSTANTS
    N,              \* the calls are 1..N
    Roots,          \* macroCollector->macCalls: the calls in the source text
    Forms,          \* the kinds of call a run considers
    ThreadNum,      \* threadNum, the number of slots
    WeakMemory      \* the two writes of a coroutine may be seen out of order

Call == 1..N
Slot == 0..(ThreadNum - 1)

(***************************************************************************)
(* What is known of a call before it is evaluated.  "ok", "evalFail" and   *)
(* "parseFail" are calls of user macros whose function succeeds, whose     *)
(* function fails, and whose expanded arguments do not parse;              *)
(* "undeclared" covers every failure while the call is created and         *)
(* "badEscape" a malformed escape in its tokens.                           *)
(***************************************************************************)
Form == {"ok", "evalFail", "parseFail", "builtin", "annotation", "interpolation",
         "undeclared", "badEscape"}

Status == {"INIT", "READY", "EVAL", "SUCCESS", "FAIL", "REEVAL", "FINISH",
           "ANNOTATION", "REEVALFAILED"}

\* The global options that choose the loop and where the macros run.
Option == [enableParallelMacro : BOOLEAN, useChildProcess : BOOLEAN]

ASSUME ConstantsAssumption ==
    /\ N \in Nat \ {0}
    /\ Roots \subseteq Call
    /\ N \in Roots
    /\ Forms \subseteq Form
    /\ ThreadNum \in Nat \ {0}
    /\ WeakMemory \in BOOLEAN

VARIABLES
    options,            \* globalOptions, fixed for the compilation
    form,               \* what each call is; "none" when the number is unused
    children,           \* MacroCall::children
    status,             \* MacroCall::status
    pMacroCalls,        \* the calls of this pass
    toScan,             \* the part of pMacroCalls the range-for has not visited
    evalMacCalls,       \* the calls handed to a coroutine or to the server
    needEvalMacCalls,   \* the counter of the multi-thread loop
    isThreadUseds,      \* the slots in use
    threadId,           \* MacroCall::threadId
    tokensWritten,      \* calls whose newTokens the main thread can see
    isDataReady,        \* calls whose isDataReady the main thread sees set
    reEval,             \* FALSE in the first pass
    srvLost,            \* the server's pipe failed (MacroProcMsger::pipeError)
    pc                  \* where the main thread is

treeVars == <<form, children>>
slotVars == <<isThreadUseds, threadId>>
dataVars == <<tokensWritten, isDataReady>>
vars == <<options, form, children, status, pMacroCalls, toScan, evalMacCalls,
          needEvalMacCalls, isThreadUseds, threadId, tokensWritten, isDataReady,
          reEval, srvLost, pc>>

Parallel == options.enableParallelMacro
ChildProcess == options.useChildProcess

Init ==
    /\ options \in Option
    /\ form = [c \in Call |-> "none"]
    /\ children = [c \in Call |-> {}]
    /\ status = [c \in Call |-> "INIT"]
    /\ pMacroCalls = {}
    /\ toScan = {}
    /\ evalMacCalls = {}
    /\ needEvalMacCalls = 0
    /\ isThreadUseds = {}
    /\ threadId = [c \in Call |-> 0]
    /\ tokensWritten = {}
    /\ isDataReady = {}
    /\ reEval = FALSE
    /\ srvLost = FALSE
    /\ pc = "Create"

-----------------------------------------------------------------------------
(***************************************************************************)
(* The tree of calls: CreateMacroCallsTree.                                *)
(***************************************************************************)
RootOf(c) == CHOOSE r \in Roots : c <= r /\ \A s \in Roots : c <= s => r <= s

\* The numbers that can be given to calls found below the roots live.
Unused(live) == {c \in Call \ Roots : form[c] = "none" /\ RootOf(c) \in live}

\* The ways to place the calls new below the roots: up gives the parents, and
\* the numbers follow the order in which the list receives the calls.
Trees(new) ==
    {up \in [new -> Call] :
        /\ \A c \in new : c < up[c] /\ up[c] \in new \cup {RootOf(c)}
        /\ \A c, d \in new : c < d /\ d < up[c] => up[d] <= up[c]
        /\ \A c \in new, d \in Unused(Roots) :
              d < c /\ RootOf(d) = RootOf(c) => d \in new}

\* frm tells what every call is.  A call that could not be created, and the
\* literal a built-in macro leaves, hold no call; only a call with children is
\* parsed again or is a string with calls in it.
FormsFit(new, up, frm) ==
    \A c \in new :
        /\ frm[up[c]] \notin {"undeclared", "badEscape"}
        /\ ~(reEval /\ up[c] \in Roots /\ frm[up[c]] = "builtin")
        /\ frm[c] \in {"parseFail", "interpolation"} => \E d \in new : up[d] = c

\* The calls CreateMacroCallTree leaves FAIL: those that fail themselves and,
\* through CreateChildMacroCall, every call above them up to a string
\* interpolation, whose temporary call absorbs the failure.
CreationFails(new, up, frm) ==
    LET fails[c \in Call] ==
            \/ frm[c] = "undeclared"
            \/ frm[c] # "interpolation"
               /\ \E d \in new : d < c /\ up[d] = c /\ fails[d]
    IN fails

\* HasChildMacroCall: a call that is not an annotation, below annotations only.
HasChildMacroCall(new, up, frm) ==
    LET has[c \in Call] ==
            \E d \in new : d < c /\ up[d] = c
                           /\ (frm[d] # "annotation" \/ has[d])
    IN has

FirstStatus(c, new, up, frm) ==
    IF CreationFails(new, up, frm)[c] THEN "FAIL"
    ELSE IF frm[c] = "annotation" THEN "ANNOTATION"
    ELSE IF frm[c] \in {"interpolation", "badEscape"} \/ \E d \in new : up[d] = c
         THEN "INIT"
    ELSE "READY"

ReEvalStatus(c, new, up, frm) ==
    IF frm[c] = "badEscape" THEN "SUCCESS"
    ELSE IF CreationFails(new, up, frm)[c] THEN "REEVALFAILED"
    ELSE IF HasChildMacroCall(new, up, frm)[c] THEN "REEVAL" ELSE "FINISH"

\* The first pass looks at every root, a later one at those that succeeded.
Live == IF reEval THEN {r \in Roots : status[r] = "SUCCESS"} ELSE Roots

\* The calls looked at for the first time.
Fresh(new) == IF reEval THEN new ELSE new \cup Live

\* found is what the fresh calls turn out to be, bad the roots whose new tokens
\* hold a malformed escape.
FormsFound(new, found, bad) ==
    [c \in Call |-> IF c \in Fresh(new) THEN found[c]
                    ELSE IF c \in bad THEN "badEscape" ELSE form[c]]

Grow(new, up, found, bad) ==
    /\ bad # {} => reEval /\ "badEscape" \in Forms
    /\ form' = FormsFound(new, found, bad)
    /\ \A r \in Roots : form'[r] \notin {"parseFail", "interpolation"}
    /\ FormsFit(new, up, form')
    /\ children' = [c \in Call |-> children[c] \cup {d \in new : up[d] = c}]
    /\ status' = [c \in Call |->
          IF c \in Fresh(new) THEN FirstStatus(c, new, up, form')
          ELSE IF c \in Live THEN ReEvalStatus(c, new, up, form')
          ELSE status[c]]
    /\ pMacroCalls' = {c \in new \cup Live :
          /\ form'[c] # "badEscape"
          /\ status'[c] \notin {"FAIL", "FINISH", "REEVALFAILED"}}

CreateMacroCallsTree ==
    /\ pc = "Create"
    /\ \E new \in SUBSET Unused(Live), bad \in SUBSET Live :
          \E up \in Trees(new), found \in [Fresh(new) -> Forms] :
             Grow(new, up, found, bad)
    /\ pc' = IF reEval /\ pMacroCalls' = {} THEN "Done" ELSE "Eval"
    /\ UNCHANGED <<options, toScan, evalMacCalls, needEvalMacCalls, slotVars,
                   dataVars, reEval, srvLost>>

-----------------------------------------------------------------------------
(***************************************************************************)
(* What the scan of a call does: IsMacroCallReadyForEval.                  *)
(***************************************************************************)
AllChildrenSucceeded_Mut(c) == \A d \in children[c] : status[d] # "FAIL"
AllChildrenSucceeded(c) == \A d \in children[c] : status[d] = "SUCCESS"
SomeChildFailed_Mut(c) == children[c] # {} /\ \A d \in children[c] : status[d] = "FAIL"
SomeChildFailed(c) == \E d \in children[c] : status[d] = "FAIL"

\* The tokens of a call parse once the results of its children replace them:
\* RefreshMacroCallArgs and CheckMacroCallArgs report no error.
ArgumentsParse(c) == form[c] # "parseFail"

\* The status the check leaves; "EVAL" when the call is to be evaluated now.
StatusAfterCheck(c) ==
    CASE form[c] = "builtin" -> "SUCCESS"
      [] form[c] # "builtin" /\ status[c] = "READY" -> "EVAL"
      [] form[c] # "builtin" /\ status[c] \in {"INIT", "REEVAL", "ANNOTATION"} ->
           IF SomeChildFailed(c) THEN "FAIL"
           ELSE IF ~AllChildrenSucceeded(c) THEN status[c]
           ELSE IF status[c] # "INIT" \/ form[c] = "interpolation" THEN "SUCCESS"
           ELSE IF ArgumentsParse(c) THEN "EVAL" ELSE "FAIL"
      [] OTHER -> status[c]

\* The check returns true: the call was not running and is to run now.
Starts(c) == status[c] # "EVAL" /\ StatusAfterCheck(c) = "EVAL"

\* The call the range-for looks at.
IsNext(c) == c \in toScan /\ \A d \in toScan : c <= d

\* EvalMacroCalls: which of the two loops runs.
EvalMacroCalls ==
    /\ pc = "Eval"
    /\ toScan' = pMacroCalls
    /\ IF Parallel
       THEN /\ needEvalMacCalls' = Cardinality(pMacroCalls)
            /\ pc' = IF pMacroCalls = {} THEN "Free" ELSE "Scan"
       ELSE /\ pc' = "Serial"
            /\ UNCHANGED needEvalMacCalls
    /\ UNCHANGED <<options, treeVars, status, pMacroCalls, evalMacCalls, slotVars,
                   dataVars, reEval, srvLost>>

-----------------------------------------------------------------------------
(***************************************************************************)
(* EvalMacroCallsOnMultiThread.                                            *)
(***************************************************************************)
FreeSlots_Mut == Slot
FreeSlots == Slot \ isThreadUseds

\* GetUnUsedThread
IsFirstFree(s) == s \in FreeSlots /\ \A t \in FreeSlots : s <= t

\* What the counter loses when the check of a call does not start it.
CountedByCheck_Mut(c) == IF status[c] = "INIT" THEN 1 ELSE 0
CountedByCheck(c) == IF StatusAfterCheck(c) = "FAIL" THEN 1 ELSE 0

\* The scan stops when the running calls fill the slots.
ScanIsFull(running) == Cardinality(running) >= ThreadNum

\* A turn that starts nothing: the call is finished, waits for its children,
\* fails, or is replaced in place.
ScanOver(c) ==
    /\ pc = "Scan" /\ IsNext(c)
    /\ status[c] = "FAIL" \/ ~Starts(c)
    /\ IF status[c] = "FAIL"
       THEN UNCHANGED <<status, needEvalMacCalls>>
       ELSE /\ status' = [status EXCEPT ![c] = StatusAfterCheck(c)]
            /\ needEvalMacCalls' = needEvalMacCalls - CountedByCheck(c)
    /\ toScan' = toScan \ {c}
    /\ UNCHANGED <<options, treeVars, pMacroCalls, evalMacCalls, slotVars,
                   dataVars, reEval, srvLost, pc>>

\* A turn that starts a call; the scan stops when every slot is taken.
ScanStart(c) ==
    /\ pc = "Scan" /\ IsNext(c)
    /\ status[c] # "FAIL" /\ Starts(c)
    /\ \E s \in Slot :
         /\ IsFirstFree(s)
         /\ isThreadUseds' = isThreadUseds \cup {s}
         /\ threadId' = [threadId EXCEPT ![c] = s]
    /\ status' = [status EXCEPT ![c] = "EVAL"]
    /\ evalMacCalls' = evalMacCalls \cup {c}
    /\ toScan' = IF ScanIsFull(evalMacCalls') THEN {} ELSE toScan \ {c}
    /\ UNCHANGED <<options, treeVars, pMacroCalls, needEvalMacCalls, dataVars,
                   reEval, srvLost, pc>>

\* A turn that finds a call ready but no slot for it: the call is already
\* marked EVAL when the scan stops.
ScanNoSlot(c) ==
    /\ pc = "Scan" /\ IsNext(c)
    /\ status[c] # "FAIL" /\ Starts(c)
    /\ FreeSlots = {}
    /\ status' = [status EXCEPT ![c] = "EVAL"]
    /\ toScan' = {}
    /\ UNCHANGED <<options, treeVars, pMacroCalls, evalMacCalls, needEvalMacCalls,
                   slotVars, dataVars, reEval, srvLost, pc>>

\* Where the scan leads: with nothing running the loop is left.
AfterScan_Mut == IF ChildProcess THEN "Exchange" ELSE "Wait"
AfterScan ==
    IF evalMacCalls = {} THEN "Free" ELSE IF ChildProcess THEN "Exchange" ELSE "Wait"

ScanDone ==
    /\ pc = "Scan" /\ toScan = {}
    /\ pc' = AfterScan
    /\ UNCHANGED <<options, treeVars, status, pMacroCalls, toScan, evalMacCalls,
                   needEvalMacCalls, slotVars, dataVars, reEval, srvLost>>

\* SendMacroCallsTask and WaitMacroCallsEvalResult, when the server answers:
\* the results of some calls arrive, unless all those sent have theirs.
Exchange ==
    /\ pc = "Exchange"
    /\ ~srvLost
    /\ LET waiting == evalMacCalls \ isDataReady
       IN \E results \in SUBSET waiting :
            /\ results = {} => waiting = {}
            /\ isDataReady' = isDataReady \cup results
            /\ tokensWritten' = tokensWritten \cup results
            /\ status' = [c \in Call |->
                 IF c \in results /\ form[c] = "evalFail" THEN "FAIL" ELSE status[c]]
    /\ pc' = "Wait"
    /\ UNCHANGED <<options, treeVars, pMacroCalls, toScan, evalMacCalls,
                   needEvalMacCalls, slotVars, reEval, srvLost>>

\* The calls the loss of the server fails.
FailsWithServer_Mut(c) == c \in evalMacCalls
FailsWithServer(c) == c \in pMacroCalls /\ status[c] \notin {"SUCCESS", "FINISH"}

\* The same when the server is gone: every call that has not succeeded fails
\* and the loop is left with the slots as they are.
ExchangeFails ==
    /\ pc = "Exchange"
    /\ srvLost' = TRUE
    /\ status' = [c \in Call |-> IF FailsWithServer(c) THEN "FAIL" ELSE status[c]]
    /\ evalMacCalls' = {}
    /\ pc' = "Free"
    /\ UNCHANGED <<options, treeVars, pMacroCalls, toScan, needEvalMacCalls,
                   slotVars, dataVars, reEval>>

\* SetMacroCallEvalResult, from the tokens the main thread sees.
ResultStatus(c) ==
    IF status[c] = "FAIL" \/ (form[c] = "evalFail" /\ c \in tokensWritten)
    THEN "FAIL" ELSE "SUCCESS"

\* The running calls once the result of c is in: the call leaves the list.
Erased(c) == evalMacCalls \ {c}

\* The rest of WaitForOneMacroCallEvalFinish: the busy-wait finds a call ready.
Collect(c) ==
    /\ pc = "Wait" /\ Parallel
    /\ c \in evalMacCalls \cap isDataReady
    /\ status' = [status EXCEPT ![c] = ResultStatus(c)]
    /\ isThreadUseds' = isThreadUseds \ {threadId[c]}
    /\ evalMacCalls' = Erased(c)
    /\ needEvalMacCalls' = needEvalMacCalls - 1
    /\ IF needEvalMacCalls' > 0
       THEN pc' = "Scan" /\ toScan' = pMacroCalls
       ELSE pc' = "Free" /\ UNCHANGED toScan
    /\ UNCHANGED <<options, treeVars, pMacroCalls, threadId, dataVars, reEval,
                   srvLost>>

\* A round of the busy-wait that finds no call ready.
Spin ==
    /\ pc = "Wait" /\ Parallel
    /\ evalMacCalls \cap isDataReady = {}
    /\ UNCHANGED vars

-----------------------------------------------------------------------------
(***************************************************************************)
(* The coroutine of a call: InvokeMacroFunc.  isDataReady is a plain bool  *)
(* the parallel main thread polls without synchronisation, so on a weakly  *)
(* ordered machine it can be seen before newTokens; a serial evaluation    *)
(* waits on a condition variable.                                          *)
(***************************************************************************)
WriteTokens(c) ==
    /\ ~ChildProcess
    /\ c \in (evalMacCalls \cup isDataReady) \ tokensWritten
    /\ tokensWritten' = tokensWritten \cup {c}
    /\ UNCHANGED <<options, treeVars, status, pMacroCalls, toScan, evalMacCalls,
                   needEvalMacCalls, slotVars, isDataReady, reEval, srvLost, pc>>

SetDataReady(c) ==
    /\ ~ChildProcess
    /\ c \in evalMacCalls \ isDataReady
    /\ (WeakMemory /\ Parallel) \/ c \in tokensWritten
    /\ isDataReady' = isDataReady \cup {c}
    /\ UNCHANGED <<options, treeVars, status, pMacroCalls, toScan, evalMacCalls,
                   needEvalMacCalls, slotVars, tokensWritten, reEval, srvLost,
                   pc>>

-----------------------------------------------------------------------------
(***************************************************************************)
(* EvalMacroCallsOnSingleThread.                                           *)
(***************************************************************************)
SerialTurn(c) ==
    /\ pc = "Serial" /\ IsNext(c)
    /\ toScan' = toScan \ {c}
    /\ status' = [status EXCEPT ![c] = StatusAfterCheck(c)]
    /\ IF Starts(c)
       THEN /\ evalMacCalls' = {c}
            /\ pc' = "Wait"
       ELSE UNCHANGED <<evalMacCalls, pc>>
    /\ UNCHANGED <<options, treeVars, pMacroCalls, needEvalMacCalls, slotVars,
                   dataVars, reEval, srvLost>>

\* The result of a call the server could not be asked about.
StatusWhenLost_Mut == "SUCCESS"
StatusWhenLost == "FAIL"

\* EvaluateWithRuntime returned: the coroutine notified the condition variable,
\* or the server answered, or the pipe failed and the call fails with it.
SerialResult(c) ==
    /\ pc = "Wait" /\ ~Parallel
    /\ c \in evalMacCalls
    /\ \/ /\ ~ChildProcess
          /\ c \in isDataReady
          /\ status' = [status EXCEPT ![c] = ResultStatus(c)]
          /\ UNCHANGED <<dataVars, srvLost>>
       \/ /\ ChildProcess /\ ~srvLost
          /\ tokensWritten' = tokensWritten \cup {c}
          /\ isDataReady' = isDataReady \cup {c}
          /\ status' = [status EXCEPT ![c] =
                          IF form[c] = "evalFail" THEN "FAIL" ELSE "SUCCESS"]
          /\ UNCHANGED srvLost
       \/ /\ ChildProcess
          /\ srvLost' = TRUE
          /\ status' = [status EXCEPT ![c] = StatusWhenLost]
          /\ UNCHANGED dataVars
    /\ evalMacCalls' = {}
    /\ pc' = "Serial"
    /\ UNCHANGED <<options, treeVars, pMacroCalls, toScan, needEvalMacCalls,
                   slotVars, reEval>>

SerialDone ==
    /\ pc = "Serial" /\ toScan = {}
    /\ pc' = "Free"
    /\ UNCHANGED <<options, treeVars, status, pMacroCalls, toScan, evalMacCalls,
                   needEvalMacCalls, slotVars, dataVars, reEval, srvLost>>

-----------------------------------------------------------------------------
\* The end of EvalMacroCalls, and the loop of ReEvalAfterEvalMacroCalls.
FreeMacroCalls ==
    /\ pc = "Free"
    /\ pMacroCalls' = {}
    /\ toScan' = {}
    /\ children' = [c \in Call |-> IF c \in Roots THEN {} ELSE children[c]]
    /\ reEval' = TRUE
    /\ pc' = "Create"
    /\ UNCHANGED <<options, form, status, evalMacCalls, needEvalMacCalls,
                   slotVars, dataVars, srvLost>>

Finished == pc = "Done" /\ UNCHANGED vars

Main ==
    \/ CreateMacroCallsTree \/ EvalMacroCalls \/ ScanDone \/ Exchange \/ ExchangeFails
    \/ Spin \/ SerialDone \/ FreeMacroCalls
    \/ \E c \in Call : \/ ScanOver(c) \/ ScanStart(c) \/ ScanNoSlot(c) \/ Collect(c)
                       \/ SerialTurn(c) \/ SerialResult(c)

Coroutine(c) == WriteTokens(c) \/ SetDataReady(c)

Next == Main \/ (\E c \in Call : Coroutine(c)) \/ Finished

Spec == Init /\ [][Next]_vars

\* The main thread runs, and a macro function returns.
FairSpec == Spec /\ WF_vars(Main) /\ \A c \in Call : WF_vars(Coroutine(c))

-----------------------------------------------------------------------------
TypeOK ==
    /\ options \in Option
    /\ form \in [Call -> Form \cup {"none"}]
    /\ children \in [Call -> SUBSET Call]
    /\ status \in [Call -> Status]
    /\ pMacroCalls \subseteq Call
    /\ toScan \subseteq pMacroCalls
    /\ evalMacCalls \subseteq pMacroCalls
    /\ needEvalMacCalls \in Int
    /\ isThreadUseds \subseteq Slot
    /\ threadId \in [Call -> Slot]
    /\ tokensWritten \subseteq Call
    /\ isDataReady \subseteq Call
    /\ reEval \in BOOLEAN
    /\ srvLost \in BOOLEAN
    /\ pc \in {"Create", "Eval", "Scan", "Exchange", "Wait", "Serial", "Free", "Done"}

\* Two running calls never share a slot, and as long as the server has not been
\* lost a slot is in use exactly when a running call holds it: the slots
\* CreateThreadToEvalMacroCall takes come back in WaitForOneMacroCallEvalFinish.
SlotsOwned ==
    Parallel =>
        /\ \A c \in evalMacCalls : threadId[c] \in isThreadUseds
        /\ \A c, d \in evalMacCalls : threadId[c] = threadId[d] => c = d
        /\ ~srvLost => \A s \in isThreadUseds : \E c \in evalMacCalls : threadId[c] = s

\* The unsigned counter of EvalMacroCallsOnMultiThread never passes below zero
\* and never ends the loop over a running call: it counts every one of them.
CounterCoversRunning ==
    (Parallel /\ pc \in {"Scan", "Exchange", "Wait"}) =>
        Cardinality(evalMacCalls) <= needEvalMacCalls

\* A call is marked EVAL before a slot is found for it (IsMacroCallReadyForEval);
\* the mark is never left on a call nobody evaluates, unless the server was lost.
EvalIsRunning ==
    ~srvLost => \A c \in Call : status[c] = "EVAL" => c \in evalMacCalls

\* The arguments of a running macro hold the results of all the calls nested in
\* them: every child has succeeded and its new tokens can be seen.
ArgumentsComplete ==
    \A c \in evalMacCalls : \A d \in children[c] :
        /\ status[d] = "SUCCESS"
        /\ form[d] \in {"ok", "evalFail"} => d \in tokensWritten

\* The status the calls of a pass must end with, whatever the schedule: the
\* recursion from the children up that the serial loop performs.
Result[c \in Call] ==
    IF c \notin pMacroCalls THEN status[c]
    ELSE IF form[c] = "builtin" THEN "SUCCESS"
    ELSE IF \E d \in children[c] : d < c /\ Result[d] = "FAIL" THEN "FAIL"
    ELSE IF \E d \in children[c] : d < c /\ Result[d] # "SUCCESS" THEN "stuck"
    ELSE IF form[c] \in {"annotation", "interpolation"} \/ (reEval /\ c \in Roots)
         THEN "SUCCESS"
    ELSE IF form[c] = "ok" THEN "SUCCESS" ELSE "FAIL"

\* A pass of EvalMacroCallsOnMultiThread leaves each call with the status the
\* order of evaluation cannot change; only a call above one that was never put
\* in the list is left waiting.
ScheduleIndependent ==
    (pc = "Free" /\ ~srvLost) => \A c \in pMacroCalls :
        IF Result[c] = "stuck" THEN status[c] \in {"INIT", "REEVAL", "ANNOTATION"}
        ELSE status[c] = Result[c]

\* When the server is lost every call of the pass still ends as succeeded or
\* failed; a later pass can leave a call undecided only when the calls running
\* at the loss hold every slot (or above such a call).
NothingDropped ==
    pc = "Free" => \A c \in pMacroCalls :
        \/ status[c] \in {"SUCCESS", "FAIL"}
        \/ \E d \in children[c] : status[d] \notin {"SUCCESS", "FAIL"}
        \/ status[c] = "EVAL" /\ srvLost /\ isThreadUseds = Slot
        \/ isThreadUseds = Slot /\ srvLost /\ \E d \in pMacroCalls : d < c /\ status[d] = "EVAL"

\* MacroCall.h says of SUCCESS "Evaluate macrocall successful": a call of a user
\* macro carries it only when its function ran, succeeded, and left its tokens.
SuccessMeansEvaluated ==
    \A c \in Call :
        (status[c] = "SUCCESS" /\ form[c] \in {"ok", "evalFail", "parseFail"}) =>
            form[c] = "ok" /\ c \in tokensWritten

\* EvalMacros comes to an end when the expansion does: the busy-wait always
\* finds a call ready and every pass leaves its loop.
Terminates == <>(pc = "Done")

\* What MacroEvalOrder promises, read off the state of the scheduler.
Phase(c) ==
    IF form[c] = "none" THEN "unborn"
    ELSE IF c \in evalMacCalls THEN "running"
    ELSE IF status[c] = "FAIL" THEN "failed"
    ELSE IF status[c] \in {"SUCCESS", "REEVAL", "FINISH", "REEVALFAILED"} THEN "expanded"
    ELSE "waiting"

Order == INSTANCE MacroEvalOrder WITH
    width <- IF Parallel THEN ThreadNum ELSE 1,
    phase <- [c \in Call |-> Phase(c)],
    below <- children

\* The scheduler implements the order of evaluation a macro author relies on.
OrderSpec == Order!Spec
=============================================================================
