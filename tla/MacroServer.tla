---------------------------- MODULE MacroServer ----------------------------
(***************************************************************************)
(* The protocol between the compiler and LSPMacroServer, the child process *)
(* that runs macros when useChildProcess is set: the client half of        *)
(* MacroProcMsger and MacroEvaluation (MacroEvaluationClient.cpp), the     *)
(* server half (MacroEvaluationSrv.cpp), the two pipes between them, the   *)
(* thread that waits for the child (WaitProcessExit), and the signal       *)
(* handler of the client.                                                  *)
(*                                                                         *)
(* A message travels in slices and a pipe holds Cap of them; a reader or   *)
(* a writer handles one slice per step and waits when the pipe is empty or *)
(* full.  Which calls are started in a turn is left open: MacroScheduler   *)
(* says which.  Every evaluation (MacroEvaluation::Evaluate, one per       *)
(* edited package) has the calls Call; a result carries the evaluation and *)
(* the call it was computed for, so a wrong delivery can be seen.          *)
(***************************************************************************)
EXTENDS Integers, Sequences, SequencesExt, FiniteSets

CONSTANTS
    N,              \* the calls of an evaluation are 1..N
    ThreadNum,      \* how many calls run at once in the parallel loop
    HasLibs,        \* globalOptions.macroLib is not empty
    SameKey,        \* calls whose identifier and position are the same
    NotFound,       \* calls the server cannot find a method for
    Failing,        \* calls whose macro function fails
    Big,            \* calls whose task and whose result overfill a pipe
    Cap,            \* the slices a pipe holds
    MaxRounds,      \* bound: the evaluations of a run
    MaxCrashes,     \* bound: how often the server dies or cannot be started
    MaySignal       \* a signal may end the client

Call == 1..N

ASSUME ConstantsAssumption ==
    /\ N \in Nat \ {0} /\ ThreadNum \in Nat \ {0} /\ Cap \in Nat \ {0}
    /\ {HasLibs, MaySignal} \subseteq BOOLEAN
    /\ SameKey \cup NotFound \cup Failing \cup Big \subseteq Call
    /\ MaxRounds \in Nat /\ MaxCrashes \in Nat

VARIABLES
    enableParallelMacro,    \* the option, fixed while the client runs
    cpc,            \* where the client is
    round,          \* the evaluation under way
    status,         \* MacroCall::status
    evalMacCalls,   \* the calls of the parallel loop that run, in list order
    isDataReady,    \* the running calls whose result is in
    result,         \* what each call's newTokens were computed for
    msgList,        \* the messages ReadAllMsgFromSrv has read
    cOut,           \* the slices the client still has to write
    pipeError,      \* MacroProcMsger::pipeError
    macroSrvRun,    \* MacroProcMsger::macroSrvRun
    spc,            \* where the server is
    macCalls,       \* MacroEvaluation::macCalls in the server
    sOut,           \* the slices the server still has to write
    midMessage,     \* the server has read a part of a message
    p2c, c2p,       \* the pipes, in slices
    crashes         \* how often the server has failed

clientVars == <<round, status, evalMacCalls, isDataReady, result>>
linkVars == <<pipeError, macroSrvRun>>
serverVars == <<spc, macCalls, sOut, midMessage>>
vars == <<enableParallelMacro, cpc, clientVars, msgList, cOut, linkVars, serverVars,
          p2c, c2p, crashes>>

\* The calls that run at once.
Width == IF enableParallelMacro THEN ThreadNum ELSE 1

NoResult == <<0, 0>>

Init ==
    /\ enableParallelMacro \in BOOLEAN
    /\ cpc = "Idle"
    /\ round = 0
    /\ status = [c \in Call |-> "INIT"]
    /\ evalMacCalls = <<>>
    /\ isDataReady = {}
    /\ result = [c \in Call |-> NoResult]
    /\ msgList = <<>>
    /\ cOut = <<>>
    /\ pipeError = FALSE
    /\ macroSrvRun = FALSE
    /\ spc = "Down"
    /\ macCalls = <<>>
    /\ sOut = <<>>
    /\ midMessage = FALSE
    /\ p2c = <<>>
    /\ c2p = <<>>
    /\ crashes = 0

-----------------------------------------------------------------------------
(***************************************************************************)
(* Messages.  A task lists calls; a result is about one.                   *)
(***************************************************************************)
Task(kind, calls, rnd) == [kind |-> kind, calls |-> calls, round |-> rnd, ok |-> TRUE]
Answer(kind, e, ok) ==
    [kind |-> kind, calls |-> <<e.call>>, round |-> e.round, ok |-> ok]

\* msgSliceLen cuts a message: one slice, or one more than a pipe holds.
Slices(msg) ==
    LET n == IF ToSet(msg.calls) \cap Big = {} THEN 1 ELSE Cap + 1
    IN [i \in 1..n |-> [msg |-> msg, last |-> i = n]]

\* IsResultForMacCall compares the identifier and its position.
Key(c) == IF c \in SameKey THEN 0 ELSE c

Running == ToSet(evalMacCalls)

-----------------------------------------------------------------------------
(***************************************************************************)
(* The client.                                                             *)
(***************************************************************************)
\* The error flag when a new server starts.
NewError == FALSE

\* CreateMacroSrvProcess: fresh pipes and a fresh child, unless one is believed
\* to run; the child may fail to start.
CreateMacroSrvProcess ==
    IF ~macroSrvRun
    THEN /\ p2c' = <<>> /\ c2p' = <<>>
         /\ macCalls' = <<>> /\ sOut' = <<>> /\ midMessage' = FALSE
         /\ \/ pipeError' = NewError /\ macroSrvRun' = TRUE /\ spc' = "Recv"
               /\ UNCHANGED crashes
            \/ crashes < MaxCrashes /\ crashes' = crashes + 1
               /\ spc' = "Down" /\ UNCHANGED linkVars
    ELSE UNCHANGED <<linkVars, serverVars, p2c, c2p, crashes>>

\* A MacroEvaluation is constructed and Evaluate begins.
Begin ==
    /\ cpc = "Idle" /\ round < MaxRounds
    /\ round' = round + 1
    /\ status' = [c \in Call |-> "INIT"]
    /\ result' = [c \in Call |-> NoResult]
    /\ CreateMacroSrvProcess
    /\ IF HasLibs
       THEN cpc' = "SendDef" /\ cOut' = Slices(Task("def", <<>>, round'))
       ELSE cpc' = "Turn" /\ UNCHANGED cOut
    /\ UNCHANGED <<enableParallelMacro, evalMacCalls, isDataReady, msgList>>

\* Calls in the order of the list.
Lists == {s \in UNION {[1..n -> Call] : n \in 0..N} :
             \A i, j \in DOMAIN s : i < j => s[i] < s[j]}

\* What SendMacroCallsTask sends: the calls that have not been sent (hasSend).
Unsent_Mut(new) == evalMacCalls \o new
Unsent(new) == new

\* The loop never runs more calls than it has threads.
HasRoom(new) == Len(evalMacCalls) + Len(new) \in 1..Width

\* A turn of the loop: some calls start, and one message, possibly with no
\* call in it, asks the server for the next result.
StartCalls ==
    /\ cpc = "Turn"
    /\ \E new \in Lists :
          /\ \A c \in ToSet(new) : status[c] = "INIT"
          /\ HasRoom(new)
          /\ evalMacCalls' = evalMacCalls \o new
          /\ status' = [c \in Call |-> IF c \in ToSet(new) THEN "EVAL" ELSE status[c]]
          /\ cOut' = Slices(Task("calls", Unsent(new), round))
    /\ cpc' = "SendCalls"
    /\ UNCHANGED <<enableParallelMacro, round, isDataReady, result, msgList,
                   linkVars, serverVars, p2c, c2p, crashes>>

\* EvalMacros is over: SendExitStgTask tells the server to forget its calls.
EndEvaluation ==
    /\ cpc = "Turn" /\ evalMacCalls = <<>>
    /\ cpc' = "SendStg"
    /\ cOut' = Slices(Task("stg", <<>>, round))
    /\ UNCHANGED <<enableParallelMacro, clientVars, msgList, linkVars, serverVars,
                   p2c, c2p, crashes>>

Sending == {"SendDef", "SendCalls", "SendStg", "SendExit"}

\* Where a message that has been sent leads.  With every running call ready
\* WaitMacroCallsEvalResult reads nothing.
AfterSend ==
    CASE cpc = "SendDef" -> "ReadDef"
      [] cpc = "SendCalls" -> IF Running \subseteq isDataReady THEN "Collect" ELSE "Read"
      [] cpc = "SendStg" -> "Idle"
      [] cpc = "SendExit" -> "WaitExit"

\* WriteToSrvPipe, one slice.
ClientWrite ==
    /\ cpc \in Sending
    /\ ~pipeError /\ spc # "Down"
    /\ Len(p2c) < Cap
    /\ p2c' = Append(p2c, Head(cOut))
    /\ cOut' = Tail(cOut)
    /\ cpc' = IF cOut' = <<>> THEN AfterSend ELSE cpc
    /\ UNCHANGED <<enableParallelMacro, clientVars, msgList, linkVars, serverVars,
                   c2p, crashes>>

\* The error flag after a failed read or write.
LatchedError_Mut == pipeError
LatchedError == TRUE

\* The running calls fail when a message cannot be sent or read; a call that
\* starts later belongs to a later pass of the same evaluation.
FailRunning_Mut == UNCHANGED <<status, evalMacCalls, isDataReady>>
FailRunning ==
    /\ status' = [c \in Call |-> IF c \in Running THEN "FAIL" ELSE status[c]]
    /\ evalMacCalls' = <<>>
    /\ isDataReady' = {}

\* SendMsgToSrv finds the error of an earlier message, or makes one.
SendFails ==
    /\ cpc \in Sending
    /\ pipeError \/ spc = "Down"
    /\ pipeError' = LatchedError
    /\ cOut' = <<>>
    /\ IF cpc = "SendCalls" THEN FailRunning
                            ELSE UNCHANGED <<status, evalMacCalls, isDataReady>>
    /\ cpc' = CASE cpc \in {"SendDef", "SendCalls"} -> "Turn"
                [] cpc = "SendStg" -> "Idle"
                [] cpc = "SendExit" -> "Exited"
    /\ UNCHANGED <<enableParallelMacro, round, result, msgList, macroSrvRun,
                   serverVars, p2c, c2p, crashes>>

\* ReadFromSrvPipe, one slice; WaitMacroDefResult reads one message, the
\* results are read by ReadAllMsgFromSrv.
ClientRead ==
    /\ cpc \in {"ReadDef", "Read"} /\ c2p # <<>>
    /\ c2p' = Tail(c2p)
    /\ LET slice == Head(c2p)
       IN IF cpc = "ReadDef"
          THEN /\ cpc' = IF slice.last THEN "Turn" ELSE cpc
               /\ UNCHANGED msgList
          ELSE /\ cpc' = IF slice.last THEN "More" ELSE cpc
               /\ msgList' = IF slice.last THEN Append(msgList, slice.msg) ELSE msgList
    /\ UNCHANGED <<enableParallelMacro, clientVars, cOut, linkVars, serverVars, p2c,
                   crashes>>

\* The end of the file: what was read before is lost with it.
ReadFails ==
    /\ cpc \in {"ReadDef", "Read"} /\ c2p = <<>> /\ spc = "Down"
    /\ pipeError' = LatchedError
    /\ msgList' = <<>>
    /\ IF cpc = "Read" THEN FailRunning ELSE UNCHANGED <<status, evalMacCalls, isDataReady>>
    /\ cpc' = "Turn"
    /\ UNCHANGED <<enableParallelMacro, round, result, cOut, macroSrvRun,
                   serverVars, p2c, c2p, crashes>>

\* select finds the pipe readable: there is data, or its other end is closed.
ReadMore ==
    /\ cpc = "More"
    /\ c2p # <<>> \/ spc = "Down"
    /\ cpc' = "Read"
    /\ UNCHANGED <<enableParallelMacro, clientVars, msgList, cOut, linkVars,
                   serverVars, p2c, c2p, crashes>>

\* DeserializeMacroCallsResult gives a result to the first call of the list
\* with its key.
Receives_Mut(c, msg) ==
    \E i \in DOMAIN evalMacCalls :
        /\ evalMacCalls[i] = c /\ c \notin isDataReady
        /\ \A j \in 1..(i - 1) : evalMacCalls[j] \in isDataReady
Receives(c, msg) ==
    \E i \in DOMAIN evalMacCalls :
        /\ evalMacCalls[i] = c /\ Key(c) = Key(Head(msg.calls))
        /\ \A j \in 1..(i - 1) : Key(evalMacCalls[j]) # Key(c)

\* The messages for a call; of several the last one leaves its tokens.
AnswersTo(c) == {k \in DOMAIN msgList : Receives(c, msgList[k])}
LastAnswer(c) == msgList[CHOOSE k \in AnswersTo(c) : \A l \in AnswersTo(c) : l <= k]

ResultsIn ==
    /\ cpc = "More" /\ enableParallelMacro
    /\ c2p = <<>> /\ spc # "Down"
    /\ isDataReady' = isDataReady \cup {c \in Running : AnswersTo(c) # {}}
    /\ status' = [c \in Call |-> IF AnswersTo(c) = {} THEN status[c]
                                 ELSE IF LastAnswer(c).ok THEN "EVAL" ELSE "FAIL"]
    /\ result' = [c \in Call |-> IF AnswersTo(c) = {} THEN result[c]
                       ELSE <<LastAnswer(c).round, Head(LastAnswer(c).calls)>>]
    /\ msgList' = <<>>
    /\ cpc' = "Collect"
    /\ UNCHANGED <<enableParallelMacro, round, evalMacCalls, cOut, linkVars,
                   serverVars, p2c, c2p, crashes>>

\* The parallel loop takes the first call of its list that is ready.
Collect ==
    /\ cpc = "Collect"
    /\ \E i \in DOMAIN evalMacCalls :
          LET c == evalMacCalls[i]
          IN /\ c \in isDataReady
             /\ \A j \in 1..(i - 1) : evalMacCalls[j] \notin isDataReady
             /\ status' = [status EXCEPT ![c] = IF @ = "FAIL" THEN "FAIL" ELSE "SUCCESS"]
             /\ isDataReady' = isDataReady \ {c}
             /\ evalMacCalls' = RemoveAt(evalMacCalls, i)
    /\ cpc' = "Turn"
    /\ UNCHANGED <<enableParallelMacro, round, result, msgList, cOut, linkVars,
                   serverVars, p2c, c2p, crashes>>

\* WaitMacroCallEvalResult: the one call of the serial loop takes the one
\* message read if it is its own, and fails otherwise.
SerialResultIn ==
    /\ cpc = "More" /\ ~enableParallelMacro
    /\ c2p = <<>> /\ spc # "Down"
    /\ LET c == Head(evalMacCalls)
           msg == Head(msgList)
       IN IF Len(msgList) = 1 /\ Receives(c, msg)
          THEN /\ status' = [status EXCEPT ![c] = IF msg.ok THEN "SUCCESS" ELSE "FAIL"]
               /\ result' = [result EXCEPT ![c] = <<msg.round, Head(msg.calls)>>]
          ELSE /\ status' = [status EXCEPT ![c] = "FAIL"]
               /\ UNCHANGED result
    /\ evalMacCalls' = <<>>
    /\ msgList' = <<>>
    /\ cpc' = "Turn"
    /\ UNCHANGED <<enableParallelMacro, round, isDataReady, cOut, linkVars,
                   serverVars, p2c, c2p, crashes>>

\* SIGINT and the like, at any point of the client: the handler runs
\* CloseMacroSrv, whose message may follow a part of another.
Signal ==
    /\ MaySignal /\ round > 0
    /\ cpc \notin {"SendExit", "WaitExit", "Exited"}
    /\ cpc' = IF macroSrvRun THEN "SendExit" ELSE "Exited"
    /\ cOut' = IF macroSrvRun THEN Slices(Task("exit", <<>>, round)) ELSE <<>>
    /\ UNCHANGED <<enableParallelMacro, clientVars, msgList, linkVars, serverVars,
                   p2c, c2p, crashes>>

\* CloseMacroSrv waits for WaitProcessExit, but five seconds at most.
GivesUp_Mut == FALSE
GivesUp == TRUE

WaitExit ==
    /\ cpc = "WaitExit"
    /\ ~macroSrvRun \/ GivesUp
    /\ cpc' = "Exited"
    /\ UNCHANGED <<enableParallelMacro, clientVars, msgList, cOut, linkVars,
                   serverVars, p2c, c2p, crashes>>

\* A round of that busy-wait.
WaitSpin ==
    /\ cpc = "WaitExit" /\ macroSrvRun
    /\ UNCHANGED vars

\* WaitProcessExit, the thread that waits for the child.
WaitProcessExit ==
    /\ macroSrvRun /\ spc = "Down" /\ cpc # "Exited"
    /\ macroSrvRun' = FALSE
    /\ UNCHANGED <<enableParallelMacro, cpc, clientVars, msgList, cOut, pipeError,
                   serverVars, p2c, c2p, crashes>>

-----------------------------------------------------------------------------
(***************************************************************************)
(* The server.                                                             *)
(***************************************************************************)
Received(calls, rnd) ==
    macCalls \o [i \in DOMAIN calls |-> [call |-> calls[i], round |-> rnd, at |-> "INIT"]]

\* Of the calls known to the server in the serial loop the last is the task.
SerialTask(known) == Len(known)

SerialStart(known) ==
    LET i == SerialTask(known)
    IN IF known[i].call \in NotFound
       THEN spc' = "Down" /\ macCalls' = known
       ELSE spc' = "Wait" /\ macCalls' = [known EXCEPT ![i].at = "EVAL"]

\* ExecuteEvalSrvTask handles a whole message.
Handle(msg) ==
    \/ /\ msg.kind = "def"
       /\ sOut' = Slices(Answer("respond", [call |-> 0, round |-> msg.round], TRUE))
       /\ spc' = "Write"
       /\ UNCHANGED macCalls
    \/ /\ msg.kind = "calls"
       /\ LET known == Received(msg.calls, msg.round)
          IN IF known = <<>> THEN spc' = "Down" /\ UNCHANGED macCalls
             ELSE IF enableParallelMacro THEN spc' = "Find" /\ macCalls' = known
             ELSE SerialStart(known)
       /\ UNCHANGED sOut
    \/ /\ msg.kind = "stg"
       /\ macCalls' = <<>>
       /\ UNCHANGED <<spc, sOut>>
    \/ /\ msg.kind = "exit"
       /\ spc' = "Down"
       /\ UNCHANGED <<macCalls, sOut>>

\* ReadFromClientPipe, one slice.  An exit message in the middle of another is
\* read as a part of it, and is too short to complete it.
SrvRead ==
    /\ spc = "Recv" /\ p2c # <<>>
    /\ p2c' = Tail(p2c)
    /\ LET slice == Head(p2c)
           whole == slice.last /\ ~(midMessage /\ slice.msg.kind = "exit")
       IN /\ midMessage' = ~whole
          /\ IF whole THEN Handle(slice.msg) ELSE UNCHANGED <<spc, macCalls, sOut>>
    /\ UNCHANGED <<enableParallelMacro, cpc, clientVars, msgList, cOut, linkVars,
                   c2p, crashes>>

\* EvalMacroCallsAndWaitResult, first loop: a call without a method fails and
\* its result is sent at once; the call stays in the list.
Missing == {i \in DOMAIN macCalls : macCalls[i].at = "INIT" /\ macCalls[i].call \in NotFound}

SrvNotFound ==
    /\ spc = "Find" /\ Missing # {}
    /\ LET i == CHOOSE i \in Missing : \A j \in Missing : i <= j
       IN /\ macCalls' = [macCalls EXCEPT ![i].at = "FAIL"]
          /\ sOut' = Slices(Answer("notFound", macCalls[i], FALSE))
    /\ spc' = "Write"
    /\ UNCHANGED <<enableParallelMacro, cpc, clientVars, msgList, cOut, linkVars,
                   midMessage, p2c, c2p, crashes>>

\* The other calls start; with none to wait for, the server reads again.
SrvStart ==
    /\ spc = "Find" /\ Missing = {}
    /\ macCalls' = [i \in DOMAIN macCalls |->
                      IF macCalls[i].at = "INIT" THEN [macCalls[i] EXCEPT !.at = "EVAL"]
                                                 ELSE macCalls[i]]
    /\ spc' = IF \E i \in DOMAIN macCalls : macCalls[i].at # "FAIL" THEN "Wait" ELSE "Recv"
    /\ UNCHANGED <<enableParallelMacro, cpc, clientVars, msgList, cOut, linkVars,
                   sOut, midMessage, p2c, c2p, crashes>>

\* A coroutine of the server ends: isDataReady.
CallDone(i) ==
    /\ spc # "Down" /\ i \in DOMAIN macCalls /\ macCalls[i].at = "EVAL"
    /\ macCalls' = [macCalls EXCEPT ![i].at = "DONE"]
    /\ UNCHANGED <<enableParallelMacro, cpc, clientVars, msgList, cOut, linkVars,
                   spc, sOut, midMessage, p2c, c2p, crashes>>

\* The list once the result of its entry i is sent; the serial loop keeps it.
Forget(i) ==
    IF enableParallelMacro THEN RemoveAt(macCalls, i)
                           ELSE [macCalls EXCEPT ![i].at = "FAIL"]

\* The busy-wait finds a call ready and its result is sent: one per message.
SrvResult(i) ==
    /\ spc = "Wait" /\ i \in DOMAIN macCalls /\ macCalls[i].at = "DONE"
    /\ macCalls' = Forget(i)
    /\ sOut' = Slices(Answer("result", macCalls[i], macCalls[i].call \notin Failing))
    /\ spc' = "Write"
    /\ UNCHANGED <<enableParallelMacro, cpc, clientVars, msgList, cOut, linkVars,
                   midMessage, p2c, c2p, crashes>>

\* Where a message that has been written leads: after a result the server reads.
AfterAnswer_Mut(kind) ==
    IF kind = "notFound" THEN "Find"
    ELSE IF \E i \in DOMAIN macCalls : macCalls[i].at # "FAIL" THEN "Wait" ELSE "Recv"
AfterAnswer(kind) == IF kind = "notFound" THEN "Find" ELSE "Recv"

\* WriteToClientPipe, one slice.
SrvWrite ==
    /\ spc = "Write" /\ Len(c2p) < Cap
    /\ c2p' = Append(c2p, Head(sOut))
    /\ sOut' = Tail(sOut)
    /\ spc' = IF sOut' # <<>> THEN "Write" ELSE AfterAnswer(Head(sOut).msg.kind)
    /\ UNCHANGED <<enableParallelMacro, cpc, clientVars, msgList, cOut, linkVars,
                   macCalls, midMessage, p2c, crashes>>

\* A macro may take the whole process with it.
Crash ==
    /\ spc # "Down" /\ crashes < MaxCrashes
    /\ crashes' = crashes + 1
    /\ spc' = "Down"
    /\ UNCHANGED <<enableParallelMacro, cpc, clientVars, msgList, cOut, linkVars,
                   macCalls, sOut, midMessage, p2c, c2p>>

\* PR_SET_PDEATHSIG and MonitoringParentProcess: the server does not outlive
\* the client.
ParentGone ==
    /\ cpc = "Exited" /\ spc # "Down"
    /\ spc' = "Down"
    /\ UNCHANGED <<enableParallelMacro, cpc, clientVars, msgList, cOut, linkVars,
                   macCalls, sOut, midMessage, p2c, c2p, crashes>>

-----------------------------------------------------------------------------
Client ==
    \/ StartCalls \/ EndEvaluation \/ ClientWrite \/ SendFails \/ ClientRead \/ ReadFails
    \/ ReadMore \/ ResultsIn \/ Collect \/ SerialResultIn \/ WaitExit

Server ==
    \/ SrvRead \/ SrvNotFound \/ SrvStart \/ SrvWrite
    \/ \E i \in DOMAIN macCalls : SrvResult(i)

Coroutines == \E i \in DOMAIN macCalls : CallDone(i)

\* Nothing is left to do: no further evaluation, or the client is gone.
Rest ==
    /\ \/ cpc = "Idle" /\ round = MaxRounds
       \/ cpc = "Exited" /\ spc = "Down"
    /\ UNCHANGED vars

Next ==
    \/ Begin \/ Client \/ Signal \/ WaitSpin \/ WaitProcessExit
    \/ Server \/ Coroutines \/ Crash \/ ParentGone \/ Rest

Spec == Init /\ [][Next]_vars

\* Both processes and the waiting thread are scheduled, and a macro returns.
FairSpec ==
    /\ Spec
    /\ WF_vars(Client) /\ WF_vars(Server) /\ WF_vars(Coroutines)
    /\ WF_vars(WaitProcessExit) /\ WF_vars(ParentGone)

-----------------------------------------------------------------------------
Message == [kind : {"def", "calls", "stg", "exit", "respond", "notFound", "result"},
            calls : Seq(0..N), round : 0..MaxRounds, ok : BOOLEAN]
Slice == [msg : Message, last : BOOLEAN]

TypeOK ==
    /\ enableParallelMacro \in BOOLEAN
    /\ cpc \in Sending \cup {"Idle", "ReadDef", "Turn", "Read", "More", "Collect",
                             "WaitExit", "Exited"}
    /\ round \in 0..MaxRounds
    /\ status \in [Call -> {"INIT", "EVAL", "SUCCESS", "FAIL"}]
    /\ evalMacCalls \in Seq(Call) /\ Len(evalMacCalls) <= Width
    /\ isDataReady \subseteq Running
    /\ result \in [Call -> (0..MaxRounds) \X (0..N)]
    /\ msgList \in Seq(Message)
    /\ {cOut, sOut, p2c, c2p} \subseteq Seq(Slice)
    /\ Len(p2c) <= Cap /\ Len(c2p) <= Cap
    /\ {pipeError, macroSrvRun, midMessage} \subseteq BOOLEAN
    /\ spc \in {"Down", "Recv", "Find", "Wait", "Write"}
    /\ macCalls \in Seq([call : Call, round : 1..MaxRounds,
                         at : {"INIT", "EVAL", "DONE", "FAIL"}])
    /\ crashes \in 0..MaxCrashes

\* A call that succeeds holds the tokens of its own evaluation and of no other
\* call: the match of identifier and position finds the right call.
OwnResult ==
    \A c \in Call : status[c] = "SUCCESS" => result[c] = <<round, c>>

\* Answers on their way to the client, in a pipe or still being written.
InFlight == {slice.msg : slice \in {s \in ToSet(c2p) \cup ToSet(sOut) :
                                       s.msg.kind \in {"notFound", "result"}}}

\* While the pipes work every result on its way is awaited: it is for a call of
\* this evaluation that runs and has no result, however the server was stopped
\* and started before ("DeserializeMacroCallsResult not find macCall" never
\* appears).
NoStrayResult ==
    (~pipeError /\ cpc \notin {"SendExit", "WaitExit", "Exited"}) =>
        \A msg \in InFlight : /\ msg.round = round
                              /\ Head(msg.calls) \in Running \ isDataReady

\* The message that only asks for the next result never reaches a server with
\* no call left, which would take it for an error and exit (EvalMacroCall).
ServerNeverStarved ==
    (spc = "Recv" /\ p2c # <<>> /\ ~midMessage /\ cpc \notin {"SendExit", "WaitExit", "Exited"}) =>
        LET msg == Head(p2c).msg
        IN msg.kind = "calls" /\ msg.calls = <<>> => macCalls # <<>>

\* A call fails only for a cause: it has no method, its function failed, or the
\* server is gone.  A mix-up of messages never fails one, and ReadMsgFromSrv and
\* SendMsgToSrv never give up on a server that lives.
FailsWithCause ==
    \A c \in Call : status[c] = "FAIL" =>
        c \in NotFound \cup Failing \/ (pipeError /\ spc = "Down")

\* Every evaluation ends, with the server alive, lost, or restarted.
EvaluationEnds == cpc = "Turn" ~> cpc \in {"Idle", "Exited"}

\* A signal ends the client, and the server with it, although the server may be
\* in the middle of a message in either direction.
ShutdownEnds == cpc = "SendExit" ~> (cpc = "Exited" /\ spc = "Down")
=============================================================================
