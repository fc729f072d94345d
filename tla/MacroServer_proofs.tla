-------------------------- MODULE MacroServer_proofs --------------------------
(***************************************************************************)
(* Theorems about MacroServer, for every number of calls and slots, every  *)
(* capacity of the pipes, every choice of calls that fail, are long or     *)
(* cannot be found, and every bound of evaluations and crashes.            *)
(***************************************************************************)
EXTENDS MacroServer, FiniteSetTheorems, FunctionTheorems, SequenceTheorems, WellFoundedInduction, TLAPS

(***************************************************************************)
(* Sequences: what goes through a pipe, and lists that lose an element.    *)
(***************************************************************************)
\* A slice that is written goes from one part of a stream to the other.
LEMMA SlicePasses ==
    ASSUME NEW S, NEW s \in Seq(S), NEW t \in Seq(S), t # <<>>
    PROVE  Append(s, Head(t)) \o Tail(t) = s \o t
  <1> DEFINE u == Append(s, Head(t)) \o Tail(t)
             v == s \o t
  <1>1. u \in Seq(S) /\ v \in Seq(S) /\ Len(u) = Len(v)
    OBVIOUS
  <1>2. \A k \in 1..Len(u) : u[k] = v[k]
    OBVIOUS
  <1> QED
    BY <1>1, <1>2

\* A slice that is read is the first of its stream.
LEMMA FirstTaken ==
    ASSUME NEW S, NEW s \in Seq(S), NEW t \in Seq(S), s # <<>>
    PROVE  /\ s \o t \in Seq(S) /\ Len(s \o t) > 0 /\ (s \o t)[1] = Head(s)
           /\ Tail(s) \o t \in Seq(S) /\ Len(Tail(s) \o t) = Len(s \o t) - 1
           /\ \A k \in 1..Len(Tail(s) \o t) : (Tail(s) \o t)[k] = (s \o t)[k + 1]
  OBVIOUS

LEMMA EmptyEnd ==
    ASSUME NEW S, NEW s \in Seq(S)
    PROVE  s \o <<>> = s /\ <<>> \o s = s
  OBVIOUS

\* A list that loses one of its elements.
LEMMA Removed ==
    ASSUME NEW S, NEW s \in Seq(S), NEW i \in DOMAIN s
    PROVE  /\ RemoveAt(s, i) \in Seq(S) /\ Len(RemoveAt(s, i)) = Len(s) - 1
           /\ \A k \in 1..(Len(s) - 1) :
                 RemoveAt(s, i)[k] = IF k < i THEN s[k] ELSE s[k + 1]
           /\ \A k \in DOMAIN s : k < i => RemoveAt(s, i)[k] = s[k]
           /\ \A k \in DOMAIN s : k > i => RemoveAt(s, i)[k - 1] = s[k]
  <1> DEFINE a == SubSeq(s, 1, i - 1)
             b == SubSeq(s, i + 1, Len(s))
  <1>1. i \in 1..Len(s) /\ Len(s) \in Nat
    OBVIOUS
  <1>2. a \in Seq(S) /\ Len(a) = i - 1 /\ \A k \in 1..(i - 1) : a[k] = s[k]
    BY <1>1
  <1>3. b \in Seq(S) /\ Len(b) = Len(s) - i /\ \A k \in 1..(Len(s) - i) : b[k] = s[i + k]
    BY <1>1
  <1> HIDE DEF a, b
  <1>4. a \o b \in Seq(S) /\ Len(a \o b) = Len(s) - 1
    BY <1>1, <1>2, <1>3
  <1>5. \A k \in 1..(Len(s) - 1) : (a \o b)[k] = IF k < i THEN s[k] ELSE s[k + 1]
    <2> SUFFICES ASSUME NEW k \in 1..(Len(s) - 1)
                 PROVE  (a \o b)[k] = IF k < i THEN s[k] ELSE s[k + 1]
      OBVIOUS
    <2>1. CASE k < i
      BY <1>1, <1>2, <1>3, <2>1
    <2>2. CASE ~(k < i)
      <3>1. /\ k - (i - 1) \in 1..(Len(s) - i) /\ k - Len(a) = k - (i - 1)
            /\ k \in 1..(Len(a) + Len(b)) /\ ~(k <= Len(a)) /\ i + (k - (i - 1)) = k + 1
        BY <1>1, <1>2, <1>3, <2>2
      <3>2. (a \o b)[k] = b[k - Len(a)]
        BY <1>2, <1>3, <3>1, ConcatProperties
      <3> QED
        BY <1>1, <1>3, <2>2, <3>1, <3>2
    <2> QED
      BY <2>1, <2>2
  <1>6. RemoveAt(s, i) = a \o b
    BY DEF RemoveAt, a, b
  <1> HIDE DEF RemoveAt
  <1>7. ASSUME NEW k \in DOMAIN s, k < i PROVE RemoveAt(s, i)[k] = s[k]
    <2>1. k \in 1..(Len(s) - 1)
      BY <1>1, <1>7
    <2> QED
      BY <1>5, <1>6, <1>7, <2>1
  <1>8. ASSUME NEW k \in DOMAIN s, k > i PROVE RemoveAt(s, i)[k - 1] = s[k]
    <2>1. k - 1 \in 1..(Len(s) - 1) /\ ~(k - 1 < i) /\ (k - 1) + 1 = k
      BY <1>1, <1>8
    <2> QED
      BY <1>5, <1>6, <2>1
  <1> QED
    BY <1>4, <1>5, <1>6, <1>7, <1>8

LEMMA LeastNumber ==
    ASSUME NEW T \in SUBSET Nat, T # {}
    PROVE  \E m \in T : \A k \in T : m <= k
  <1> DEFINE Less == {p \in Nat \X Nat : p[1] < p[2]}
  <1>1. IsWellFoundedOn(Less, Nat)
    BY NatLessThanWellFounded DEF OpToRel
  <1>2. PICK m \in T : \A k \in T : <<k, m>> \notin Less
    <2> HIDE DEF Less
    <2> QED
      BY <1>1, WFMin
  <1>3. m \in Nat /\ \A k \in T : k \in Nat /\ ~(k < m)
    BY <1>2
  <1> HIDE DEF Less
  <1> QED
    BY <1>3

LEMMA GreatestIndex ==
    ASSUME NEW n \in Nat, NEW T \in SUBSET (1..n), T # {}
    PROVE  \E k \in T : \A l \in T : l <= k
  <1> DEFINE D == {d \in Nat : \E k \in T : d = n - k}
  <1>1. D \in SUBSET Nat /\ D # {}
    <2>1. PICK k \in T : TRUE
      OBVIOUS
    <2>2. n - k \in D
      OBVIOUS
    <2> QED
      BY <2>2
  <1>2. PICK m \in D : \A d \in D : m <= d
    <2> HIDE DEF D
    <2> QED
      BY <1>1, LeastNumber
  <1>3. PICK k \in T : m = n - k
    BY <1>2
  <1>4. \A l \in T : n - l \in D
    OBVIOUS
  <1>5. \A l \in T : n - k <= n - l
    BY <1>2, <1>3, <1>4
  <1> QED
    BY <1>5

(***************************************************************************)
(* First layer: types, and what goes with each place of the two programs.  *)
(***************************************************************************)
Leaving == {"SendExit", "WaitExit", "Exited"}

TaskMessage == [kind : {"def", "calls", "stg", "exit"}, calls : Seq(Call),
                round : 1..MaxRounds, ok : BOOLEAN]
AnswerMessage == [kind : {"respond", "notFound", "result"},
                  calls : {s \in Seq(0..N) : Len(s) = 1},
                  round : 1..MaxRounds, ok : BOOLEAN]
TaskSlice == [msg : TaskMessage, last : BOOLEAN]
AnswerSlice == [msg : AnswerMessage, last : BOOLEAN]

\* What is on its way to the server and to the client, in order.
Out == p2c \o cOut
In == c2p \o sOut

ClientShape ==
    /\ cpc # "Idle" => round > 0
    /\ cpc \in Sending <=> cOut # <<>>
    /\ cpc \in {"Idle", "SendDef", "ReadDef", "SendStg"} => evalMacCalls = <<>>
    /\ cpc \in {"SendCalls", "Read", "More", "Collect"} => evalMacCalls # <<>>
    /\ cpc \notin {"Read", "More"} \cup Leaving => msgList = <<>>
    /\ cpc = "More" => msgList # <<>>
    /\ ~enableParallelMacro =>
          isDataReady = {} /\ cpc # "Collect" /\ (cpc = "Turn" => evalMacCalls = <<>>)
    /\ \A i, j \in DOMAIN evalMacCalls : evalMacCalls[i] = evalMacCalls[j] => i = j
    /\ \A c \in Running : status[c] \in {"EVAL", "FAIL"}

ServerShape ==
    /\ pipeError => spc = "Down"
    /\ spc = "Write" => sOut # <<>>
    /\ spc \in {"Recv", "Find", "Wait"} => sOut = <<>>

Streams ==
    /\ p2c \in Seq(TaskSlice) /\ cOut \in Seq(TaskSlice)
    /\ c2p \in Seq(AnswerSlice) /\ sOut \in Seq(AnswerSlice)
    /\ msgList \in Seq(AnswerMessage)

Entry == [call : Call, round : 1..MaxRounds, at : {"INIT", "EVAL", "DONE", "FAIL"}]

Types ==
    /\ enableParallelMacro \in BOOLEAN
    /\ cpc \in Sending \cup {"Idle", "ReadDef", "Turn", "Read", "More", "Collect",
                             "WaitExit", "Exited"}
    /\ round \in 0..MaxRounds
    /\ status \in [Call -> {"INIT", "EVAL", "SUCCESS", "FAIL"}]
    /\ evalMacCalls \in Seq(Call) /\ Len(evalMacCalls) <= Width
    /\ isDataReady \subseteq Running
    /\ result \in [Call -> (0..MaxRounds) \X (0..N)]
    /\ Len(p2c) <= Cap /\ Len(c2p) <= Cap
    /\ {pipeError, macroSrvRun, midMessage} \subseteq BOOLEAN
    /\ spc \in {"Down", "Recv", "Find", "Wait", "Write"}
    /\ macCalls \in Seq(Entry)
    /\ crashes \in 0..MaxCrashes

Shape == Types /\ Streams /\ ClientShape /\ ServerShape

LEMMA ShapeTypes == Shape => TypeOK
  <1>1. TaskMessage \subseteq Message /\ AnswerMessage \subseteq Message
    <2>1. Call \subseteq 0..N
      BY ConstantsAssumption DEF Call, ConstantsAssumption
    <2>2. \A s \in Seq(Call) : s \in Seq(0..N)
      BY <2>1, SeqMonotonic
    <2> QED
      BY <2>2 DEF TaskMessage, AnswerMessage, Message
  <1>2. TaskSlice \subseteq Slice /\ AnswerSlice \subseteq Slice
    BY <1>1 DEF TaskSlice, AnswerSlice, Slice
  <1>3. /\ \A s \in Seq(TaskSlice) : s \in Seq(Slice)
        /\ \A s \in Seq(AnswerSlice) : s \in Seq(Slice)
        /\ \A s \in Seq(AnswerMessage) : s \in Seq(Message)
    BY <1>1, <1>2, SeqMonotonic
  <1> QED
    BY <1>3 DEF Shape, Types, Streams, TypeOK, Entry

LEMMA ShapeInit == Init => Shape
  <1> SUFFICES ASSUME Init PROVE Shape
    OBVIOUS
  <1>1. <<>> \in Seq(TaskSlice) /\ <<>> \in Seq(AnswerSlice) /\ <<>> \in Seq(AnswerMessage)
        /\ <<>> \in Seq(Call) /\ <<>> \in Seq(Entry) /\ Len(<<>>) = 0
        /\ \A i : i \notin DOMAIN <<>>
    OBVIOUS
  <1>2. 0 <= Width
    BY ConstantsAssumption DEF ConstantsAssumption, Width
  <1>3. NoResult \in (0..MaxRounds) \X (0..N)
    BY ConstantsAssumption DEF ConstantsAssumption, NoResult
  <1>4. Types
    <2>1. /\ result \in [Call -> (0..MaxRounds) \X (0..N)]
          /\ status \in [Call -> {"INIT", "EVAL", "SUCCESS", "FAIL"}]
      BY <1>3 DEF Init
    <2>2. /\ round \in 0..MaxRounds /\ crashes \in 0..MaxCrashes
          /\ Len(p2c) <= Cap /\ Len(c2p) <= Cap
      BY <1>1, ConstantsAssumption DEF Init, ConstantsAssumption
    <2>3. evalMacCalls \in Seq(Call) /\ Len(evalMacCalls) <= Width /\ macCalls \in Seq(Entry)
      BY <1>1, <1>2 DEF Init
    <2> QED
      BY <2>1, <2>2, <2>3 DEF Init, Types
  <1>5. Streams /\ ClientShape /\ ServerShape
    BY <1>1 DEF Init, Streams, ClientShape, ServerShape, Running, ToSet, Sending, Leaving
  <1> QED
    BY <1>4, <1>5 DEF Shape

\* What a message becomes in a pipe.
LEMMA SliceFacts ==
    ASSUME NEW M, NEW m \in M
    PROVE  /\ Slices(m) \in Seq([msg : M, last : BOOLEAN]) /\ Len(Slices(m)) \in Nat \ {0}
           /\ Slices(m) # <<>>
           /\ \A k \in DOMAIN Slices(m) : /\ Slices(m)[k].msg = m
                                          /\ Slices(m)[k].last <=> k = Len(Slices(m))
           /\ DOMAIN Slices(m) = 1..Len(Slices(m))
           /\ ToSet(m.calls) \cap Big = {} => Len(Slices(m)) = 1
  <1> DEFINE n == IF ToSet(m.calls) \cap Big = {} THEN 1 ELSE Cap + 1
  <1>1. n \in Nat \ {0}
    BY ConstantsAssumption DEF ConstantsAssumption
  <1>2. Slices(m) = [i \in 1..n |-> [msg |-> m, last |-> i = n]]
    BY DEF Slices
  <1> HIDE DEF n
  <1>3. Slices(m) \in Seq([msg : M, last : BOOLEAN]) /\ Len(Slices(m)) = n
        /\ DOMAIN Slices(m) = 1..n
    BY <1>1, <1>2
  <1>4. ASSUME NEW k \in DOMAIN Slices(m)
        PROVE  Slices(m)[k].msg = m /\ (Slices(m)[k].last <=> k = n)
    <2>1. Slices(m)[k] = [msg |-> m, last |-> k = n]
      BY <1>2, <1>3
    <2>2. Slices(m)[k].msg = m /\ Slices(m)[k].last = (k = n)
      BY <2>1
    <2> QED
      BY <2>2
  <1>5. Slices(m) # <<>>
    BY <1>1, <1>3
  <1> QED
    BY <1>1, <1>3, <1>4, <1>5 DEF n

\* The list of the server once it has read a task.
LEMMA ReceivedFacts ==
    ASSUME macCalls \in Seq(Entry), NEW calls \in Seq(Call), NEW rnd \in 1..MaxRounds
    PROVE  /\ Received(calls, rnd) \in Seq(Entry)
           /\ Len(Received(calls, rnd)) = Len(macCalls) + Len(calls)
           /\ \A i \in 1..Len(macCalls) : Received(calls, rnd)[i] = macCalls[i]
           /\ \A i \in 1..Len(calls) : Received(calls, rnd)[Len(macCalls) + i] =
                  [call |-> calls[i], round |-> rnd, at |-> "INIT"]
           /\ \A i \in 1..(Len(macCalls) + Len(calls)) :
                 i > Len(macCalls) => \E j \in 1..Len(calls) : i = Len(macCalls) + j
  <1> DEFINE new == [i \in DOMAIN calls |-> [call |-> calls[i], round |-> rnd, at |-> "INIT"]]
  <1>0. DOMAIN calls = 1..Len(calls) /\ Len(calls) \in Nat /\ \A i \in DOMAIN calls : calls[i] \in Call
    OBVIOUS
  <1>1. new \in Seq(Entry) /\ Len(new) = Len(calls) /\ Len(calls) \in Nat
        /\ \A i \in 1..Len(calls) : new[i] = [call |-> calls[i], round |-> rnd, at |-> "INIT"]
    <2>1. \A i \in 1..Len(calls) : [call |-> calls[i], round |-> rnd, at |-> "INIT"] \in Entry
      BY <1>0 DEF Entry
    <2>2. new = [i \in 1..Len(calls) |-> [call |-> calls[i], round |-> rnd, at |-> "INIT"]]
      BY <1>0
    <2>3. new \in [1..Len(calls) -> Entry]
      BY <2>1, <2>2
    <2> HIDE DEF new
    <2>4. new \in Seq(Entry) /\ Len(new) = Len(calls)
      BY <1>0, <2>3
    <2> QED
      BY <1>0, <2>2, <2>4
  <1>2. Received(calls, rnd) = macCalls \o new
    BY DEF Received
  <1> HIDE DEF new
  <1>3. ASSUME NEW i \in 1..(Len(macCalls) + Len(calls)), i > Len(macCalls)
        PROVE  \E j \in 1..Len(calls) : i = Len(macCalls) + j
    <2>1. i - Len(macCalls) \in 1..Len(calls) /\ i = Len(macCalls) + (i - Len(macCalls))
      BY <1>1, <1>3
    <2> QED
      BY <2>1
  <1> QED
    <2>1. \A i \in 1..(Len(macCalls) + Len(calls)) : (macCalls \o new)[i] =
             IF i <= Len(macCalls) THEN macCalls[i] ELSE new[i - Len(macCalls)]
      BY <1>1, ConcatProperties
    <2>2. Len(macCalls) \in Nat
      OBVIOUS
    <2>3. /\ \A i \in 1..Len(macCalls) : i \in 1..(Len(macCalls) + Len(calls)) /\ i <= Len(macCalls)
          /\ \A i \in 1..Len(calls) :
                /\ Len(macCalls) + i \in 1..(Len(macCalls) + Len(calls))
                /\ ~(Len(macCalls) + i <= Len(macCalls)) /\ Len(macCalls) + i - Len(macCalls) = i
      BY <1>1, <2>2
    <2> QED
      BY <1>1, <1>2, <1>3, <2>1, <2>3, ConcatProperties

LEMMA TaskFacts ==
    ASSUME NEW kind \in {"def", "calls", "stg", "exit"}, NEW calls \in Seq(Call),
           NEW rnd \in 1..MaxRounds
    PROVE  /\ Task(kind, calls, rnd) \in TaskMessage
           /\ Slices(Task(kind, calls, rnd)) \in Seq(TaskSlice)
           /\ Slices(Task(kind, calls, rnd)) # <<>>
  <1>1. Task(kind, calls, rnd) \in TaskMessage
    BY DEF Task, TaskMessage
  <1> QED
    BY <1>1, SliceFacts DEF TaskSlice

LEMMA RespondFacts ==
    ASSUME NEW rnd \in 1..MaxRounds
    PROVE  /\ Answer("respond", [call |-> 0, round |-> rnd], TRUE) \in AnswerMessage
           /\ Slices(Answer("respond", [call |-> 0, round |-> rnd], TRUE)) \in Seq(AnswerSlice)
           /\ Slices(Answer("respond", [call |-> 0, round |-> rnd], TRUE)) # <<>>
  <1>1. <<0>> \in Seq(0..N) /\ Len(<<0>>) = 1
    BY ConstantsAssumption DEF ConstantsAssumption
  <1>2. Answer("respond", [call |-> 0, round |-> rnd], TRUE) \in AnswerMessage
    BY <1>1 DEF Answer, AnswerMessage
  <1>3. ASSUME NEW resp \in AnswerMessage
        PROVE  Slices(resp) \in Seq(AnswerSlice) /\ Slices(resp) # <<>>
    BY SliceFacts DEF AnswerSlice
  <1> QED
    BY <1>2, <1>3

\* The answer about an entry of the server's list.
LEMMA AnswerAbout ==
    ASSUME NEW e \in Entry, NEW kind \in {"notFound", "result"}, NEW ok \in BOOLEAN
    PROVE  /\ Answer(kind, e, ok) \in AnswerMessage
           /\ Slices(Answer(kind, e, ok)) \in Seq(AnswerSlice)
           /\ Slices(Answer(kind, e, ok)) # <<>>
  <1>1. <<e.call>> \in Seq(0..N) /\ Len(<<e.call>>) = 1
    BY ConstantsAssumption DEF ConstantsAssumption, Entry, Call
  <1>2. Answer(kind, e, ok) \in AnswerMessage
    BY <1>1 DEF Answer, AnswerMessage, Entry
  <1> QED
    BY <1>2, SliceFacts DEF AnswerSlice

\* An entry of the server's list that is marked.
LEMMA Marked ==
    ASSUME NEW s \in Seq(Entry), NEW i \in DOMAIN s, NEW v \in {"EVAL", "DONE", "FAIL"}
    PROVE  LET t == [s EXCEPT ![i].at = v]
           IN /\ t \in Seq(Entry) /\ Len(t) = Len(s) /\ DOMAIN t = DOMAIN s
              /\ t[i].at = v
              /\ \A j \in DOMAIN s : /\ t[j].call = s[j].call /\ t[j].round = s[j].round
                                     /\ j # i => t[j] = s[j]
  <1>1. s[i] \in Entry
    OBVIOUS
  <1>2. [s[i] EXCEPT !.at = v] \in Entry
    BY <1>1 DEF Entry
  <1>3. [s EXCEPT ![i].at = v] \in Seq(Entry) /\ Len([s EXCEPT ![i].at = v]) = Len(s)
    BY <1>2
  <1>4. \A j \in DOMAIN s : s[j] \in Entry
    OBVIOUS
  <1> QED
    BY <1>1, <1>3, <1>4 DEF Entry

LEMMA ClientShapeKept ==
    ASSUME ClientShape, UNCHANGED <<enableParallelMacro, cpc, clientVars, msgList, cOut>>
    PROVE  ClientShape'
  BY DEF ClientShape, clientVars, Running

LEMMA ServerShapeKept ==
    ASSUME ServerShape, UNCHANGED <<spc, sOut, pipeError>>
    PROVE  ServerShape'
  BY DEF ServerShape

LEMMA WidthKept ==
    ASSUME enableParallelMacro' = enableParallelMacro
    PROVE  Width' = Width
  BY DEF Width

LEMMA ShapeServerStep ==
    ASSUME Shape, Server \/ Coroutines \/ Crash \/ ParentGone \/ WaitProcessExit
    PROVE  Shape'
  <1> USE DEF clientVars, linkVars, serverVars
  <1>1. Types /\ Streams /\ ClientShape /\ ServerShape
    BY DEF Shape
  <1>2. enableParallelMacro' = enableParallelMacro /\ UNCHANGED <<cpc, clientVars, msgList, cOut>>
    BY DEF Server, Coroutines, SrvRead, SrvNotFound, SrvStart, SrvWrite, SrvResult, CallDone,
           Crash, ParentGone, WaitProcessExit
  <1>3. ClientShape' /\ Width' = Width /\ Running' = Running
    BY <1>1, <1>2, ClientShapeKept, WidthKept DEF Running
  <1>4. CASE SrvRead
    <2>1. /\ spc = "Recv" /\ p2c # <<>> /\ p2c' = Tail(p2c) /\ midMessage' \in BOOLEAN
          /\ UNCHANGED <<cOut, c2p, crashes, msgList, pipeError, macroSrvRun>>
          /\ Handle(Head(p2c).msg) \/ UNCHANGED <<spc, macCalls, sOut>>
      BY <1>1, <1>4 DEF SrvRead, Types, Streams, TaskSlice
    <2>2. p2c' \in Seq(TaskSlice) /\ Len(p2c') <= Cap /\ Head(p2c).msg \in TaskMessage
      <3>1. Len(Tail(p2c)) = Len(p2c) - 1 /\ Len(p2c) \in Nat /\ Cap \in Nat /\ Len(p2c) <= Cap
        BY <1>1, <2>1, ConstantsAssumption DEF Types, Streams, ConstantsAssumption
      <3>2. Tail(p2c) \in Seq(TaskSlice) /\ Head(p2c) \in TaskSlice
        BY <1>1, <2>1 DEF Streams
      <3> QED
        BY <2>1, <3>1, <3>2 DEF TaskSlice
    <2> DEFINE msg == Head(p2c).msg
    <2>3. pipeError = FALSE /\ sOut = <<>>
      BY <1>1, <2>1 DEF ServerShape, Types
    <2>4. /\ macCalls' \in Seq(Entry) /\ sOut' \in Seq(AnswerSlice)
          /\ spc' \in {"Down", "Recv", "Find", "Wait", "Write"}
          /\ spc' = "Write" => sOut' # <<>>
          /\ spc' \in {"Recv", "Find", "Wait"} => sOut' = <<>>
      <3>1. CASE UNCHANGED <<spc, macCalls, sOut>>
        BY <1>1, <3>1 DEF Types, Streams, ServerShape
      <3>2. CASE Handle(msg) /\ msg.kind = "def"
        <4>1. msg.round \in 1..MaxRounds
          BY <2>2 DEF TaskMessage
        <4>2. /\ spc' = "Write" /\ macCalls' = macCalls
              /\ sOut' = Slices(Answer("respond", [call |-> 0, round |-> msg.round], TRUE))
          BY <3>2 DEF Handle
        <4>5. sOut' \in Seq(AnswerSlice) /\ sOut' # <<>>
          BY <4>1, <4>2, RespondFacts
        <4> QED
          BY <1>1, <4>2, <4>5 DEF Types
      <3>3. CASE Handle(msg) /\ msg.kind = "calls"
        <4> DEFINE known == Received(msg.calls, msg.round)
        <4>1. known \in Seq(Entry)
          BY <1>1, <2>2, ReceivedFacts DEF TaskMessage, Types
        <4>2. /\ sOut' = sOut
              /\ IF known = <<>> THEN spc' = "Down" /\ UNCHANGED macCalls
                 ELSE IF enableParallelMacro THEN spc' = "Find" /\ macCalls' = known
                 ELSE SerialStart(known)
          BY <3>3 DEF Handle
        <4> HIDE DEF known
        <4>3. CASE ~(known # <<>> /\ ~enableParallelMacro)
          BY <1>1, <2>3, <4>1, <4>2, <4>3 DEF Types, Streams
        <4>4. CASE known # <<>> /\ ~enableParallelMacro
          <5>1. SerialStart(known)
            BY <4>2, <4>4
          <5>2. Len(known) \in DOMAIN known /\ known[Len(known)] \in Entry
            BY <4>1, <4>4
          <5>3. [known EXCEPT ![Len(known)].at = "EVAL"] \in Seq(Entry)
            BY <4>1, <5>2 DEF Entry
          <5> QED
            BY <1>1, <2>3, <4>1, <4>2, <5>1, <5>3 DEF SerialStart, SerialTask, Streams
        <4> QED
          BY <4>3, <4>4
      <3>4. CASE Handle(msg) /\ msg.kind \in {"stg", "exit"}
        <4>1. <<>> \in Seq(Entry)
          OBVIOUS
        <4>2. (macCalls' = <<>> \/ macCalls' = macCalls) /\ sOut' = sOut /\ spc' \in {"Recv", "Down"}
          BY <2>1, <3>4 DEF Handle
        <4> QED
          BY <1>1, <2>3, <4>1, <4>2 DEF Types, Streams
      <3> QED
        BY <2>1, <2>2, <3>1, <3>2, <3>3, <3>4 DEF TaskMessage
    <2> QED
      BY <1>1, <1>2, <1>3, <2>1, <2>2, <2>3, <2>4 DEF Shape, Types, Streams, ServerShape
  <1>5. CASE SrvNotFound
    <2> DEFINE i == CHOOSE i \in Missing : \A j \in Missing : i <= j
    <2>1. i \in DOMAIN macCalls /\ macCalls[i] \in Entry
      <3>1. Missing \subseteq Nat /\ Missing # {} /\ Missing \subseteq DOMAIN macCalls
        BY <1>1, <1>5 DEF Types, SrvNotFound, Missing
      <3>2. \E k \in Missing : \A j \in Missing : k <= j
        BY <3>1, LeastNumber
      <3>3. i \in Missing
        BY <3>2
      <3> HIDE DEF i
      <3> QED
        BY <1>1, <3>1, <3>3 DEF Types
    <2>2. /\ macCalls' = [macCalls EXCEPT ![i].at = "FAIL"]
          /\ sOut' = Slices(Answer("notFound", macCalls[i], FALSE))
          /\ spc = "Find" /\ spc' = "Write"
          /\ UNCHANGED <<p2c, c2p, crashes, pipeError, macroSrvRun, midMessage>>
      BY <1>5 DEF SrvNotFound
    <2> HIDE DEF i
    <2>3. sOut' \in Seq(AnswerSlice) /\ sOut' # <<>>
      BY <2>1, <2>2, AnswerAbout
    <2>4. macCalls' \in Seq(Entry)
      BY <1>1, <2>1, <2>2, Marked DEF Types
    <2> QED
      BY <1>1, <1>2, <1>3, <2>2, <2>3, <2>4 DEF Shape, Types, Streams, ServerShape
  <1>6. CASE SrvStart
    <2>1. macCalls' \in Seq(Entry)
      <3>1. ASSUME NEW i \in DOMAIN macCalls
            PROVE  macCalls[i] \in Entry /\ [macCalls[i] EXCEPT !.at = "EVAL"] \in Entry
        <4>1. macCalls[i] \in Entry
          BY <1>1 DEF Types
        <4> QED
          BY <4>1 DEF Entry
      <3>2. macCalls' \in [1..Len(macCalls) -> Entry] /\ Len(macCalls) \in Nat
        BY <1>1, <1>6, <3>1 DEF SrvStart, Types
      <3> QED
        BY <3>2
    <2>2. /\ spc = "Find" /\ spc' \in {"Wait", "Recv"}
          /\ UNCHANGED <<p2c, c2p, crashes, pipeError, macroSrvRun, midMessage, sOut>>
      BY <1>6 DEF SrvStart
    <2> QED
      BY <1>1, <1>2, <1>3, <2>1, <2>2 DEF Shape, Types, Streams, ServerShape
  <1>7. CASE SrvWrite
    <2>1. /\ spc = "Write" /\ Len(c2p) < Cap /\ c2p' = Append(c2p, Head(sOut)) /\ sOut' = Tail(sOut)
          /\ spc' = (IF sOut' # <<>> THEN "Write" ELSE AfterAnswer(Head(sOut).msg.kind))
          /\ UNCHANGED <<p2c, crashes, pipeError, macroSrvRun, midMessage, macCalls>>
      BY <1>7 DEF SrvWrite
    <2>2. sOut # <<>> /\ Cap \in Nat
      BY <1>1, <2>1, ConstantsAssumption DEF ServerShape, ConstantsAssumption
    <2>3. /\ c2p' \in Seq(AnswerSlice) /\ sOut' \in Seq(AnswerSlice) /\ Len(c2p') <= Cap
      BY <1>1, <2>1, <2>2 DEF Streams
    <2> QED
      BY <1>1, <1>2, <1>3, <2>1, <2>3 DEF Shape, Types, Streams, ServerShape, AfterAnswer
  <1>8. ASSUME NEW i \in DOMAIN macCalls, SrvResult(i) PROVE Shape'
    <2>1. /\ macCalls' = Forget(i) /\ spc' = "Write"
          /\ sOut' = Slices(Answer("result", macCalls[i], macCalls[i].call \notin Failing))
          /\ UNCHANGED <<p2c, c2p, crashes, pipeError, macroSrvRun, midMessage>>
          /\ spc = "Wait"
      BY <1>8 DEF SrvResult
    <2>2. macCalls[i] \in Entry
      BY <1>1 DEF Types
    <2>3. sOut' \in Seq(AnswerSlice) /\ sOut' # <<>>
      BY <2>1, <2>2, AnswerAbout
    <2>4. macCalls' \in Seq(Entry)
      BY <1>1, <2>1, Removed, Marked DEF Forget, Types
    <2> QED
      BY <1>1, <1>2, <1>3, <2>1, <2>3, <2>4 DEF Shape, Types, Streams, ServerShape
  <1>9. ASSUME NEW i \in DOMAIN macCalls, CallDone(i) PROVE Shape'
    <2>1. /\ macCalls' = [macCalls EXCEPT ![i].at = "DONE"]
          /\ UNCHANGED <<p2c, c2p, crashes, pipeError, macroSrvRun, midMessage, spc, sOut>>
      BY <1>9 DEF CallDone
    <2>2. macCalls' \in Seq(Entry)
      BY <1>1, <2>1, Marked DEF Types
    <2> QED
      BY <1>1, <1>2, <1>3, <2>1, <2>2 DEF Shape, Types, Streams, ServerShape
  <1>10. CASE Crash \/ ParentGone \/ WaitProcessExit
    <2>1. /\ UNCHANGED <<p2c, c2p, pipeError, midMessage, sOut, macCalls>>
          /\ spc' = "Down" /\ macroSrvRun' \in BOOLEAN
      BY <1>1, <1>10 DEF Crash, ParentGone, WaitProcessExit, Types
    <2>2. crashes' = crashes \/ (crashes < MaxCrashes /\ crashes' = crashes + 1)
      BY <1>10 DEF Crash, ParentGone, WaitProcessExit
    <2>3. crashes' \in 0..MaxCrashes
      BY <1>1, <2>2, ConstantsAssumption DEF Types, ConstantsAssumption
    <2> QED
      BY <1>1, <1>2, <1>3, <2>1, <2>3 DEF Shape, Types, Streams, ServerShape
  <1> QED
    BY <1>4, <1>5, <1>6, <1>7, <1>8, <1>9, <1>10 DEF Server, Coroutines

\* A list in order names no call twice.
LEMMA ListFacts ==
    ASSUME NEW new \in Lists
    PROVE  /\ new \in Seq(Call) /\ Len(new) \in Nat /\ DOMAIN new = 1..Len(new)
           /\ \A i, j \in DOMAIN new : new[i] = new[j] => i = j
  <1>1. PICK n \in 0..N : new \in [1..n -> Call]
    BY DEF Lists
  <1>2. n \in Nat /\ Call \subseteq Nat
    BY ConstantsAssumption DEF ConstantsAssumption, Call
  <1>3. new \in Seq(Call) /\ Len(new) = n /\ DOMAIN new = 1..n
    BY <1>1, <1>2
  <1>4. ASSUME NEW i \in DOMAIN new, NEW j \in DOMAIN new, new[i] = new[j] PROVE i = j
    <2>1. i < j => new[i] < new[j]
      BY DEF Lists
    <2>2. j < i => new[j] < new[i]
      BY DEF Lists
    <2>3. new[i] \in Call /\ i \in 1..n /\ j \in 1..n
      BY <1>1, <1>3
    <2>4. new[i] \in Nat /\ i \in Int /\ j \in Int
      <3>1. new[i] \in Nat
        BY <1>2, <2>3
      <3> QED
        BY <1>2, <2>3, <3>1
    <2>5. ~(new[i] < new[j]) /\ ~(new[j] < new[i])
      BY <1>4, <2>4
    <2> QED
      BY <2>1, <2>2, <2>4, <2>5
  <1> QED
    BY <1>2, <1>3, <1>4

LEMMA RunningFacts ==
    ASSUME evalMacCalls \in Seq(Call)
    PROVE  /\ Running \subseteq Call
           /\ \A c : c \in Running <=> \E i \in DOMAIN evalMacCalls : evalMacCalls[i] = c
           /\ evalMacCalls = <<>> <=> Running = {}
  <1>1. \A c : c \in Running <=> \E i \in DOMAIN evalMacCalls : evalMacCalls[i] = c
    BY DEF Running, ToSet
  <1>2. evalMacCalls # <<>> => evalMacCalls[1] \in Running
    BY <1>1
  <1> QED
    BY <1>1, <1>2

\* The calls that run once more start.
LEMMA RunningGrows ==
    ASSUME evalMacCalls \in Seq(Call), NEW new \in Seq(Call),
           evalMacCalls' = evalMacCalls \o new
    PROVE  Running' = Running \cup ToSet(new)
  <1>1. ASSUME NEW c \in Running' PROVE c \in Running \cup ToSet(new)
    <2>1. PICK i \in DOMAIN (evalMacCalls \o new) : (evalMacCalls \o new)[i] = c
      BY DEF Running, ToSet
    <2>2. CASE i <= Len(evalMacCalls)
      BY <2>1, <2>2 DEF Running, ToSet
    <2>3. CASE i > Len(evalMacCalls)
      <3>1. i - Len(evalMacCalls) \in DOMAIN new /\ new[i - Len(evalMacCalls)] = c
        BY <2>1, <2>3
      <3> QED
        BY <3>1 DEF ToSet
    <2> QED
      BY <2>1, <2>2, <2>3
  <1>2. ASSUME NEW c \in Running PROVE c \in Running'
    <2>1. PICK i \in DOMAIN evalMacCalls : evalMacCalls[i] = c
      BY DEF Running, ToSet
    <2>2. i \in DOMAIN (evalMacCalls \o new) /\ (evalMacCalls \o new)[i] = c
      BY <2>1
    <2> QED
      BY <2>2 DEF Running, ToSet
  <1>3. ASSUME NEW c \in ToSet(new) PROVE c \in Running'
    <2>1. PICK i \in DOMAIN new : new[i] = c
      BY DEF ToSet
    <2>2. Len(evalMacCalls) + i \in DOMAIN (evalMacCalls \o new)
          /\ (evalMacCalls \o new)[Len(evalMacCalls) + i] = c
      BY <2>1
    <2> QED
      BY <2>2 DEF Running, ToSet
  <1> QED
    BY <1>1, <1>2, <1>3

\* The calls that run once one is collected.
LEMMA RunningShrinks ==
    ASSUME evalMacCalls \in Seq(Call), NEW i \in DOMAIN evalMacCalls,
           \A j, k \in DOMAIN evalMacCalls : evalMacCalls[j] = evalMacCalls[k] => j = k,
           evalMacCalls' = RemoveAt(evalMacCalls, i)
    PROVE  /\ Running' = Running \ {evalMacCalls[i]}
           /\ evalMacCalls' \in Seq(Call) /\ Len(evalMacCalls') = Len(evalMacCalls) - 1
           /\ \A j, k \in DOMAIN evalMacCalls' : evalMacCalls'[j] = evalMacCalls'[k] => j = k
  <1>1. /\ evalMacCalls' \in Seq(Call) /\ Len(evalMacCalls') = Len(evalMacCalls) - 1
        /\ \A k \in 1..(Len(evalMacCalls) - 1) :
              evalMacCalls'[k] = IF k < i THEN evalMacCalls[k] ELSE evalMacCalls[k + 1]
        /\ \A k \in DOMAIN evalMacCalls : k < i => evalMacCalls'[k] = evalMacCalls[k]
        /\ \A k \in DOMAIN evalMacCalls : k > i => evalMacCalls'[k - 1] = evalMacCalls[k]
    BY Removed
  <1>2. DOMAIN evalMacCalls' = 1..(Len(evalMacCalls) - 1) /\ Len(evalMacCalls) \in Nat
        /\ DOMAIN evalMacCalls = 1..Len(evalMacCalls)
    BY <1>1
  <1>3. ASSUME NEW k \in DOMAIN evalMacCalls'
        PROVE  /\ k < i => k \in DOMAIN evalMacCalls /\ evalMacCalls'[k] = evalMacCalls[k]
               /\ ~(k < i) => /\ k + 1 \in DOMAIN evalMacCalls
                              /\ evalMacCalls'[k] = evalMacCalls[k + 1]
    BY <1>1, <1>2
  <1>4. ASSUME NEW j \in DOMAIN evalMacCalls', NEW k \in DOMAIN evalMacCalls',
               evalMacCalls'[j] = evalMacCalls'[k]
        PROVE  j = k
    BY <1>2, <1>3, <1>4
  <1>5. ASSUME NEW c \in Running'
        PROVE  c \in Running /\ c # evalMacCalls[i]
    <2>1. PICK k \in DOMAIN evalMacCalls' : evalMacCalls'[k] = c
      BY DEF Running, ToSet
    <2>2. PICK l \in DOMAIN evalMacCalls : evalMacCalls[l] = c /\ l # i
      BY <1>2, <1>3, <2>1
    <2> QED
      BY <2>2 DEF Running, ToSet
  <1>6. ASSUME NEW c \in Running, c # evalMacCalls[i] PROVE c \in Running'
    <2>1. PICK k \in DOMAIN evalMacCalls : evalMacCalls[k] = c
      BY DEF Running, ToSet
    <2>2. k < i \/ k > i
      BY <1>2, <1>6, <2>1
    <2>3. \E l \in DOMAIN evalMacCalls' : evalMacCalls'[l] = c
      <3>1. CASE k < i
        BY <1>1, <1>2, <2>1, <3>1
      <3>2. CASE k > i
        <4>1. k - 1 \in DOMAIN evalMacCalls' /\ evalMacCalls'[k - 1] = c
          BY <1>1, <1>2, <2>1, <3>2
        <4> QED
          BY <4>1
      <3> QED
        BY <2>2, <3>1, <3>2
    <2> QED
      BY <2>3 DEF Running, ToSet
  <1> QED
    BY <1>1, <1>4, <1>5, <1>6

LEMMA OneCall ==
    ASSUME NEW S, NEW s \in Seq(S), Len(s) = 1
    PROVE  Head(s) = s[1] /\ Head(s) \in S
  <1>1. s # <<>> /\ 1 \in DOMAIN s
    OBVIOUS
  <1> QED
    BY <1>1

LEMMA Appended ==
    ASSUME NEW S, NEW s \in Seq(S), NEW x \in S
    PROVE  /\ Append(s, x) \in Seq(S) /\ Append(s, x) # <<>>
           /\ Len(Append(s, x)) = Len(s) + 1 /\ Append(s, x)[Len(s) + 1] = x
           /\ \A k \in DOMAIN s : Append(s, x)[k] = s[k]
  OBVIOUS


LEMMA ShapeClientStep ==
    ASSUME Shape, Begin \/ Client \/ Signal \/ UNCHANGED vars
    PROVE  Shape'
  <1> USE DEF clientVars, linkVars, serverVars
  <1>1. Types /\ Streams /\ ClientShape /\ ServerShape
    BY DEF Shape
  <1>2. /\ <<>> \in Seq(Call) /\ <<>> \in Seq(TaskSlice) /\ <<>> \in Seq(AnswerSlice)
        /\ <<>> \in Seq(AnswerMessage) /\ <<>> \in Seq(Entry) /\ Len(<<>>) = 0
        /\ Cap \in Nat /\ 0 <= Cap /\ MaxRounds \in Nat /\ Width \in Nat /\ 0 <= Width
    BY <1>1, ConstantsAssumption DEF ConstantsAssumption, Width, Types
  <1>3. enableParallelMacro' = enableParallelMacro
    BY DEF Begin, Client, Signal, StartCalls, EndEvaluation, ClientWrite, SendFails, ClientRead,
           ReadFails, ReadMore, ResultsIn, Collect, SerialResultIn, WaitExit, vars
  <1>4. Width' = Width
    BY <1>3, WidthKept
  <1>5. evalMacCalls' = <<>> => Running' = {}
    BY DEF Running, ToSet
  <1>6. CASE Begin
    <2>1. /\ cpc = "Idle" /\ round' = round + 1 /\ round' \in 1..MaxRounds
          /\ status' = [c \in Call |-> "INIT"] /\ result' = [c \in Call |-> NoResult]
          /\ UNCHANGED <<evalMacCalls, isDataReady, msgList>> /\ evalMacCalls = <<>>
          /\ cOut = <<>> /\ msgList = <<>>
      BY <1>1, <1>2, <1>6 DEF Begin, Types, ClientShape, Leaving, Sending
    <2>2. /\ p2c' \in Seq(TaskSlice) /\ c2p' \in Seq(AnswerSlice) /\ sOut' \in Seq(AnswerSlice)
          /\ Len(p2c') <= Cap /\ Len(c2p') <= Cap
          /\ {pipeError', macroSrvRun', midMessage'} \subseteq BOOLEAN
          /\ spc' \in {"Down", "Recv", "Find", "Wait", "Write"}
          /\ macCalls' \in Seq(Entry)
          /\ ServerShape'
      <3>1. CASE macroSrvRun
        <4>1. UNCHANGED <<p2c, c2p, linkVars, serverVars>>
          BY <1>6, <3>1 DEF Begin, CreateMacroSrvProcess
        <4> QED
          BY <1>1, <4>1 DEF Types, Streams, ServerShape
      <3>2. CASE ~macroSrvRun
        <4>1. /\ p2c' = <<>> /\ c2p' = <<>> /\ macCalls' = <<>> /\ sOut' = <<>> /\ midMessage' = FALSE
              /\ \/ pipeError' = FALSE /\ macroSrvRun' = TRUE /\ spc' = "Recv"
                 \/ spc' = "Down" /\ pipeError' = pipeError /\ macroSrvRun' = macroSrvRun
          BY <1>6, <3>2 DEF Begin, CreateMacroSrvProcess, NewError
        <4> QED
          BY <1>1, <1>2, <4>1 DEF Types, ServerShape
      <3> QED
        BY <3>1, <3>2
    <2>3. crashes' \in 0..MaxCrashes
      <3>1. crashes' = crashes \/ (crashes < MaxCrashes /\ crashes' = crashes + 1)
        BY <1>6 DEF Begin, CreateMacroSrvProcess
      <3> QED
        BY <1>1, <3>1, ConstantsAssumption DEF Types, ConstantsAssumption
    <2>4. \/ cpc' = "SendDef" /\ cOut' # <<>> /\ cOut' \in Seq(TaskSlice)
          \/ cpc' = "Turn" /\ cOut' = <<>>
      <3>1. CASE HasLibs
        <4>1. cpc' = "SendDef" /\ cOut' = Slices(Task("def", <<>>, round'))
          BY <1>6, <3>1 DEF Begin
        <4> QED
          BY <1>2, <2>1, <4>1, TaskFacts
      <3>2. CASE ~HasLibs
        BY <1>6, <2>1, <3>2 DEF Begin
      <3> QED
        BY <3>1, <3>2
    <2>5. /\ result' \in [Call -> (0..MaxRounds) \X (0..N)]
          /\ status' \in [Call -> {"INIT", "EVAL", "SUCCESS", "FAIL"}]
      <3>1. NoResult \in (0..MaxRounds) \X (0..N)
        BY ConstantsAssumption DEF ConstantsAssumption, NoResult
      <3> QED
        BY <2>1, <3>1
    <2>6. isDataReady = {} /\ Running = {} /\ Running' = {} /\ round' \in 0..MaxRounds /\ round' > 0
      BY <1>1, <1>2, <2>1 DEF Types, Running, ToSet
    <2>7. Types'
      BY <1>1, <1>2, <1>3, <1>4, <2>1, <2>2, <2>3, <2>4, <2>5, <2>6 DEF Types, Sending
    <2>8. ClientShape'
      BY <1>2, <2>1, <2>4, <2>6, <1>3 DEF ClientShape, Sending, Leaving
    <2> QED
      BY <1>2, <2>1, <2>2, <2>4, <2>7, <2>8 DEF Shape, Streams
  <1>7. CASE StartCalls
    <2>1. PICK new \in Lists :
             /\ \A c \in ToSet(new) : status[c] = "INIT"
             /\ HasRoom(new)
             /\ evalMacCalls' = evalMacCalls \o new
             /\ status' = [c \in Call |-> IF c \in ToSet(new) THEN "EVAL" ELSE status[c]]
             /\ cOut' = Slices(Task("calls", Unsent(new), round))
      BY <1>7 DEF StartCalls
    <2>2. /\ new \in Seq(Call) /\ Len(new) \in Nat
          /\ \A i, j \in DOMAIN new : new[i] = new[j] => i = j
      BY ListFacts
    <2>3. /\ cpc = "Turn" /\ cpc' = "SendCalls" /\ round \in 1..MaxRounds
          /\ UNCHANGED <<round, isDataReady, result, msgList, pipeError, macroSrvRun, spc, macCalls,
                         sOut, midMessage, p2c, c2p, crashes>>
      BY <1>1, <1>7 DEF StartCalls, Types, ClientShape
    <2>4. cOut' \in Seq(TaskSlice) /\ cOut' # <<>>
      BY <2>1, <2>2, <2>3, TaskFacts DEF Unsent
    <2>5. /\ evalMacCalls' \in Seq(Call) /\ Len(evalMacCalls') <= Width /\ evalMacCalls' # <<>>
          /\ Len(evalMacCalls') = Len(evalMacCalls) + Len(new)
      BY <1>1, <1>2, <2>1, <2>2 DEF HasRoom, Types
    <2>6. Running' = Running \cup ToSet(new)
      BY <1>1, <2>1, <2>2, RunningGrows DEF Types
    <2>7. \A c \in Running : status[c] \in {"EVAL", "FAIL"}
      BY <1>1 DEF ClientShape
    <2>8. ASSUME NEW i \in DOMAIN evalMacCalls', NEW j \in DOMAIN evalMacCalls',
                 evalMacCalls'[i] = evalMacCalls'[j]
          PROVE  i = j
      <3>1. Len(evalMacCalls) \in Nat /\ DOMAIN evalMacCalls' = 1..(Len(evalMacCalls) + Len(new))
            /\ DOMAIN evalMacCalls = 1..Len(evalMacCalls) /\ DOMAIN new = 1..Len(new)
        BY <1>1, <2>2, <2>5 DEF Types
      <3>2. \A k \in DOMAIN evalMacCalls' :
               /\ k <= Len(evalMacCalls) => /\ k \in DOMAIN evalMacCalls
                                            /\ evalMacCalls'[k] = evalMacCalls[k]
                                            /\ evalMacCalls[k] \in Running
               /\ ~(k <= Len(evalMacCalls)) => /\ k - Len(evalMacCalls) \in DOMAIN new
                                               /\ evalMacCalls'[k] = new[k - Len(evalMacCalls)]
                                               /\ new[k - Len(evalMacCalls)] \in ToSet(new)
        <4>1. ASSUME NEW k \in DOMAIN evalMacCalls', k <= Len(evalMacCalls)
              PROVE  /\ k \in DOMAIN evalMacCalls /\ evalMacCalls'[k] = evalMacCalls[k]
                     /\ evalMacCalls[k] \in Running
          BY <1>1, <2>1, <2>2, <3>1, <4>1, ConcatProperties DEF Types, Running, ToSet
        <4>2. ASSUME NEW k \in DOMAIN evalMacCalls', ~(k <= Len(evalMacCalls))
              PROVE  /\ k - Len(evalMacCalls) \in DOMAIN new
                     /\ evalMacCalls'[k] = new[k - Len(evalMacCalls)]
                     /\ new[k - Len(evalMacCalls)] \in ToSet(new)
          <5>1. k - Len(evalMacCalls) \in DOMAIN new
            BY <2>2, <3>1, <4>2
          <5>2. evalMacCalls'[k] = new[k - Len(evalMacCalls)]
            BY <1>1, <2>1, <2>2, <3>1, <4>2, ConcatProperties DEF Types
          <5> QED
            BY <5>1, <5>2 DEF ToSet
        <4> QED
          BY <4>1, <4>2
      <3>3. \A c \in ToSet(new) : c \notin Running
        BY <2>1, <2>7
      <3> QED
        BY <1>1, <2>2, <2>8, <3>1, <3>2, <3>3 DEF ClientShape
    <2>9. Types'
      BY <1>1, <1>3, <1>4, <2>1, <2>3, <2>5, <2>6 DEF Types, Sending
    <2>10. \A c \in Running' : status'[c] \in {"EVAL", "FAIL"}
      BY <1>1, <2>1, <2>2, <2>6, <2>7, RunningFacts DEF Types, ToSet
    <2>11. ClientShape'
      BY <1>1, <1>3, <2>3, <2>4, <2>5, <2>8, <2>10 DEF ClientShape, Sending, Leaving
    <2> QED
      BY <1>1, <2>3, <2>4, <2>9, <2>11, ServerShapeKept DEF Shape, Streams
  <1>8. CASE EndEvaluation
    <2>1. cOut' = Slices(Task("stg", <<>>, round)) /\ round \in 1..MaxRounds
      BY <1>1, <1>8 DEF EndEvaluation, ClientShape, Types
    <2>2. cOut' \in Seq(TaskSlice) /\ cOut' # <<>>
      BY <1>2, <2>1, TaskFacts
    <2>3. /\ cpc = "Turn" /\ evalMacCalls = <<>> /\ cpc' = "SendStg"
          /\ UNCHANGED <<round, status, evalMacCalls, isDataReady, result, msgList, pipeError,
                         macroSrvRun, spc, macCalls, sOut, midMessage, p2c, c2p, crashes>>
      BY <1>8 DEF EndEvaluation
    <2>4. Running' = Running /\ Types'
      BY <1>1, <1>3, <1>4, <2>3 DEF Types, Running, Sending
    <2>5. ClientShape'
      BY <1>1, <1>3, <2>2, <2>3, <2>4 DEF ClientShape, Sending, Leaving
    <2> QED
      BY <1>1, <2>2, <2>3, <2>4, <2>5, ServerShapeKept DEF Shape, Streams
  <1>9. CASE ClientWrite
    <2>1. /\ cpc \in Sending /\ ~pipeError /\ Len(p2c) < Cap
          /\ p2c' = Append(p2c, Head(cOut)) /\ cOut' = Tail(cOut)
          /\ cpc' = (IF cOut' = <<>> THEN AfterSend ELSE cpc)
          /\ UNCHANGED <<round, status, evalMacCalls, isDataReady, result, msgList, pipeError,
                         macroSrvRun, spc, macCalls, sOut, midMessage, c2p, crashes>>
      BY <1>9 DEF ClientWrite
    <2>2. cOut # <<>>
      BY <1>1, <2>1 DEF ClientShape
    <2>3. p2c' \in Seq(TaskSlice) /\ cOut' \in Seq(TaskSlice) /\ Len(p2c') <= Cap
      BY <1>1, <1>2, <2>1, <2>2 DEF Streams
    <2>4. /\ AfterSend \in {"ReadDef", "Collect", "Read", "Idle", "WaitExit"}
          /\ cpc = "SendDef" <=> AfterSend = "ReadDef"
          /\ cpc = "SendStg" <=> AfterSend = "Idle"
          /\ cpc = "SendExit" <=> AfterSend = "WaitExit"
          /\ AfterSend = "Collect" => Running \subseteq isDataReady
      BY <2>1 DEF AfterSend, Sending
    <2>5. Running' = Running
      BY <2>1 DEF Running
    <2>6. Types'
      BY <1>1, <1>3, <1>4, <2>1, <2>3, <2>4, <2>5 DEF Types, Sending
    <2>7. cpc' \in Sending <=> cOut' # <<>>
      BY <2>1, <2>4 DEF Sending
    <2>8. AfterSend = "Collect" => enableParallelMacro
      BY <1>1, <2>1, <2>4, RunningFacts DEF ClientShape, Types, Sending
    <2>9. ClientShape'
      BY <1>1, <1>3, <2>1, <2>4, <2>5, <2>7, <2>8 DEF ClientShape, Sending, Leaving
    <2> QED
      BY <1>1, <2>1, <2>3, <2>6, <2>9, ServerShapeKept DEF Shape, Streams
  <1>10. ASSUME FailRunning \/ UNCHANGED <<status, evalMacCalls, isDataReady>>
         PROVE  /\ status' \in [Call -> {"INIT", "EVAL", "SUCCESS", "FAIL"}]
                /\ evalMacCalls' \in Seq(Call) /\ Len(evalMacCalls') <= Width
                /\ isDataReady' \subseteq Running'
                /\ ~enableParallelMacro => isDataReady' = {}
                /\ \A i, j \in DOMAIN evalMacCalls' : evalMacCalls'[i] = evalMacCalls'[j] => i = j
                /\ \A c \in Running' : status'[c] \in {"EVAL", "FAIL"}
    <2>1. CASE FailRunning
      BY <1>1, <1>2, <1>5, <2>1 DEF FailRunning, Types
    <2>2. CASE UNCHANGED <<status, evalMacCalls, isDataReady>>
      BY <1>1, <2>2 DEF Types, ClientShape, Running
    <2> QED
      BY <1>10, <2>1, <2>2
  <1>11. CASE SendFails
    <2>1. /\ cpc \in Sending /\ (pipeError \/ spc = "Down")
          /\ pipeError' = TRUE /\ cOut' = <<>>
          /\ FailRunning \/ UNCHANGED <<status, evalMacCalls, isDataReady>>
          /\ cpc = "SendCalls" => FailRunning
          /\ \/ cpc \in {"SendDef", "SendCalls"} /\ cpc' = "Turn"
             \/ cpc = "SendStg" /\ cpc' = "Idle"
             \/ cpc = "SendExit" /\ cpc' = "Exited"
          /\ UNCHANGED <<round, result, msgList, macroSrvRun, spc, macCalls, sOut, midMessage,
                         p2c, c2p, crashes>>
      BY <1>11 DEF SendFails, LatchedError, Sending
    <2>2. spc = "Down" /\ round > 0 /\ cpc # "Idle"
      BY <1>1, <2>1 DEF ClientShape, ServerShape
    <2>3. Types'
      BY <1>1, <1>3, <1>4, <1>10, <2>1 DEF Types, Sending
    <2>4. cpc \in {"SendDef", "SendCalls", "SendStg"} => evalMacCalls' = <<>>
      BY <1>1, <2>1 DEF FailRunning, ClientShape
    <2>5. ClientShape'
      <3>1. cpc' \in {"Turn", "Idle", "Exited"} /\ (cpc' # "Exited" => evalMacCalls' = <<>> /\ msgList' = <<>>)
        BY <1>1, <2>1, <2>4 DEF ClientShape, Leaving
      <3> QED
        BY <1>1, <1>3, <1>10, <2>1, <2>2, <3>1 DEF ClientShape, Sending, Leaving
    <2> QED
      BY <1>1, <1>2, <2>1, <2>2, <2>3, <2>5 DEF Shape, Streams, ServerShape, ClientShape
  <1>12. CASE ClientRead
    <2>1. /\ cpc \in {"ReadDef", "Read"} /\ c2p # <<>> /\ c2p' = Tail(c2p)
          /\ UNCHANGED <<round, status, evalMacCalls, isDataReady, result, cOut, pipeError,
                         macroSrvRun, spc, macCalls, sOut, midMessage, p2c, crashes>>
      BY <1>12 DEF ClientRead
    <2>2. c2p' \in Seq(AnswerSlice) /\ Head(c2p) \in AnswerSlice /\ Len(c2p') <= Cap
      <3>1. Len(Tail(c2p)) = Len(c2p) - 1 /\ Len(c2p) \in Nat /\ Len(c2p) <= Cap
        BY <1>1, <2>1 DEF Types, Streams
      <3>2. Len(Tail(c2p)) <= Cap
        BY <1>2, <3>1
      <3> QED
        BY <1>1, <2>1, <3>2 DEF Streams
    <2>3. /\ msgList' \in Seq(AnswerMessage)
          /\ cpc = "ReadDef" => cpc' \in {"ReadDef", "Turn"} /\ msgList' = msgList
          /\ cpc = "Read" => cpc' \in {"Read", "More"}
          /\ cpc' = "More" => msgList' # <<>>
      <3>1. CASE cpc = "ReadDef"
        BY <1>1, <1>12, <3>1 DEF ClientRead, Streams
      <3>2. CASE cpc = "Read"
        <4> DEFINE slice == Head(c2p)
        <4>1. /\ cpc' = (IF slice.last THEN "More" ELSE cpc)
              /\ msgList' = (IF slice.last THEN Append(msgList, slice.msg) ELSE msgList)
          BY <1>12, <3>2 DEF ClientRead
        <4>2. slice.msg \in AnswerMessage
          BY <2>2 DEF AnswerSlice
        <4> HIDE DEF slice
        <4>3. Append(msgList, slice.msg) \in Seq(AnswerMessage) /\ Append(msgList, slice.msg) # <<>>
          BY <1>1, <4>2, Appended DEF Streams
        <4> QED
          BY <1>1, <3>2, <4>1, <4>3 DEF Streams
      <3> QED
        BY <2>1, <3>1, <3>2
    <2>4. Running' = Running
      BY <2>1 DEF Running
    <2>5. Types'
      BY <1>1, <1>3, <1>4, <2>1, <2>2, <2>3, <2>4 DEF Types, Sending
    <2>6. ClientShape'
      BY <1>1, <1>3, <2>1, <2>3, <2>4 DEF ClientShape, Sending, Leaving
    <2> QED
      BY <1>1, <2>1, <2>2, <2>3, <2>5, <2>6, ServerShapeKept DEF Shape, Streams
  <1>13. CASE ReadFails
    <2>1. /\ cpc \in {"ReadDef", "Read"} /\ spc = "Down" /\ pipeError' = TRUE /\ msgList' = <<>>
          /\ IF cpc = "Read" THEN FailRunning ELSE UNCHANGED <<status, evalMacCalls, isDataReady>>
          /\ cpc' = "Turn"
          /\ UNCHANGED <<round, result, cOut, macroSrvRun, spc, macCalls, sOut, midMessage,
                         p2c, c2p, crashes>>
      BY <1>13 DEF ReadFails, LatchedError
    <2>2. evalMacCalls' = <<>>
      BY <1>1, <2>1 DEF FailRunning, ClientShape
    <2>3. Types'
      BY <1>1, <1>3, <1>4, <1>10, <2>1 DEF Types, Sending
    <2>4. ClientShape'
      BY <1>1, <1>3, <1>10, <2>1, <2>2 DEF ClientShape, Sending, Leaving
    <2> QED
      BY <1>1, <1>2, <2>1, <2>3, <2>4 DEF Shape, Streams, ServerShape
  <1>14. CASE ReadMore \/ WaitExit
    <2>1. /\ \/ cpc = "More" /\ cpc' = "Read"
             \/ cpc = "WaitExit" /\ cpc' = "Exited"
          /\ UNCHANGED <<round, status, evalMacCalls, isDataReady, result, msgList, cOut, pipeError,
                         macroSrvRun, spc, macCalls, sOut, midMessage, p2c, c2p, crashes>>
      BY <1>14 DEF ReadMore, WaitExit
    <2>2. Running' = Running
      BY <2>1 DEF Running
    <2>3. Types'
      BY <1>1, <1>3, <1>4, <2>1, <2>2 DEF Types, Sending
    <2>4. ClientShape'
      BY <1>1, <1>3, <2>1, <2>2 DEF ClientShape, Sending, Leaving
    <2> QED
      BY <1>1, <2>1, <2>3, <2>4, ServerShapeKept DEF Shape, Streams
  <1>15. CASE ResultsIn
    <2>1. /\ cpc = "More" /\ enableParallelMacro
          /\ isDataReady' = isDataReady \cup {c \in Running : AnswersTo(c) # {}}
          /\ status' = [c \in Call |-> IF AnswersTo(c) = {} THEN status[c]
                                       ELSE IF LastAnswer(c).ok THEN "EVAL" ELSE "FAIL"]
          /\ result' = [c \in Call |-> IF AnswersTo(c) = {} THEN result[c]
                             ELSE <<LastAnswer(c).round, Head(LastAnswer(c).calls)>>]
          /\ msgList' = <<>> /\ cpc' = "Collect"
          /\ UNCHANGED <<round, evalMacCalls, cOut, pipeError, macroSrvRun, spc, macCalls, sOut,
                         midMessage, p2c, c2p, crashes>>
      BY <1>15 DEF ResultsIn
    <2>2. ASSUME NEW c \in Call, AnswersTo(c) # {}
          PROVE  <<LastAnswer(c).round, Head(LastAnswer(c).calls)>> \in (0..MaxRounds) \X (0..N)
      <3>1. AnswersTo(c) \in SUBSET (1..Len(msgList)) /\ Len(msgList) \in Nat
        BY <1>1 DEF AnswersTo, Streams
      <3>2. \E k \in AnswersTo(c) : \A l \in AnswersTo(c) : l <= k
        BY <2>2, <3>1, GreatestIndex
      <3>3. PICK k \in AnswersTo(c) : LastAnswer(c) = msgList[k]
        BY <3>2 DEF LastAnswer
      <3>4. LastAnswer(c) \in AnswerMessage
        BY <1>1, <3>1, <3>3 DEF Streams
      <3>5. /\ LastAnswer(c).round \in 1..MaxRounds
            /\ LastAnswer(c).calls \in Seq(0..N) /\ Len(LastAnswer(c).calls) = 1
        BY <3>4 DEF AnswerMessage
      <3>6. Head(LastAnswer(c).calls) \in 0..N
        BY <3>5, OneCall
      <3>7. LastAnswer(c).round \in 0..MaxRounds
        BY <1>2, <3>5
      <3> QED
        BY <3>6, <3>7
    <2>3. result' \in [Call -> (0..MaxRounds) \X (0..N)]
      <3>1. \A c \in Call : result'[c] \in (0..MaxRounds) \X (0..N)
        BY <1>1, <2>1, <2>2 DEF Types
      <3> QED
        BY <2>1, <3>1
    <2>4. status' \in [Call -> {"INIT", "EVAL", "SUCCESS", "FAIL"}] /\ Running' = Running
      BY <1>1, <2>1 DEF Types, Running
    <2>5. Types'
      BY <1>1, <1>3, <1>4, <2>1, <2>3, <2>4 DEF Types, Sending
    <2>6. \A c \in Running' : status'[c] \in {"EVAL", "FAIL"}
      BY <1>1, <2>1, <2>4, RunningFacts DEF Types, ClientShape
    <2>7. ClientShape'
      BY <1>1, <1>3, <2>1, <2>4, <2>6 DEF ClientShape, Sending, Leaving
    <2> QED
      BY <1>1, <1>2, <2>1, <2>5, <2>7, ServerShapeKept DEF Shape, Streams
  <1>16. CASE Collect
    <2>1. PICK i \in DOMAIN evalMacCalls :
             /\ evalMacCalls[i] \in isDataReady
             /\ status' = [status EXCEPT ![evalMacCalls[i]] =
                              IF @ = "FAIL" THEN "FAIL" ELSE "SUCCESS"]
             /\ isDataReady' = isDataReady \ {evalMacCalls[i]}
             /\ evalMacCalls' = RemoveAt(evalMacCalls, i)
      BY <1>16 DEF Collect
    <2>2. /\ cpc = "Collect" /\ cpc' = "Turn"
          /\ UNCHANGED <<round, result, msgList, cOut, pipeError, macroSrvRun, spc, macCalls,
                         sOut, midMessage, p2c, c2p, crashes>>
      BY <1>16 DEF Collect
    <2>3. /\ Running' = Running \ {evalMacCalls[i]}
          /\ evalMacCalls' \in Seq(Call) /\ Len(evalMacCalls') = Len(evalMacCalls) - 1
          /\ \A j, k \in DOMAIN evalMacCalls' : evalMacCalls'[j] = evalMacCalls'[k] => j = k
      BY <1>1, <2>1, RunningShrinks DEF Types, ClientShape
    <2>4. evalMacCalls[i] \in Call /\ Running \subseteq Call
      BY <1>1, RunningFacts DEF Types
    <2>5. Len(evalMacCalls') <= Width
      BY <1>1, <1>2, <2>3 DEF Types
    <2>6. status' \in [Call -> {"INIT", "EVAL", "SUCCESS", "FAIL"}]
      BY <1>1, <2>1, <2>4 DEF Types
    <2>7. Types'
      BY <1>1, <1>3, <1>4, <2>1, <2>2, <2>3, <2>5, <2>6 DEF Types, Sending
    <2>8. enableParallelMacro
      BY <1>1, <2>2 DEF ClientShape
    <2>9. \A c \in Running' : status'[c] \in {"EVAL", "FAIL"}
      BY <1>1, <2>1, <2>3, <2>4 DEF ClientShape, Types
    <2>10. ClientShape'
      BY <1>1, <1>3, <2>2, <2>3, <2>8, <2>9 DEF ClientShape, Sending, Leaving
    <2> QED
      BY <1>1, <2>2, <2>7, <2>10, ServerShapeKept DEF Shape, Streams
  <1>17. CASE SerialResultIn
    <2> DEFINE c == Head(evalMacCalls)
               msg == Head(msgList)
    <2>1. /\ cpc = "More" /\ ~enableParallelMacro
          /\ \/ /\ status' = [status EXCEPT ![c] = IF msg.ok THEN "SUCCESS" ELSE "FAIL"]
                /\ result' = [result EXCEPT ![c] = <<msg.round, Head(msg.calls)>>]
             \/ status' = [status EXCEPT ![c] = "FAIL"] /\ result' = result
          /\ evalMacCalls' = <<>> /\ msgList' = <<>> /\ cpc' = "Turn"
          /\ UNCHANGED <<round, isDataReady, cOut, pipeError, macroSrvRun, spc, macCalls,
                         sOut, midMessage, p2c, c2p, crashes>>
      BY <1>17 DEF SerialResultIn
    <2>2. c \in Call /\ msg \in AnswerMessage
      BY <1>1, <2>1 DEF ClientShape, Types, Streams
    <2>3. <<msg.round, Head(msg.calls)>> \in (0..MaxRounds) \X (0..N)
      <3> HIDE DEF msg
      <3>1. msg.round \in 1..MaxRounds /\ msg.calls \in Seq(0..N) /\ Len(msg.calls) = 1
        BY <2>2 DEF AnswerMessage
      <3>2. Head(msg.calls) \in 0..N
        BY <3>1, OneCall
      <3>3. msg.round \in 0..MaxRounds
        BY <1>2, <3>1
      <3> QED
        BY <3>2, <3>3
    <2> HIDE DEF c, msg
    <2>4. /\ status' \in [Call -> {"INIT", "EVAL", "SUCCESS", "FAIL"}]
          /\ result' \in [Call -> (0..MaxRounds) \X (0..N)]
      BY <1>1, <2>1, <2>2, <2>3 DEF Types
    <2>5. isDataReady = {}
      BY <1>1, <2>1 DEF ClientShape
    <2>6. Types'
      BY <1>1, <1>2, <1>3, <1>4, <1>5, <2>1, <2>4, <2>5 DEF Types, Sending
    <2>7. ClientShape'
      BY <1>1, <1>2, <1>3, <1>5, <2>1, <2>5 DEF ClientShape, Sending, Leaving
    <2> QED
      BY <1>1, <1>2, <2>1, <2>6, <2>7, ServerShapeKept DEF Shape, Streams
  <1>18. CASE Signal
    <2>1. /\ round > 0 /\ cpc \notin {"SendExit", "WaitExit", "Exited"}
          /\ \/ cpc' = "SendExit" /\ cOut' = Slices(Task("exit", <<>>, round))
             \/ cpc' = "Exited" /\ cOut' = <<>>
          /\ UNCHANGED <<round, status, evalMacCalls, isDataReady, result, msgList, pipeError,
                         macroSrvRun, spc, macCalls, sOut, midMessage, p2c, c2p, crashes>>
      BY <1>18 DEF Signal
    <2>2. round \in 1..MaxRounds
      BY <1>1, <2>1 DEF Types
    <2>3. cOut' \in Seq(TaskSlice) /\ (cpc' = "SendExit" <=> cOut' # <<>>)
      BY <1>2, <2>1, <2>2, TaskFacts
    <2>4. Running' = Running
      BY <2>1 DEF Running
    <2>5. Types'
      BY <1>1, <1>3, <1>4, <2>1, <2>4 DEF Types, Sending
    <2>6. ClientShape'
      BY <1>1, <1>3, <2>1, <2>3, <2>4 DEF ClientShape, Sending, Leaving
    <2> QED
      BY <1>1, <2>1, <2>3, <2>5, <2>6, ServerShapeKept DEF Shape, Streams
  <1>19. CASE UNCHANGED vars
    BY <1>1, <1>19, ClientShapeKept, ServerShapeKept
    DEF vars, Shape, Types, Streams, Width, Running
  <1> QED
    BY <1>6, <1>7, <1>8, <1>9, <1>11, <1>12, <1>13, <1>14, <1>15, <1>16, <1>17, <1>18, <1>19
    DEF Client

LEMMA ShapeStep == Shape /\ [Next]_vars => Shape'
  BY ShapeServerStep, ShapeClientStep DEF Next, WaitSpin, Rest

\* The variables of both processes, the messages and the pipes keep their types.
THEOREM TypeCorrect == Spec => []TypeOK
  BY ShapeInit, ShapeStep, ShapeTypes, PTL DEF Spec

(***************************************************************************)
(* Second layer: where the calls are.  While the pipes work a call that    *)
(* runs is in at most one place: a task on its way, the list of the        *)
(* server, a result on its way, a result that was read, or ready.          *)
(***************************************************************************)
Working == ~pipeError /\ cpc \notin Leaving

IsResult(msg) == msg.kind \in {"notFound", "result"}
Carries(slice, c) == slice.msg.kind = "calls" /\ c \in ToSet(slice.msg.calls)
About(slice, c) == IsResult(slice.msg) /\ Head(slice.msg.calls) = c

Travels(c) == \E k \in DOMAIN Out : Carries(Out[k], c)
AtServer(c) == \E i \in DOMAIN macCalls : macCalls[i].at # "FAIL" /\ macCalls[i].call = c
OnItsWay(c) == \E k \in DOMAIN In : About(In[k], c)
WasRead(c) == \E k \in DOMAIN msgList : Head(msgList[k].calls) = c

OnePlace == \A c \in Call :
    /\ Travels(c) => ~AtServer(c) /\ ~OnItsWay(c) /\ ~WasRead(c)
    /\ AtServer(c) => ~OnItsWay(c) /\ ~WasRead(c)
    /\ OnItsWay(c) => ~WasRead(c)
    /\ Travels(c) \/ AtServer(c) \/ OnItsWay(c) \/ WasRead(c) => c \in Running \ isDataReady

\* A task on its way is of this evaluation and names a call once, and in the
\* serial loop some call; no later task names the call again; the question for
\* definitions is the last.
Tasks == \A k \in DOMAIN Out :
    /\ Out[k].msg.kind = "calls" /\ Out[k].msg.calls # <<>> => Out[k].msg.round = round
    /\ Out[k].msg.kind = "calls" /\ ~enableParallelMacro => Out[k].msg.calls # <<>>
    /\ \A i, j \in DOMAIN Out[k].msg.calls : Out[k].msg.calls[i] = Out[k].msg.calls[j] => i = j
    /\ Out[k].msg.kind = "def" => k = Len(Out) /\ cpc \in {"SendDef", "ReadDef"}
TasksOnce == \A k, l \in DOMAIN Out : \A c \in Call :
    k < l /\ Out[k].last /\ Carries(Out[k], c) => ~Carries(Out[l], c)

Truthful(msg) ==
    /\ msg.round = round /\ Head(msg.calls) \in Call
    /\ ~msg.ok => Head(msg.calls) \in NotFound \cup Failing

\* A result on its way says what was computed and for whom, and is the only
\* one for its call.
Answers == \A k \in DOMAIN In :
    /\ ~IsResult(In[k].msg) => cpc = "ReadDef" /\ Len(In) = 1 /\ Out = <<>>
    /\ IsResult(In[k].msg) => Truthful(In[k].msg)
AnswersOnce == \A k, l \in DOMAIN In : \A c \in Call :
    k < l /\ In[k].last /\ About(In[k], c) => ~About(In[l], c)

MsgsRead == \A k \in DOMAIN msgList :
    /\ Truthful(msgList[k])
    /\ \A l \in DOMAIN msgList : Head(msgList[l].calls) = Head(msgList[k].calls) => l = k

Entries == \A i \in DOMAIN macCalls : macCalls[i].at # "FAIL" =>
    /\ macCalls[i].round = round
    /\ \A j \in DOMAIN macCalls :
          macCalls[j].at # "FAIL" /\ macCalls[j].call = macCalls[i].call => i = j

Placed == OnePlace /\ Tasks /\ TasksOnce /\ Answers /\ AnswersOnce /\ MsgsRead /\ Entries
Places == Working => Placed

LEMMA Beyond ==
    ASSUME NEW a \in Nat, NEW b \in Nat, NEW k \in 1..(a + b), k \notin 1..a
    PROVE  k - a \in 1..b /\ ~(k <= a) /\ (k - a = b <=> k = a + b)
  OBVIOUS

LEMMA Joined ==
    ASSUME NEW S, NEW q \in Seq(S), NEW t \in Seq(S)
    PROVE  /\ q \o t \in Seq(S) /\ Len(q \o t) = Len(q) + Len(t)
           /\ DOMAIN (q \o t) = 1..(Len(q) + Len(t))
           /\ \A k \in 1..(Len(q) + Len(t)) :
                 (q \o t)[k] = IF k <= Len(q) THEN q[k] ELSE t[k - Len(q)]
  BY ConcatProperties

\* The slices of one message.
MakeUp(t, m) ==
    /\ Len(t) > 0
    /\ \A k \in 1..Len(t) : t[k].msg = m /\ (t[k].last <=> k = Len(t))

\* Stream r is stream q with the message m at its end.
Extends(r, q, m) ==
    /\ DOMAIN r = 1..Len(r) /\ DOMAIN q = 1..Len(q) /\ Len(q) \in Nat /\ Len(r) \in Nat
    /\ Len(r) > Len(q) /\ Len(r) = Len(q) + Len(Slices(m))
    /\ \A k \in DOMAIN q : k \in DOMAIN r /\ r[k] = q[k]
    /\ \A k \in DOMAIN r : k \notin DOMAIN q =>
          r[k].msg = m /\ (r[k].last <=> k = Len(r))

\* Stream r is stream q without its first slice.
Drops(r, q) ==
    /\ DOMAIN r = 1..Len(r) /\ DOMAIN q = 1..Len(q) /\ Len(q) \in Nat /\ Len(r) \in Nat
    /\ Len(r) = Len(q) - 1 /\ 1 \in DOMAIN q
    /\ \A k \in DOMAIN r : k + 1 \in DOMAIN q /\ r[k] = q[k + 1]

LEMMA Grown ==
    ASSUME NEW S, NEW q \in Seq(S), NEW m, Slices(m) \in Seq(S), MakeUp(Slices(m), m)
    PROVE  Extends(q \o Slices(m), q, m)
  <1>0. PICK t, r : t = Slices(m) /\ r = q \o t
    OBVIOUS
  <1>1. Len(t) > 0 /\ \A k \in 1..Len(t) : t[k].msg = m /\ (t[k].last <=> k = Len(t))
    BY <1>0 DEF MakeUp
  <1>2. Len(t) \in Nat /\ Len(q) \in Nat /\ DOMAIN q = 1..Len(q) /\ t \in Seq(S)
    BY <1>0
  <1>3. /\ Len(r) = Len(q) + Len(t) /\ DOMAIN r = 1..(Len(q) + Len(t))
        /\ \A k \in 1..(Len(q) + Len(t)) : r[k] = IF k <= Len(q) THEN q[k] ELSE t[k - Len(q)]
    <2>1. /\ q \o t \in Seq(S) /\ Len(q \o t) = Len(q) + Len(t)
          /\ DOMAIN (q \o t) = 1..(Len(q) + Len(t))
          /\ \A k \in 1..(Len(q) + Len(t)) :
                (q \o t)[k] = IF k <= Len(q) THEN q[k] ELSE t[k - Len(q)]
      BY <1>2, Joined
    <2> QED
      BY <1>0, <2>1
  <1>4. DOMAIN r = 1..Len(r) /\ Len(r) \in Nat /\ Len(r) > Len(q)
    BY <1>1, <1>2, <1>3
  <1>5. ASSUME NEW k \in DOMAIN q PROVE k \in DOMAIN r /\ r[k] = q[k]
    <2>1. k \in 1..(Len(q) + Len(t)) /\ k <= Len(q)
      BY <1>2, <1>3
    <2> QED
      BY <1>3, <2>1
  <1>6. ASSUME NEW k \in DOMAIN r, k \notin DOMAIN q
        PROVE  r[k].msg = m /\ (r[k].last <=> k = Len(r))
    <2>0. k \in 1..(Len(q) + Len(t)) /\ k \notin 1..Len(q)
      BY <1>2, <1>3, <1>6
    <2>1. k - Len(q) \in 1..Len(t) /\ (k - Len(q) = Len(t) <=> k = Len(r))
          /\ ~(k <= Len(q)) /\ k \in 1..(Len(q) + Len(t))
      <3>1. PICK a, b : a = Len(q) /\ b = Len(t)
        OBVIOUS
      <3>2. k - a \in 1..b /\ ~(k <= a) /\ (k - a = b <=> k = a + b)
        BY <1>2, <2>0, <3>1, Beyond
      <3> QED
        BY <1>3, <2>0, <3>1, <3>2
    <2>2. r[k] = t[k - Len(q)]
      BY <1>3, <2>1
    <2> QED
      BY <1>1, <2>1, <2>2
  <1>7. Len(r) = Len(q) + Len(Slices(m))
    BY <1>0, <1>3
  <1>8. Extends(r, q, m)
    BY <1>2, <1>4, <1>5, <1>6, <1>7 DEF Extends
  <1> QED
    BY <1>0, <1>8

LEMMA Taken ==
    ASSUME NEW S, NEW s \in Seq(S), NEW t \in Seq(S), s # <<>>
    PROVE  Drops(Tail(s) \o t, s \o t) /\ (s \o t)[1] = Head(s)
  <1>0. PICK q, r : q = s \o t /\ r = Tail(s) \o t
    OBVIOUS
  <1>1. /\ q \in Seq(S) /\ Len(q) > 0 /\ q[1] = Head(s)
        /\ r \in Seq(S) /\ Len(r) = Len(q) - 1
        /\ \A k \in 1..Len(r) : r[k] = q[k + 1]
    BY <1>0, FirstTaken
  <1>2. DOMAIN q = 1..Len(q) /\ DOMAIN r = 1..Len(r) /\ Len(q) \in Nat /\ Len(r) \in Nat
    BY <1>1
  <1>3. 1 \in DOMAIN q /\ \A k \in DOMAIN r : k + 1 \in DOMAIN q
    BY <1>1, <1>2
  <1>4. Drops(r, q)
    BY <1>1, <1>2, <1>3 DEF Drops
  <1> QED
    BY <1>0, <1>1, <1>4

LEMMA StreamTypes ==
    ASSUME Shape
    PROVE  Out \in Seq(TaskSlice) /\ In \in Seq(AnswerSlice)
  BY DEF Shape, Streams, Out, In

\* The client puts a task on its way.
LEMMA OutGrows ==
    ASSUME Shape, cOut = <<>>, p2c' = p2c, NEW m \in TaskMessage, cOut' = Slices(m)
    PROVE  Extends(Out', Out, m)
  <1>1. Out = p2c /\ p2c \in Seq(TaskSlice)
    BY EmptyEnd DEF Shape, Streams, Out
  <1>2. Out' = p2c \o Slices(m)
    BY DEF Out
  <1>3. Slices(m) \in Seq(TaskSlice) /\ MakeUp(Slices(m), m)
    BY SliceFacts DEF TaskSlice, MakeUp
  <1>4. Extends(p2c \o Slices(m), p2c, m)
    BY <1>1, <1>3, Grown
  <1> QED
    BY <1>1, <1>2, <1>4

\* The server puts an answer on its way.
LEMMA InGrows ==
    ASSUME Shape, sOut = <<>>, c2p' = c2p, NEW m \in AnswerMessage, sOut' = Slices(m)
    PROVE  Extends(In', In, m)
  <1>1. In = c2p /\ c2p \in Seq(AnswerSlice)
    BY EmptyEnd DEF Shape, Streams, In
  <1>2. In' = c2p \o Slices(m)
    BY DEF In
  <1>3. Slices(m) \in Seq(AnswerSlice) /\ MakeUp(Slices(m), m)
    BY SliceFacts DEF AnswerSlice, MakeUp
  <1>4. Extends(c2p \o Slices(m), c2p, m)
    BY <1>1, <1>3, Grown
  <1> QED
    BY <1>1, <1>2, <1>4

LEMMA OutTaken ==
    ASSUME Shape, p2c # <<>>, p2c' = Tail(p2c), cOut' = cOut
    PROVE  Drops(Out', Out) /\ Out[1] = Head(p2c)
  <1>1. Out = p2c \o cOut /\ Out' = Tail(p2c) \o cOut
    BY DEF Out
  <1> QED
    BY <1>1, Taken DEF Shape, Streams

LEMMA InTaken ==
    ASSUME Shape, c2p # <<>>, c2p' = Tail(c2p), sOut' = sOut
    PROVE  Drops(In', In) /\ In[1] = Head(c2p)
  <1>1. In = c2p \o sOut /\ In' = Tail(c2p) \o sOut
    BY DEF In
  <1> QED
    BY <1>1, Taken DEF Shape, Streams

(***************************************************************************)
(* What a step does to the parts of Placed.                                *)
(***************************************************************************)
LEMMA EmptyStream ==
    ASSUME NEW S, NEW s \in Seq(S)
    PROVE  s = <<>> <=> Len(s) = 0
  OBVIOUS

LEMMA TasksKept ==
    ASSUME Tasks, TasksOnce, Out' = Out, round' = round,
           enableParallelMacro' = enableParallelMacro,
           cpc \in {"SendDef", "ReadDef"} => cpc' \in {"SendDef", "ReadDef"}
    PROVE  Tasks' /\ TasksOnce' /\ \A c \in Call : Travels(c)' <=> Travels(c)
  BY DEF Tasks, TasksOnce, Travels, Carries

LEMMA AnswersKept ==
    ASSUME Answers, AnswersOnce, In' = In, round' = round, Out' = Out,
           cpc = "ReadDef" => cpc' = "ReadDef"
    PROVE  Answers' /\ AnswersOnce' /\ \A c \in Call : OnItsWay(c)' <=> OnItsWay(c)
  BY DEF Answers, AnswersOnce, OnItsWay, About, IsResult, Truthful

\* No answer to a question for definitions is on its way.
LEMMA AnswersStay ==
    ASSUME Answers, AnswersOnce, In' = In, round' = round, cpc # "ReadDef" \/ Out # <<>>
    PROVE  Answers' /\ AnswersOnce' /\ \A c \in Call : OnItsWay(c)' <=> OnItsWay(c)
  BY DEF Answers, AnswersOnce, OnItsWay, About, IsResult, Truthful

LEMMA MsgsKept ==
    ASSUME MsgsRead, msgList' = msgList, round' = round
    PROVE  MsgsRead' /\ \A c \in Call : WasRead(c)' <=> WasRead(c)
  BY DEF MsgsRead, WasRead, Truthful

LEMMA MsgsNone ==
    ASSUME msgList' = <<>>
    PROVE  MsgsRead' /\ \A c \in Call : ~WasRead(c)'
  BY DEF MsgsRead, WasRead

LEMMA EntriesKept ==
    ASSUME Entries, macCalls' = macCalls, round' = round
    PROVE  Entries' /\ \A c \in Call : AtServer(c)' <=> AtServer(c)
  BY DEF Entries, AtServer

\* Entries that are only marked.
LEMMA EntriesMarked ==
    ASSUME Entries, round' = round, DOMAIN macCalls' = DOMAIN macCalls,
           \A j \in DOMAIN macCalls : /\ macCalls'[j].call = macCalls[j].call
                                      /\ macCalls'[j].round = macCalls[j].round
                                      /\ macCalls'[j].at # "FAIL" => macCalls[j].at # "FAIL"
    PROVE  Entries' /\ \A c \in Call : AtServer(c)' => AtServer(c)
  BY DEF Entries, AtServer

LEMMA RunningKept ==
    ASSUME evalMacCalls' = evalMacCalls
    PROVE  Running' = Running
  BY DEF Running

\* A call is in its place still, or in no place any more.
LEMMA OnePlaceKept ==
    ASSUME OnePlace, Running' = Running, isDataReady' = isDataReady,
           \A c \in Call : /\ Travels(c)' => Travels(c)
                           /\ AtServer(c)' => AtServer(c)
                           /\ OnItsWay(c)' => OnItsWay(c)
                           /\ WasRead(c)' => WasRead(c)
    PROVE  OnePlace'
  BY DEF OnePlace

\* A step that leaves every stream and list alone.
LEMMA PlacedKept ==
    ASSUME Placed, Out' = Out, In' = In, macCalls' = macCalls, msgList' = msgList, round' = round,
           enableParallelMacro' = enableParallelMacro,
           evalMacCalls' = evalMacCalls, isDataReady' = isDataReady,
           cpc \in {"SendDef", "ReadDef"} => cpc' \in {"SendDef", "ReadDef"},
           cpc = "ReadDef" => cpc' = "ReadDef"
    PROVE  Placed'
  <1>1. Tasks' /\ TasksOnce' /\ \A c \in Call : Travels(c)' <=> Travels(c)
    BY TasksKept DEF Placed
  <1>2. Answers' /\ AnswersOnce' /\ \A c \in Call : OnItsWay(c)' <=> OnItsWay(c)
    BY AnswersKept DEF Placed
  <1>3. MsgsRead' /\ \A c \in Call : WasRead(c)' <=> WasRead(c)
    BY MsgsKept DEF Placed
  <1>4. Entries' /\ \A c \in Call : AtServer(c)' <=> AtServer(c)
    BY EntriesKept DEF Placed
  <1>5. OnePlace'
    BY <1>1, <1>2, <1>3, <1>4, RunningKept, OnePlaceKept DEF Placed
  <1> QED
    BY <1>1, <1>2, <1>3, <1>4, <1>5 DEF Placed

\* A task is added at the end.
LEMMA TasksGrow ==
    ASSUME Tasks, TasksOnce, NEW m, Extends(Out', Out, m), round' = round,
           enableParallelMacro' = enableParallelMacro, cpc \notin {"SendDef", "ReadDef"}, m.kind # "def",
           m.kind = "calls" => m.round = round /\ (enableParallelMacro \/ m.calls # <<>>),
           \A i, j \in DOMAIN m.calls : m.calls[i] = m.calls[j] => i = j,
           \A c \in Call : m.kind = "calls" /\ c \in ToSet(m.calls) => ~Travels(c)
    PROVE  /\ Tasks' /\ TasksOnce'
           /\ \A c \in Call : Travels(c)' =>
                 Travels(c) \/ (m.kind = "calls" /\ c \in ToSet(m.calls))
  <1>1. PICK q, r : q = Out /\ r = Out'
    OBVIOUS
  <1>2. /\ DOMAIN r = 1..Len(r) /\ DOMAIN q = 1..Len(q) /\ Len(q) \in Nat /\ Len(r) \in Nat
        /\ Len(r) > Len(q)
        /\ \A k \in DOMAIN q : k \in DOMAIN r /\ r[k] = q[k]
        /\ \A k \in DOMAIN r : k \notin DOMAIN q =>
              r[k].msg = m /\ (r[k].last <=> k = Len(r))
    BY <1>1 DEF Extends
  <1>3. \A k \in DOMAIN q : /\ q[k].msg.kind = "calls" /\ q[k].msg.calls # <<>> => q[k].msg.round = round
                            /\ q[k].msg.kind = "calls" /\ ~enableParallelMacro =>
                                  q[k].msg.calls # <<>>
                            /\ \A i, j \in DOMAIN q[k].msg.calls :
                                  q[k].msg.calls[i] = q[k].msg.calls[j] => i = j
                            /\ q[k].msg.kind # "def"
    BY <1>1 DEF Tasks
  <1>4. Tasks'
    <2> SUFFICES ASSUME NEW k \in DOMAIN r
                 PROVE  /\ r[k].msg.kind = "calls" /\ r[k].msg.calls # <<>> => r[k].msg.round = round
                        /\ r[k].msg.kind = "calls" /\ ~enableParallelMacro => r[k].msg.calls # <<>>
                        /\ \A i, j \in DOMAIN r[k].msg.calls :
                              r[k].msg.calls[i] = r[k].msg.calls[j] => i = j
                        /\ r[k].msg.kind # "def"
      BY <1>1 DEF Tasks
    <2>1. CASE k \in DOMAIN q
      BY <1>2, <1>3, <2>1
    <2>2. CASE k \notin DOMAIN q
      BY <1>2, <2>2
    <2> QED
      BY <2>1, <2>2
  <1>5. ASSUME NEW c \in Call, NEW k \in DOMAIN r, Carries(r[k], c)
        PROVE  \/ k \in DOMAIN q /\ Carries(q[k], c) /\ Travels(c)
               \/ k \notin DOMAIN q /\ m.kind = "calls" /\ c \in ToSet(m.calls)
    <2>1. CASE k \in DOMAIN q
      BY <1>1, <1>2, <1>5, <2>1 DEF Travels
    <2>2. CASE k \notin DOMAIN q
      BY <1>2, <1>5, <2>2 DEF Carries
    <2> QED
      BY <2>1, <2>2
  <1>6. TasksOnce'
    <2> SUFFICES ASSUME NEW k \in DOMAIN r, NEW l \in DOMAIN r, NEW c \in Call,
                        k < l, r[k].last, Carries(r[k], c), Carries(r[l], c)
                 PROVE  FALSE
      BY <1>1 DEF TasksOnce, Carries
    <2>1. CASE l \in DOMAIN q
      <3>1. k \in DOMAIN q
        BY <1>2, <2>1
      <3> QED
        BY <1>1, <1>2, <2>1, <3>1 DEF TasksOnce
    <2>2. CASE l \notin DOMAIN q
      <3>1. m.kind = "calls" /\ c \in ToSet(m.calls) /\ ~Travels(c)
        BY <1>5, <2>2
      <3>2. k \notin DOMAIN q
        BY <1>5, <3>1
      <3>3. k = Len(r)
        BY <1>2, <3>2
      <3> QED
        BY <1>2, <3>3
    <2> QED
      BY <2>1, <2>2
  <1>7. ASSUME NEW c \in Call, Travels(c)'
        PROVE  Travels(c) \/ (m.kind = "calls" /\ c \in ToSet(m.calls))
    <2>1. PICK k \in DOMAIN r : Carries(r[k], c)
      BY <1>1, <1>7 DEF Travels, Carries
    <2> QED
      BY <1>5, <2>1
  <1> QED
    BY <1>4, <1>6, <1>7

\* The server takes a slice.
LEMMA TasksDrop ==
    ASSUME Tasks, TasksOnce, Drops(Out', Out), round' = round, cpc' = cpc,
           enableParallelMacro' = enableParallelMacro
    PROVE  /\ Tasks' /\ TasksOnce'
           /\ \A c \in Call : Travels(c)' => Travels(c)
           /\ \A c \in Call : Carries(Out[1], c) => Travels(c)
           /\ \A c \in Call : Out[1].last /\ Carries(Out[1], c) => ~Travels(c)'
  <1>1. PICK q, r : q = Out /\ r = Out'
    OBVIOUS
  <1>2. /\ DOMAIN r = 1..Len(r) /\ DOMAIN q = 1..Len(q) /\ Len(q) \in Nat /\ Len(r) \in Nat
        /\ Len(r) = Len(q) - 1 /\ 1 \in DOMAIN q
        /\ \A k \in DOMAIN r : k + 1 \in DOMAIN q /\ r[k] = q[k + 1]
    BY <1>1 DEF Drops
  <1>3. \A k \in DOMAIN q :
           /\ q[k].msg.kind = "calls" /\ q[k].msg.calls # <<>> => q[k].msg.round = round
           /\ q[k].msg.kind = "calls" /\ ~enableParallelMacro => q[k].msg.calls # <<>>
           /\ \A i, j \in DOMAIN q[k].msg.calls : q[k].msg.calls[i] = q[k].msg.calls[j] => i = j
           /\ q[k].msg.kind = "def" => k = Len(q) /\ cpc \in {"SendDef", "ReadDef"}
    BY <1>1 DEF Tasks
  <1>4. Tasks'
    <2> SUFFICES ASSUME NEW k \in DOMAIN r
                 PROVE  /\ r[k].msg.kind = "calls" /\ r[k].msg.calls # <<>> => r[k].msg.round = round
                        /\ r[k].msg.kind = "calls" /\ ~enableParallelMacro => r[k].msg.calls # <<>>
                        /\ \A i, j \in DOMAIN r[k].msg.calls :
                              r[k].msg.calls[i] = r[k].msg.calls[j] => i = j
                        /\ r[k].msg.kind = "def" => k = Len(r) /\ cpc \in {"SendDef", "ReadDef"}
      BY <1>1 DEF Tasks
    <2>1. k + 1 \in DOMAIN q /\ r[k] = q[k + 1] /\ (k + 1 = Len(q) => k = Len(r))
      BY <1>2
    <2> QED
      BY <1>3, <2>1
  <1>5. TasksOnce'
    <2> SUFFICES ASSUME NEW k \in DOMAIN r, NEW l \in DOMAIN r, NEW c \in Call,
                        k < l, r[k].last, Carries(r[k], c), Carries(r[l], c)
                 PROVE  FALSE
      BY <1>1 DEF TasksOnce, Carries
    <2>1. /\ k + 1 \in DOMAIN q /\ l + 1 \in DOMAIN q /\ k + 1 < l + 1
          /\ r[k] = q[k + 1] /\ r[l] = q[l + 1]
      BY <1>2
    <2> QED
      BY <1>1, <2>1 DEF TasksOnce
  <1>6. ASSUME NEW c \in Call, Travels(c)'
        PROVE  Travels(c) /\ \E k \in DOMAIN q : 1 < k /\ Carries(q[k], c)
    <2>1. PICK k \in DOMAIN r : Carries(r[k], c)
      BY <1>1, <1>6 DEF Travels, Carries
    <2>2. k + 1 \in DOMAIN q /\ Carries(q[k + 1], c) /\ 1 < k + 1
      BY <1>2, <2>1
    <2> QED
      BY <1>1, <2>2 DEF Travels
  <1>7. ASSUME NEW c \in Call, q[1].last, Carries(q[1], c) PROVE ~Travels(c)'
    <2>1. \A k \in DOMAIN q : 1 < k => ~Carries(q[k], c)
      BY <1>1, <1>2, <1>7 DEF TasksOnce
    <2> QED
      BY <1>6, <2>1
  <1>8. \A c \in Call : Carries(q[1], c) => Travels(c)
    BY <1>1, <1>2 DEF Travels
  <1> QED
    BY <1>1, <1>4, <1>5, <1>6, <1>7, <1>8

\* The server sends the answer about a call.
LEMMA AnswersGrow ==
    ASSUME Answers, AnswersOnce, NEW m, Extends(In', In, m), round' = round, IsResult(m),
           cpc # "ReadDef", Truthful(m), ~OnItsWay(Head(m.calls))
    PROVE  /\ Answers' /\ AnswersOnce'
           /\ \A c \in Call : OnItsWay(c)' => OnItsWay(c) \/ c = Head(m.calls)
  <1>1. PICK q, r : q = In /\ r = In'
    OBVIOUS
  <1>2. /\ DOMAIN r = 1..Len(r) /\ DOMAIN q = 1..Len(q) /\ Len(q) \in Nat /\ Len(r) \in Nat
        /\ Len(r) > Len(q)
        /\ \A k \in DOMAIN q : k \in DOMAIN r /\ r[k] = q[k]
        /\ \A k \in DOMAIN r : k \notin DOMAIN q =>
              r[k].msg = m /\ (r[k].last <=> k = Len(r))
    BY <1>1 DEF Extends
  <1>3. \A k \in DOMAIN q : IsResult(q[k].msg) /\ Truthful(q[k].msg)
    BY <1>1 DEF Answers
  <1>4. \A k \in DOMAIN r : IsResult(r[k].msg) /\ Truthful(r[k].msg)
    BY <1>2, <1>3
  <1>5. Answers'
    <2>1. \A k \in DOMAIN r : IsResult(r[k].msg) /\ r[k].msg.round = round'
             /\ Head(r[k].msg.calls) \in Call
             /\ (~r[k].msg.ok => Head(r[k].msg.calls) \in NotFound \cup Failing)
      BY <1>4 DEF Truthful
    <2> QED
      BY <1>1, <2>1 DEF Answers, Truthful, IsResult
  <1>6. ASSUME NEW c \in Call, NEW k \in DOMAIN r, About(r[k], c)
        PROVE  \/ k \in DOMAIN q /\ About(q[k], c) /\ OnItsWay(c)
               \/ k \notin DOMAIN q /\ c = Head(m.calls)
    <2>1. CASE k \in DOMAIN q
      BY <1>1, <1>2, <1>6, <2>1 DEF OnItsWay
    <2>2. CASE k \notin DOMAIN q
      BY <1>2, <1>6, <2>2 DEF About
    <2> QED
      BY <2>1, <2>2
  <1>7. AnswersOnce'
    <2> SUFFICES ASSUME NEW k \in DOMAIN r, NEW l \in DOMAIN r, NEW c \in Call,
                        k < l, r[k].last, About(r[k], c), About(r[l], c)
                 PROVE  FALSE
      BY <1>1 DEF AnswersOnce, About, IsResult
    <2>1. CASE l \in DOMAIN q
      <3>1. k \in DOMAIN q
        BY <1>2, <2>1
      <3> QED
        BY <1>1, <1>2, <2>1, <3>1 DEF AnswersOnce
    <2>2. CASE l \notin DOMAIN q
      <3>1. c = Head(m.calls) /\ ~OnItsWay(c)
        BY <1>6, <2>2
      <3>2. k \notin DOMAIN q
        BY <1>6, <3>1
      <3>3. k = Len(r)
        BY <1>2, <3>2
      <3> QED
        BY <1>2, <3>3
    <2> QED
      BY <2>1, <2>2
  <1>8. ASSUME NEW c \in Call, OnItsWay(c)' PROVE OnItsWay(c) \/ c = Head(m.calls)
    <2>1. PICK k \in DOMAIN r : About(r[k], c)
      BY <1>1, <1>8 DEF OnItsWay, About, IsResult
    <2> QED
      BY <1>6, <2>1
  <1> QED
    BY <1>5, <1>7, <1>8

\* The client takes a slice.
LEMMA AnswersDrop ==
    ASSUME Answers, AnswersOnce, Drops(In', In), round' = round
    PROVE  /\ Answers' /\ AnswersOnce'
           /\ \A c \in Call : OnItsWay(c)' => OnItsWay(c)
           /\ \A c \in Call : About(In[1], c) => OnItsWay(c)
           /\ \A c \in Call : In[1].last /\ About(In[1], c) => ~OnItsWay(c)'
  <1>1. PICK q, r : q = In /\ r = In'
    OBVIOUS
  <1>2. /\ DOMAIN r = 1..Len(r) /\ DOMAIN q = 1..Len(q) /\ Len(q) \in Nat /\ Len(r) \in Nat
        /\ Len(r) = Len(q) - 1 /\ 1 \in DOMAIN q
        /\ \A k \in DOMAIN r : k + 1 \in DOMAIN q /\ r[k] = q[k + 1]
    BY <1>1 DEF Drops
  <1>3. \A k \in DOMAIN r : IsResult(r[k].msg) /\ Truthful(r[k].msg)
    <2> SUFFICES ASSUME NEW k \in DOMAIN r PROVE IsResult(r[k].msg) /\ Truthful(r[k].msg)
      OBVIOUS
    <2>1. k + 1 \in DOMAIN q /\ r[k] = q[k + 1] /\ Len(q) # 1
      BY <1>2
    <2> QED
      BY <1>1, <2>1 DEF Answers
  <1>4. Answers'
    <2>1. \A k \in DOMAIN r : IsResult(r[k].msg) /\ r[k].msg.round = round'
             /\ Head(r[k].msg.calls) \in Call
             /\ (~r[k].msg.ok => Head(r[k].msg.calls) \in NotFound \cup Failing)
      BY <1>3 DEF Truthful
    <2> QED
      BY <1>1, <2>1 DEF Answers, Truthful, IsResult
  <1>5. AnswersOnce'
    <2> SUFFICES ASSUME NEW k \in DOMAIN r, NEW l \in DOMAIN r, NEW c \in Call,
                        k < l, r[k].last, About(r[k], c), About(r[l], c)
                 PROVE  FALSE
      BY <1>1 DEF AnswersOnce, About, IsResult
    <2>1. /\ k + 1 \in DOMAIN q /\ l + 1 \in DOMAIN q /\ k + 1 < l + 1
          /\ r[k] = q[k + 1] /\ r[l] = q[l + 1]
      BY <1>2
    <2> QED
      BY <1>1, <2>1 DEF AnswersOnce
  <1>6. ASSUME NEW c \in Call, OnItsWay(c)'
        PROVE  OnItsWay(c) /\ \E k \in DOMAIN q : 1 < k /\ About(q[k], c)
    <2>1. PICK k \in DOMAIN r : About(r[k], c)
      BY <1>1, <1>6 DEF OnItsWay, About, IsResult
    <2>2. k + 1 \in DOMAIN q /\ About(q[k + 1], c) /\ 1 < k + 1
      BY <1>2, <2>1
    <2> QED
      BY <1>1, <2>2 DEF OnItsWay
  <1>7. ASSUME NEW c \in Call, q[1].last, About(q[1], c) PROVE ~OnItsWay(c)'
    <2>1. \A k \in DOMAIN q : 1 < k => ~About(q[k], c)
      BY <1>1, <1>2, <1>7 DEF AnswersOnce
    <2> QED
      BY <1>6, <2>1
  <1>8. \A c \in Call : About(q[1], c) => OnItsWay(c)
    BY <1>1, <1>2 DEF OnItsWay
  <1> QED
    BY <1>1, <1>4, <1>5, <1>6, <1>7, <1>8

LEMMA OutKept ==
    ASSUME p2c' = p2c, cOut' = cOut
    PROVE  Out' = Out
  BY DEF Out

LEMMA InKept ==
    ASSUME c2p' = c2p, sOut' = sOut
    PROVE  In' = In
  BY DEF In

\* With no call running nothing but the answer about definitions is on its way.
LEMMA NothingRuns ==
    ASSUME Shape, Placed, evalMacCalls = <<>>
    PROVE  /\ \A c \in Call : ~Travels(c) /\ ~AtServer(c) /\ ~OnItsWay(c) /\ ~WasRead(c)
           /\ \A k \in DOMAIN In : ~IsResult(In[k].msg)
  <1>1. Running = {}
    BY DEF Running, ToSet
  <1>2. \A c \in Call : ~Travels(c) /\ ~AtServer(c) /\ ~OnItsWay(c) /\ ~WasRead(c)
    BY <1>1 DEF Placed, OnePlace
  <1>3. ASSUME NEW k \in DOMAIN In, IsResult(In[k].msg) PROVE FALSE
    <2>1. Head(In[k].msg.calls) \in Call
      BY <1>3 DEF Placed, Answers, Truthful
    <2> QED
      BY <1>2, <1>3, <2>1 DEF OnItsWay, About
  <1> QED
    BY <1>2, <1>3

\* A call that the server holds runs, so no question for definitions is open.
LEMMA ServerBusy ==
    ASSUME Shape, Placed, NEW i \in DOMAIN macCalls, macCalls[i].at # "FAIL"
    PROVE  /\ macCalls[i] \in Entry /\ AtServer(macCalls[i].call) /\ macCalls[i].round = round
           /\ evalMacCalls # <<>> /\ cpc \notin {"SendDef", "ReadDef"}
  <1>1. macCalls[i] \in Entry /\ AtServer(macCalls[i].call) /\ macCalls[i].round = round
    BY DEF Shape, Types, AtServer, Placed, Entries
  <1>2. macCalls[i].call \in Running
    BY <1>1 DEF Placed, OnePlace, Entry
  <1>3. evalMacCalls # <<>>
    BY <1>2 DEF Running, ToSet
  <1> QED
    BY <1>1, <1>3 DEF Shape, ClientShape

LEMMA RespondOnly ==
    ASSUME NEW rnd
    PROVE  LET m == Answer("respond", [call |-> 0, round |-> rnd], TRUE)
           IN Len(Slices(m)) = 1 /\ ~IsResult(m)
  <1> DEFINE m == Answer("respond", [call |-> 0, round |-> rnd], TRUE)
  <1>1. m.calls = <<0>> /\ m.kind = "respond"
    BY DEF Answer
  <1>2. 0 \notin Big
    BY ConstantsAssumption DEF ConstantsAssumption, Call
  <1> HIDE DEF m
  <1>3. ToSet(m.calls) \cap Big = {}
    <2>1. \A x \in ToSet(<<0>>) : x = 0
      BY DEF ToSet
    <2> QED
      BY <1>1, <1>2, <2>1
  <1>5. Len(Slices(m)) = 1
    BY <1>3, SliceFacts
  <1> QED
    BY <1>1, <1>5 DEF IsResult, m

LEMMA PlacedSrvRead ==
    ASSUME Shape, Placed, Working, SrvRead
    PROVE  Placed'
  <1> USE DEF clientVars, linkVars, serverVars
  <1>1. /\ spc = "Recv" /\ p2c # <<>> /\ p2c' = Tail(p2c)
        /\ UNCHANGED <<enableParallelMacro, cpc, round, status, evalMacCalls, isDataReady, result,
                       msgList, cOut, pipeError, macroSrvRun, c2p>>
    BY DEF SrvRead
  <1>2. Drops(Out', Out) /\ Out[1] = Head(p2c)
    BY <1>1, OutTaken
  <1>3. /\ Tasks' /\ TasksOnce'
        /\ \A c \in Call : Travels(c)' => Travels(c)
        /\ \A c \in Call : Carries(Out[1], c) => Travels(c)
        /\ \A c \in Call : Out[1].last /\ Carries(Out[1], c) => ~Travels(c)'
    BY <1>1, <1>2, TasksDrop DEF Placed
  <1>4. PICK slice : slice = Out[1]
    OBVIOUS
  <1>5. \/ slice.last /\ Handle(slice.msg)
        \/ UNCHANGED <<spc, macCalls, sOut>>
    BY <1>2, <1>4 DEF SrvRead
  <1>6. slice.msg \in TaskMessage /\ Out # <<>> /\ 1 \in DOMAIN Out /\ Len(Out) \in Nat
    <2>1. Out \in Seq(TaskSlice) /\ 1 \in DOMAIN Out /\ Len(Out) \in Nat
      BY <1>2, StreamTypes DEF Drops
    <2>2. Out[1] \in TaskSlice /\ Out # <<>>
      BY <2>1
    <2> QED
      BY <1>4, <2>1, <2>2 DEF TaskSlice
  <1>7. MsgsRead' /\ \A c \in Call : WasRead(c)' <=> WasRead(c)
    BY <1>1, MsgsKept DEF Placed
  <1>8. Running' = Running
    BY <1>1, RunningKept
  <1>9. sOut' = sOut => Answers' /\ AnswersOnce' /\ \A c \in Call : OnItsWay(c)' <=> OnItsWay(c)
    <2> HAVE sOut' = sOut
    <2> QED
      BY <1>1, <1>6, InKept, AnswersStay DEF Placed
  <1>10. macCalls' = macCalls => Entries' /\ \A c \in Call : AtServer(c)' <=> AtServer(c)
    <2> HAVE macCalls' = macCalls
    <2> QED
      BY <1>1, EntriesKept DEF Placed
  <1>11. CASE UNCHANGED <<spc, macCalls, sOut>>
    <2>1. OnePlace'
      BY <1>1, <1>3, <1>7, <1>8, <1>9, <1>10, <1>11, OnePlaceKept DEF Placed
    <2> QED
      BY <1>3, <1>7, <1>9, <1>10, <1>11, <2>1 DEF Placed
  <1>12. CASE slice.last /\ Handle(slice.msg) /\ slice.msg.kind = "def"
    <2>1. PICK m : m = Answer("respond", [call |-> 0, round |-> slice.msg.round], TRUE)
      OBVIOUS
    <2>2. sOut' = Slices(m) /\ macCalls' = macCalls
      BY <1>12, <2>1 DEF Handle
    <2>3. 1 = Len(Out) /\ cpc \in {"SendDef", "ReadDef"}
      BY <1>4, <1>6, <1>12 DEF Placed, Tasks
    <2>4. Len(Out') = 0 /\ Out' = <<>> /\ cOut = <<>>
      <3>1. Len(Out) = Len(p2c) + Len(cOut) /\ Len(p2c) > 0 /\ Len(p2c) \in Nat /\ Len(cOut) \in Nat
        BY <1>1 DEF Shape, Streams, Out
      <3>2. Len(cOut) = 0 /\ Len(Tail(p2c)) = 0 /\ Tail(p2c) \in Seq(TaskSlice)
        <4>1. Len(cOut) = 0 /\ Len(p2c) = 1
          <5>1. PICK a, b : a = Len(p2c) /\ b = Len(cOut)
            OBVIOUS
          <5>2. a \in Nat /\ b \in Nat /\ a > 0 /\ 1 = a + b
            BY <2>3, <3>1, <5>1
          <5>3. b = 0 /\ a = 1
            BY <5>2
          <5> QED
            BY <5>1, <5>3
        <4> QED
          BY <1>1, <4>1 DEF Shape, Streams
      <3>3. cOut = <<>> /\ Tail(p2c) = <<>>
        BY <3>2, EmptyStream DEF Shape, Streams
      <3>4. Out' = <<>> \o <<>>
        BY <1>1, <3>3 DEF Out
      <3>5. <<>> \o <<>> = <<>> /\ Len(<<>>) = 0
        OBVIOUS
      <3> QED
        BY <3>3, <3>4, <3>5
    <2>5. cpc = "ReadDef" /\ evalMacCalls = <<>>
      BY <2>3, <2>4 DEF Shape, ClientShape, Sending
    <2>6. \A k \in DOMAIN In : FALSE
      <3>1. \A k \in DOMAIN In : ~IsResult(In[k].msg)
        BY <2>5, NothingRuns
      <3> QED
        BY <1>6, <3>1 DEF Placed, Answers
    <2>7. m \in AnswerMessage /\ Len(Slices(m)) = 1 /\ ~IsResult(m)
      BY <1>6, <2>1, RespondFacts, RespondOnly DEF TaskMessage
    <2>8. Extends(In', In, m)
      BY <1>1, <2>2, <2>7, InGrows DEF Shape, ServerShape
    <2>9. Len(In') = 1 /\ \A k \in DOMAIN In' : k \notin DOMAIN In /\ In'[k].msg = m
      <3>1. Len(In) = 0
        <4>1. Len(In) \in Nat /\ 1 \notin 1..Len(In)
          BY <2>6, <2>8 DEF Extends
        <4> QED
          BY <4>1
      <3> QED
        BY <2>6, <2>7, <2>8, <3>1 DEF Extends
    <2>10. \A k \in DOMAIN In' : ~IsResult(In'[k].msg)
      BY <2>7, <2>9
    <2>11. Answers' /\ AnswersOnce' /\ \A c \in Call : ~OnItsWay(c)'
      <3>1. PICK r : r = In'
        OBVIOUS
      <3>2. \A k \in DOMAIN r : r[k].msg.kind \notin {"notFound", "result"}
        BY <2>10, <3>1 DEF IsResult
      <3>3. Len(r) = 1
        BY <2>9, <3>1
      <3> QED
        BY <1>1, <2>4, <2>5, <3>1, <3>2, <3>3 DEF Answers, AnswersOnce, OnItsWay, About, IsResult
    <2>12. OnePlace'
      BY <1>1, <1>3, <1>7, <1>8, <1>10, <2>2, <2>11, OnePlaceKept DEF Placed
    <2> QED
      BY <1>3, <1>7, <1>10, <2>2, <2>11, <2>12 DEF Placed
  <1>13. CASE slice.last /\ Handle(slice.msg) /\ slice.msg.kind = "calls"
    <2>1. PICK known, msg : known = Received(slice.msg.calls, slice.msg.round) /\ msg = slice.msg
      OBVIOUS
    <2>2. msg.calls \in Seq(Call) /\ msg.round \in 1..MaxRounds /\ msg.kind = "calls"
      BY <1>6, <1>13, <2>1 DEF TaskMessage
    <2>3. /\ known \in Seq(Entry) /\ Len(known) = Len(macCalls) + Len(msg.calls)
          /\ \A i \in 1..Len(macCalls) : known[i] = macCalls[i]
          /\ \A i \in 1..Len(msg.calls) : known[Len(macCalls) + i] =
                 [call |-> msg.calls[i], round |-> msg.round, at |-> "INIT"]
          /\ \A i \in 1..(Len(macCalls) + Len(msg.calls)) :
                i > Len(macCalls) => \E j \in 1..Len(msg.calls) : i = Len(macCalls) + j
          /\ macCalls \in Seq(Entry)
      BY <2>1, <2>2, ReceivedFacts DEF Shape, Types
    <2>4. DOMAIN known = 1..Len(known) /\ DOMAIN macCalls = 1..Len(macCalls)
          /\ Len(macCalls) \in Nat /\ Len(msg.calls) \in Nat /\ DOMAIN msg.calls = 1..Len(msg.calls)
      BY <2>2, <2>3
    <2>5. /\ sOut' = sOut
          /\ \/ known = <<>> /\ macCalls' = macCalls
             \/ known # <<>> /\ macCalls' = known
             \/ /\ known # <<>> /\ ~enableParallelMacro
                /\ macCalls' = [known EXCEPT ![Len(known)].at = "EVAL"]
      BY <1>13, <2>1 DEF Handle, SerialStart, SerialTask
    <2>6. /\ DOMAIN macCalls' = DOMAIN known
          /\ \A j \in DOMAIN known : /\ macCalls'[j].call = known[j].call
                                     /\ macCalls'[j].round = known[j].round
                                     /\ macCalls'[j].at # "FAIL" => known[j].at # "FAIL"
      <3>1. CASE known = <<>>
        <4>1. Len(known) = 0 /\ macCalls' = macCalls /\ Len(macCalls) = 0
          BY <2>3, <2>4, <2>5, <3>1
        <4>2. DOMAIN macCalls' = DOMAIN known /\ \A j \in DOMAIN known : FALSE
          BY <2>4, <4>1
        <4> QED
          BY <4>2
      <3>2. CASE known # <<>> /\ macCalls' = known
        BY <3>2
      <3>3. CASE /\ known # <<>> /\ ~enableParallelMacro
                 /\ macCalls' = [known EXCEPT ![Len(known)].at = "EVAL"]
        <4>1. Len(known) \in DOMAIN known
          BY <2>3, <3>3
        <4>2. PICK n, t : n = Len(known) /\ t = [known EXCEPT ![n].at = "EVAL"]
          OBVIOUS
        <4>3. /\ DOMAIN t = DOMAIN known
              /\ \A j \in DOMAIN known : /\ t[j].call = known[j].call /\ t[j].round = known[j].round
                                         /\ j # n => t[j] = known[j]
          BY <2>3, <4>1, <4>2, Marked
        <4>4. known[n].at # "FAIL"
          <5>1. msg.calls # <<>>
            BY <1>4, <1>6, <2>1, <2>2, <3>3 DEF Placed, Tasks
          <5>2. Len(msg.calls) > 0
            BY <2>2, <2>4, <5>1
          <5>3. Len(msg.calls) \in 1..Len(msg.calls) /\ n = Len(macCalls) + Len(msg.calls)
            BY <2>3, <2>4, <4>2, <5>2
          <5>4. known[n] = [call |-> msg.calls[Len(msg.calls)], round |-> msg.round, at |-> "INIT"]
            BY <2>3, <5>3
          <5> QED
            BY <5>4
        <4>5. macCalls' = t
          BY <3>3, <4>2
        <4> QED
          BY <4>3, <4>4, <4>5
      <3> QED
        BY <2>5, <3>1, <3>2, <3>3
    <2>7. ASSUME NEW j \in DOMAIN known, macCalls'[j].at # "FAIL"
          PROVE  \/ /\ j \in DOMAIN macCalls /\ macCalls'[j].call = macCalls[j].call
                    /\ macCalls'[j].round = macCalls[j].round /\ macCalls[j].at # "FAIL"
                    /\ AtServer(macCalls'[j].call) /\ macCalls'[j].call \in Call
                 \/ \E i \in DOMAIN msg.calls :
                       /\ j = Len(macCalls) + i /\ macCalls'[j].call = msg.calls[i]
                       /\ macCalls'[j].round = msg.round
      <3>1. known[j].at # "FAIL" /\ macCalls'[j].call = known[j].call
            /\ macCalls'[j].round = known[j].round /\ known[j] \in Entry
        BY <2>3, <2>6, <2>7
      <3>2. CASE j <= Len(macCalls)
        <4>1. j \in DOMAIN macCalls /\ known[j] = macCalls[j]
          BY <2>3, <2>4, <3>2
        <4> QED
          BY <3>1, <4>1 DEF AtServer, Entry
      <3>3. CASE j > Len(macCalls)
        <4>1. PICK i \in 1..Len(msg.calls) : j = Len(macCalls) + i
          BY <2>3, <2>4, <3>3
        <4>2. known[j] = [call |-> msg.calls[i], round |-> msg.round, at |-> "INIT"]
          BY <2>3, <4>1
        <4> QED
          BY <2>4, <3>1, <4>1, <4>2
      <3> QED
        BY <2>4, <3>2, <3>3
    <2>8. /\ \A i, j \in DOMAIN msg.calls : msg.calls[i] = msg.calls[j] => i = j
          /\ msg.calls # <<>> => msg.round = round
      BY <1>4, <1>6, <2>1, <2>2 DEF Placed, Tasks
    <2>9. ASSUME NEW i \in DOMAIN msg.calls
          PROVE  /\ msg.calls[i] \in Call /\ Carries(slice, msg.calls[i])
                 /\ Travels(msg.calls[i]) /\ ~Travels(msg.calls[i])'
                 /\ ~AtServer(msg.calls[i]) /\ ~OnItsWay(msg.calls[i]) /\ ~WasRead(msg.calls[i])
                 /\ msg.calls[i] \in Running \ isDataReady /\ msg.round = round
      <3>1. PICK c : c = msg.calls[i]
        OBVIOUS
      <3>2. c \in Call /\ Carries(slice, c) /\ msg.calls # <<>>
        BY <2>1, <2>2, <3>1 DEF Carries, ToSet
      <3>3. Travels(c) /\ ~Travels(c)'
        BY <1>3, <1>4, <1>13, <3>2
      <3>4. /\ ~AtServer(c) /\ ~OnItsWay(c) /\ ~WasRead(c)
            /\ c \in Running \ isDataReady
        BY <3>2, <3>3 DEF Placed, OnePlace
      <3> QED
        BY <2>8, <3>1, <3>2, <3>3, <3>4
    <2>10. ASSUME NEW j \in DOMAIN known, macCalls'[j].at # "FAIL"
           PROVE  /\ macCalls'[j].round = round
                  /\ \A k \in DOMAIN known :
                        macCalls'[k].at # "FAIL" /\ macCalls'[k].call = macCalls'[j].call => j = k
      <3>1. macCalls'[j].round = round
        BY <2>7, <2>9, <2>10 DEF Placed, Entries
      <3>2. ASSUME NEW k \in DOMAIN known, macCalls'[k].at # "FAIL",
                   macCalls'[k].call = macCalls'[j].call
            PROVE  j = k
        <4>1. CASE \E i \in DOMAIN msg.calls : j = Len(macCalls) + i /\ macCalls'[j].call = msg.calls[i]
          <5>1. PICK i \in DOMAIN msg.calls : j = Len(macCalls) + i /\ macCalls'[j].call = msg.calls[i]
            BY <4>1
          <5>2. ~AtServer(macCalls'[k].call)
            BY <2>9, <3>2, <5>1
          <5>3. PICK l \in DOMAIN msg.calls : k = Len(macCalls) + l /\ macCalls'[k].call = msg.calls[l]
            BY <2>7, <3>2, <5>2
          <5> QED
            BY <2>8, <3>2, <5>1, <5>3
        <4>2. CASE /\ j \in DOMAIN macCalls /\ macCalls'[j].call = macCalls[j].call
                   /\ macCalls[j].at # "FAIL" /\ AtServer(macCalls'[j].call)
          <5>1. k \in DOMAIN macCalls /\ macCalls'[k].call = macCalls[k].call /\ macCalls[k].at # "FAIL"
            BY <2>7, <2>9, <3>2, <4>2
          <5> QED
            BY <3>2, <4>2, <5>1 DEF Placed, Entries
        <4> QED
          BY <2>7, <2>10, <4>1, <4>2
      <3> QED
        BY <3>1, <3>2
    <2>11. Entries'
      BY <1>1, <2>6, <2>10 DEF Entries
    <2>12. ASSUME NEW c \in Call, AtServer(c)'
           PROVE  \/ AtServer(c)
                  \/ \E i \in DOMAIN msg.calls : c = msg.calls[i]
      <3>1. PICK j \in DOMAIN known : macCalls'[j].at # "FAIL" /\ macCalls'[j].call = c
        BY <2>6, <2>12 DEF AtServer
      <3> QED
        BY <2>7, <3>1
    <2>13. OnePlace'
      <3> SUFFICES ASSUME NEW c \in Call
                   PROVE  /\ Travels(c)' => ~AtServer(c)' /\ ~OnItsWay(c)' /\ ~WasRead(c)'
                          /\ AtServer(c)' => ~OnItsWay(c)' /\ ~WasRead(c)'
                          /\ OnItsWay(c)' => ~WasRead(c)'
                          /\ Travels(c)' \/ AtServer(c)' \/ OnItsWay(c)' \/ WasRead(c)' =>
                                c \in Running' \ isDataReady'
        BY DEF OnePlace
      <3>1. /\ Travels(c)' => Travels(c)
            /\ OnItsWay(c)' <=> OnItsWay(c)
            /\ WasRead(c)' <=> WasRead(c)
            /\ Running' = Running /\ isDataReady' = isDataReady
        BY <1>1, <1>3, <1>7, <1>8, <1>9, <2>5
      <3>2. CASE \E i \in DOMAIN msg.calls : c = msg.calls[i]
        BY <2>9, <3>1, <3>2
      <3>3. CASE AtServer(c)' => AtServer(c)
        BY <3>1, <3>3 DEF Placed, OnePlace
      <3> QED
        BY <2>12, <3>2, <3>3
    <2> QED
      BY <1>3, <1>7, <1>9, <2>5, <2>11, <2>13 DEF Placed
  <1>14. CASE slice.last /\ Handle(slice.msg) /\ slice.msg.kind \in {"stg", "exit"}
    <2>1. (macCalls' = <<>> \/ macCalls' = macCalls) /\ sOut' = sOut
      BY <1>14 DEF Handle
    <2>2. Entries' /\ \A c \in Call : AtServer(c)' => AtServer(c)
      <3>1. CASE macCalls' = <<>>
        BY <3>1 DEF Entries, AtServer
      <3> QED
        BY <1>10, <2>1, <3>1
    <2>3. OnePlace'
      BY <1>1, <1>3, <1>7, <1>8, <1>9, <2>1, <2>2, OnePlaceKept DEF Placed
    <2> QED
      BY <1>3, <1>7, <1>9, <2>1, <2>2, <2>3 DEF Placed
  <1> QED
    BY <1>5, <1>6, <1>11, <1>12, <1>13, <1>14 DEF TaskMessage

\* A call goes from the list of the server into a result.
LEMMA AnswerSent ==
    ASSUME Shape, Placed, NEW i \in DOMAIN macCalls, macCalls[i].at # "FAIL",
           NEW kind \in {"notFound", "result"}, NEW ok \in BOOLEAN,
           ok \/ macCalls[i].call \in NotFound \cup Failing,
           sOut = <<>>, sOut' = Slices(Answer(kind, macCalls[i], ok)),
           UNCHANGED <<enableParallelMacro, cpc, round, evalMacCalls, isDataReady, msgList, p2c,
                       cOut, c2p>>,
           Entries', \A c \in Call : AtServer(c)' => AtServer(c) /\ c # macCalls[i].call
    PROVE  Placed'
  <1>1. PICK e, m : e = macCalls[i] /\ m = Answer(kind, e, ok)
    OBVIOUS
  <1>2. /\ e \in Entry /\ AtServer(e.call) /\ e.round = round
        /\ evalMacCalls # <<>> /\ cpc \notin {"SendDef", "ReadDef"}
    BY <1>1, ServerBusy
  <1>3. e.call \in Call /\ m \in AnswerMessage
    BY <1>1, <1>2, AnswerAbout DEF Entry
  <1>4. m.kind = kind /\ Head(m.calls) = e.call /\ m.round = round /\ m.ok = ok
    BY <1>1, <1>2 DEF Answer
  <1>5. Extends(In', In, m)
    BY <1>1, <1>3, InGrows
  <1>6. /\ ~Travels(e.call) /\ ~OnItsWay(e.call) /\ ~WasRead(e.call)
        /\ e.call \in Running \ isDataReady
    BY <1>2, <1>3 DEF Placed, OnePlace
  <1>7. IsResult(m) /\ Truthful(m)
    BY <1>1, <1>3, <1>4 DEF IsResult, Truthful
  <1>8. /\ Answers' /\ AnswersOnce'
        /\ \A c \in Call : OnItsWay(c)' => OnItsWay(c) \/ c = e.call
    BY <1>2, <1>4, <1>5, <1>6, <1>7, AnswersGrow DEF Placed
  <1>9. Tasks' /\ TasksOnce' /\ \A c \in Call : Travels(c)' <=> Travels(c)
    BY TasksKept, OutKept DEF Placed
  <1>10. MsgsRead' /\ \A c \in Call : WasRead(c)' <=> WasRead(c)
    BY MsgsKept DEF Placed
  <1>11. Running' = Running
    BY RunningKept
  <1>12. OnePlace'
    <2> SUFFICES ASSUME NEW c \in Call
                 PROVE  /\ Travels(c)' => ~AtServer(c)' /\ ~OnItsWay(c)' /\ ~WasRead(c)'
                        /\ AtServer(c)' => ~OnItsWay(c)' /\ ~WasRead(c)'
                        /\ OnItsWay(c)' => ~WasRead(c)'
                        /\ Travels(c)' \/ AtServer(c)' \/ OnItsWay(c)' \/ WasRead(c)' =>
                              c \in Running' \ isDataReady'
      BY DEF OnePlace
    <2>1. /\ Travels(c)' => Travels(c)
          /\ AtServer(c)' => AtServer(c) /\ c # e.call
          /\ OnItsWay(c)' => OnItsWay(c) \/ c = e.call
          /\ WasRead(c)' => WasRead(c)
          /\ Running' = Running /\ isDataReady' = isDataReady
      BY <1>1, <1>8, <1>9, <1>10, <1>11
    <2>2. CASE c = e.call
      BY <1>6, <2>1, <2>2
    <2>3. CASE c # e.call
      BY <2>1, <2>3 DEF Placed, OnePlace
    <2> QED
      BY <2>2, <2>3
  <1> QED
    BY <1>8, <1>9, <1>10, <1>12 DEF Placed

\* The entry of a call whose result is sent, marked or removed.
LEMMA EntryFails ==
    ASSUME Shape, Entries, NEW i \in DOMAIN macCalls, macCalls[i].at # "FAIL", round' = round,
           macCalls' = [macCalls EXCEPT ![i].at = "FAIL"]
    PROVE  Entries' /\ \A c \in Call : AtServer(c)' => AtServer(c) /\ c # macCalls[i].call
  <1>1. PICK t : t = [macCalls EXCEPT ![i].at = "FAIL"]
    OBVIOUS
  <1>2. /\ DOMAIN t = DOMAIN macCalls /\ t[i].at = "FAIL"
        /\ \A j \in DOMAIN macCalls : /\ t[j].call = macCalls[j].call /\ t[j].round = macCalls[j].round
                                      /\ j # i => t[j] = macCalls[j]
    <2>1. macCalls \in Seq(Entry)
      BY DEF Shape, Types
    <2> QED
      BY <1>1, <2>1, Marked
  <1>3. macCalls' = t
    BY <1>1
  <1>4. Entries' /\ \A c \in Call : AtServer(c)' => AtServer(c)
    <2>1. \A j \in DOMAIN macCalls : t[j].at # "FAIL" => macCalls[j].at # "FAIL"
      BY <1>2
    <2> QED
      BY <1>2, <1>3, <2>1, EntriesMarked
  <1>5. ASSUME NEW c \in Call, AtServer(c)' PROVE c # macCalls[i].call
    <2>1. PICK j \in DOMAIN t : t[j].at # "FAIL" /\ t[j].call = c
      BY <1>3, <1>5 DEF AtServer
    <2>2. j # i /\ macCalls[j].at # "FAIL" /\ macCalls[j].call = c
      BY <1>2, <2>1
    <2> QED
      BY <1>2, <2>1, <2>2 DEF Entries
  <1> QED
    BY <1>4, <1>5

LEMMA EntryGoes ==
    ASSUME Shape, Entries, NEW i \in DOMAIN macCalls, macCalls[i].at # "FAIL", round' = round,
           macCalls' = RemoveAt(macCalls, i)
    PROVE  Entries' /\ \A c \in Call : AtServer(c)' => AtServer(c) /\ c # macCalls[i].call
  <1>1. PICK t : t = RemoveAt(macCalls, i)
    OBVIOUS
  <1>2. /\ t \in Seq(Entry) /\ Len(t) = Len(macCalls) - 1
        /\ \A k \in 1..(Len(macCalls) - 1) : t[k] = IF k < i THEN macCalls[k] ELSE macCalls[k + 1]
    BY <1>1, Removed DEF Shape, Types
  <1>3. /\ DOMAIN t = 1..(Len(macCalls) - 1) /\ DOMAIN macCalls = 1..Len(macCalls)
        /\ Len(macCalls) \in Nat /\ i \in 1..Len(macCalls)
    BY <1>2 DEF Shape, Types
  <1>4. macCalls' = t
    BY <1>1
  <1>5. ASSUME NEW k \in DOMAIN t
        PROVE  \/ k < i /\ k \in DOMAIN macCalls /\ t[k] = macCalls[k]
               \/ ~(k < i) /\ k + 1 \in DOMAIN macCalls /\ t[k] = macCalls[k + 1] /\ k + 1 # i
    BY <1>2, <1>3
  <1>6. ASSUME NEW k \in DOMAIN t, t[k].at # "FAIL"
        PROVE  t[k].round = round /\ \A l \in DOMAIN t : t[l].at # "FAIL" /\ t[l].call = t[k].call => k = l
    <2>1. t[k].round = round
      BY <1>5, <1>6 DEF Entries
    <2>2. ASSUME NEW l \in DOMAIN t, t[l].at # "FAIL", t[l].call = t[k].call PROVE k = l
      <3>1. \/ k < i /\ k \in DOMAIN macCalls /\ t[k] = macCalls[k]
            \/ ~(k < i) /\ k + 1 \in DOMAIN macCalls /\ t[k] = macCalls[k + 1]
        BY <1>5
      <3>2. \/ l < i /\ l \in DOMAIN macCalls /\ t[l] = macCalls[l]
            \/ ~(l < i) /\ l + 1 \in DOMAIN macCalls /\ t[l] = macCalls[l + 1]
        BY <1>5
      <3>3. PICK a \in DOMAIN macCalls, b \in DOMAIN macCalls :
               /\ t[k] = macCalls[a] /\ t[l] = macCalls[b]
               /\ (a = k /\ k < i) \/ (a = k + 1 /\ ~(k < i))
               /\ (b = l /\ l < i) \/ (b = l + 1 /\ ~(l < i))
        BY <3>1, <3>2
      <3>4. a = b
        BY <1>6, <2>2, <3>3 DEF Entries
      <3> QED
        BY <1>3, <3>3, <3>4
    <2> QED
      BY <2>1, <2>2
  <1>7. Entries'
    BY <1>4, <1>6 DEF Entries
  <1>8. ASSUME NEW c \in Call, AtServer(c)' PROVE AtServer(c) /\ c # macCalls[i].call
    <2>1. PICK k \in DOMAIN t : t[k].at # "FAIL" /\ t[k].call = c
      BY <1>4, <1>8 DEF AtServer
    <2>2. PICK a \in DOMAIN macCalls : t[k] = macCalls[a] /\ a # i
      BY <1>3, <1>5
    <2>3. AtServer(c)
      BY <2>1, <2>2 DEF AtServer
    <2>4. c # macCalls[i].call
      BY <2>1, <2>2 DEF Entries
    <2> QED
      BY <2>3, <2>4
  <1> QED
    BY <1>7, <1>8

LEMMA PlacedServerStep ==
    ASSUME Shape, Placed, Working, Server \/ Coroutines \/ Crash \/ ParentGone \/ WaitProcessExit
    PROVE  Placed'
  <1> USE DEF clientVars, linkVars, serverVars
  <1>1. UNCHANGED <<enableParallelMacro, cpc, round, evalMacCalls, isDataReady, msgList, cOut>>
    BY DEF Server, Coroutines, SrvRead, SrvNotFound, SrvStart, SrvWrite, SrvResult, CallDone,
           Crash, ParentGone, WaitProcessExit
  <1>2. CASE SrvNotFound
    <2>1. PICK i : i = CHOOSE h \in Missing : \A j \in Missing : h <= j
      OBVIOUS
    <2>2. i \in Missing
      <3>1. Missing \subseteq Nat /\ Missing # {}
        BY <1>2 DEF Shape, Types, SrvNotFound, Missing
      <3>2. \E k \in Missing : \A j \in Missing : k <= j
        BY <3>1, LeastNumber
      <3> QED
        BY <2>1, <3>2
    <2>3. i \in DOMAIN macCalls /\ macCalls[i].at # "FAIL" /\ macCalls[i].call \in NotFound
      BY <2>2 DEF Missing
    <2>4. /\ macCalls' = [macCalls EXCEPT ![i].at = "FAIL"]
          /\ sOut' = Slices(Answer("notFound", macCalls[i], FALSE))
          /\ spc = "Find" /\ p2c' = p2c /\ c2p' = c2p
      BY <1>2, <2>1 DEF SrvNotFound
    <2>5. Entries' /\ \A c \in Call : AtServer(c)' => AtServer(c) /\ c # macCalls[i].call
      BY <1>1, <2>3, <2>4, EntryFails DEF Placed
    <2>6. sOut = <<>>
      BY <2>4 DEF Shape, ServerShape
    <2> QED
      BY <1>1, <2>3, <2>4, <2>5, <2>6, AnswerSent
  <1>3. ASSUME NEW i \in DOMAIN macCalls, SrvResult(i) PROVE Placed'
    <2>1. /\ macCalls' = Forget(i) /\ macCalls[i].at = "DONE"
          /\ sOut' = Slices(Answer("result", macCalls[i], macCalls[i].call \notin Failing))
          /\ spc = "Wait" /\ p2c' = p2c /\ c2p' = c2p
      BY <1>3 DEF SrvResult
    <2>2. Entries' /\ \A c \in Call : AtServer(c)' => AtServer(c) /\ c # macCalls[i].call
      <3>1. CASE enableParallelMacro
        BY <1>1, <2>1, <3>1, EntryGoes DEF Placed, Forget
      <3>2. CASE ~enableParallelMacro
        BY <1>1, <2>1, <3>2, EntryFails DEF Placed, Forget
      <3> QED
        BY <3>1, <3>2
    <2>3. sOut = <<>>
      BY <2>1 DEF Shape, ServerShape
    <2>4. PICK ok \in BOOLEAN : ok = (macCalls[i].call \notin Failing)
      OBVIOUS
    <2>5. sOut' = Slices(Answer("result", macCalls[i], ok)) /\ macCalls[i].at # "FAIL"
          /\ (ok \/ macCalls[i].call \in NotFound \cup Failing)
      BY <2>1, <2>4
    <2> QED
      BY <1>1, <2>1, <2>2, <2>3, <2>5, AnswerSent
  <1>4. CASE SrvStart \/ \E i \in DOMAIN macCalls : CallDone(i)
    <2>1. UNCHANGED <<p2c, c2p, sOut>>
      BY <1>4 DEF SrvStart, CallDone
    <2>2. /\ DOMAIN macCalls' = DOMAIN macCalls
          /\ \A j \in DOMAIN macCalls : /\ macCalls'[j].call = macCalls[j].call
                                        /\ macCalls'[j].round = macCalls[j].round
                                        /\ macCalls'[j].at # "FAIL" => macCalls[j].at # "FAIL"
      <3>0. macCalls \in Seq(Entry)
        BY DEF Shape, Types
      <3>1. CASE SrvStart
        <4>1. macCalls' = [i \in DOMAIN macCalls |->
                      IF macCalls[i].at = "INIT" THEN [macCalls[i] EXCEPT !.at = "EVAL"]
                                                 ELSE macCalls[i]]
          BY <3>1 DEF SrvStart
        <4>2. ASSUME NEW j \in DOMAIN macCalls
              PROVE  /\ macCalls'[j].call = macCalls[j].call
                     /\ macCalls'[j].round = macCalls[j].round
                     /\ macCalls'[j].at # "FAIL" => macCalls[j].at # "FAIL"
          <5>1. macCalls[j] \in Entry
            BY <3>0
          <5>2. macCalls'[j] = (IF macCalls[j].at = "INIT" THEN [macCalls[j] EXCEPT !.at = "EVAL"]
                                                           ELSE macCalls[j])
            BY <4>1
          <5> QED
            BY <5>1, <5>2 DEF Entry
        <4> QED
          BY <4>1, <4>2
      <3>2. ASSUME NEW i \in DOMAIN macCalls, CallDone(i)
            PROVE  /\ DOMAIN macCalls' = DOMAIN macCalls
                   /\ \A j \in DOMAIN macCalls :
                         /\ macCalls'[j].call = macCalls[j].call
                         /\ macCalls'[j].round = macCalls[j].round
                         /\ macCalls'[j].at # "FAIL" => macCalls[j].at # "FAIL"
        <4>1. macCalls' = [macCalls EXCEPT ![i].at = "DONE"] /\ macCalls[i].at = "EVAL"
          BY <3>2 DEF CallDone
        <4>2. PICK t : t = [macCalls EXCEPT ![i].at = "DONE"]
          OBVIOUS
        <4>3. /\ DOMAIN t = DOMAIN macCalls
              /\ \A j \in DOMAIN macCalls : /\ t[j].call = macCalls[j].call
                                            /\ t[j].round = macCalls[j].round
                                            /\ j # i => t[j] = macCalls[j]
          BY <3>0, <4>2, Marked
        <4> QED
          BY <4>1, <4>2, <4>3
      <3> QED
        BY <1>4, <3>1, <3>2
    <2>3. Entries' /\ \A c \in Call : AtServer(c)' => AtServer(c)
      BY <1>1, <2>2, EntriesMarked DEF Placed
    <2>4. Tasks' /\ TasksOnce' /\ \A c \in Call : Travels(c)' <=> Travels(c)
      BY <1>1, <2>1, TasksKept, OutKept DEF Placed
    <2>5. Answers' /\ AnswersOnce' /\ \A c \in Call : OnItsWay(c)' <=> OnItsWay(c)
      BY <1>1, <2>1, AnswersKept, OutKept, InKept DEF Placed
    <2>6. MsgsRead' /\ \A c \in Call : WasRead(c)' <=> WasRead(c)
      BY <1>1, MsgsKept DEF Placed
    <2>7. OnePlace'
      BY <1>1, <2>3, <2>4, <2>5, <2>6, RunningKept, OnePlaceKept DEF Placed
    <2> QED
      BY <2>3, <2>4, <2>5, <2>6, <2>7 DEF Placed
  <1>5. CASE SrvWrite
    <2>1. /\ c2p' = Append(c2p, Head(sOut)) /\ sOut' = Tail(sOut) /\ p2c' = p2c
          /\ macCalls' = macCalls /\ spc = "Write"
      BY <1>5 DEF SrvWrite
    <2>2. In' = In
      BY <2>1, SlicePasses DEF Shape, Streams, ServerShape, In
    <2> QED
      BY <1>1, <2>1, <2>2, OutKept, PlacedKept
  <1>6. CASE Crash \/ ParentGone \/ WaitProcessExit
    <2>1. UNCHANGED <<p2c, c2p, sOut, macCalls>>
      BY <1>6 DEF Crash, ParentGone, WaitProcessExit
    <2> QED
      BY <1>1, <2>1, OutKept, InKept, PlacedKept
  <1> QED
    BY <1>2, <1>3, <1>4, <1>5, <1>6, PlacedSrvRead DEF Server, Coroutines

\* The keys of the calls differ, or the serial loop runs, where one call at a
\* time is out.
KeysTell == enableParallelMacro => \A c, d \in Call : Key(c) = Key(d) => c = d

LEMMA SingleRunning ==
    ASSUME Shape, ~enableParallelMacro, evalMacCalls # <<>>
    PROVE  /\ Len(evalMacCalls) = 1 /\ Head(evalMacCalls) = evalMacCalls[1]
           /\ Head(evalMacCalls) \in Call /\ Running = {Head(evalMacCalls)}
  <1>1. evalMacCalls \in Seq(Call) /\ Len(evalMacCalls) <= 1
    BY DEF Shape, Types, Width
  <1>2. Len(evalMacCalls) = 1
    <2>1. PICK n : n = Len(evalMacCalls)
      OBVIOUS
    <2>2. n \in Nat /\ n <= 1
      BY <1>1, <2>1
    <2>3. n # 0
      BY <1>1, <2>1, EmptyStream
    <2>4. n = 1
      BY <2>2, <2>3
    <2> QED
      BY <2>1, <2>4
  <1>3. Head(evalMacCalls) = evalMacCalls[1] /\ Head(evalMacCalls) \in Call
    BY <1>1, <1>2, OneCall
  <1>4. DOMAIN evalMacCalls = {1}
    BY <1>1, <1>2
  <1>5. Running = {Head(evalMacCalls)}
    BY <1>3, <1>4 DEF Running, ToSet
  <1> QED
    BY <1>2, <1>3, <1>5

\* A message is given to the call that it is about.
LEMMA GivenToOwn ==
    ASSUME Shape, Placed, KeysTell, NEW c \in Call, NEW k \in DOMAIN msgList,
           Receives(c, msgList[k])
    PROVE  Head(msgList[k].calls) = c /\ Truthful(msgList[k]) /\ c \in Running
  <1>1. Truthful(msgList[k]) /\ Head(msgList[k].calls) \in Call
    BY DEF Placed, MsgsRead, Truthful
  <1>2. c \in Running /\ Key(c) = Key(Head(msgList[k].calls))
    BY DEF Receives, Running, ToSet
  <1>3. CASE enableParallelMacro
    BY <1>1, <1>2, <1>3 DEF KeysTell
  <1>4. CASE ~enableParallelMacro
    <2>1. evalMacCalls # <<>>
      BY <1>2 DEF Running, ToSet
    <2>2. Head(msgList[k].calls) \in Running
      BY <1>1 DEF Placed, OnePlace, WasRead
    <2> QED
      BY <1>1, <1>2, <1>4, <2>1, <2>2, SingleRunning
  <1> QED
    BY <1>3, <1>4

LEMMA PlacedStartCalls ==
    ASSUME Shape, Placed, StartCalls
    PROVE  Placed'
  <1> USE DEF clientVars, linkVars, serverVars
  <1>1. PICK new \in Lists :
             /\ \A c \in ToSet(new) : status[c] = "INIT"
             /\ HasRoom(new)
             /\ evalMacCalls' = evalMacCalls \o new
             /\ status' = [c \in Call |-> IF c \in ToSet(new) THEN "EVAL" ELSE status[c]]
             /\ cOut' = Slices(Task("calls", Unsent(new), round))
    BY DEF StartCalls
  <1>2. /\ new \in Seq(Call) /\ Len(new) \in Nat
        /\ \A i, j \in DOMAIN new : new[i] = new[j] => i = j
    BY ListFacts
  <1>3. /\ cpc = "Turn" /\ cpc' = "SendCalls" /\ round \in 1..MaxRounds
        /\ UNCHANGED <<enableParallelMacro, round, isDataReady, msgList, macCalls, sOut, p2c, c2p>>
        /\ cOut = <<>>
    BY DEF StartCalls, Shape, Types, ClientShape, Sending
  <1>4. PICK m : m = Task("calls", new, round)
    OBVIOUS
  <1>5. m \in TaskMessage /\ cOut' = Slices(m)
    BY <1>1, <1>2, <1>3, <1>4, TaskFacts DEF Unsent
  <1>6. m.kind = "calls" /\ m.calls = new /\ m.round = round
    BY <1>4 DEF Task
  <1>7. Extends(Out', Out, m)
    BY <1>3, <1>5, OutGrows
  <1>8. Running' = Running \cup ToSet(new)
    BY <1>1, <1>2, RunningGrows DEF Shape, Types
  <1>9. ASSUME NEW c \in Call, c \in ToSet(new)
        PROVE  /\ c \notin Running /\ c \notin isDataReady
               /\ ~Travels(c) /\ ~AtServer(c) /\ ~OnItsWay(c) /\ ~WasRead(c)
    <2>1. c \notin Running /\ c \notin isDataReady
      BY <1>1, <1>9 DEF Shape, ClientShape, Types
    <2> QED
      BY <2>1 DEF Placed, OnePlace
  <1>10. enableParallelMacro \/ new # <<>>
    <2> SUFFICES ASSUME ~enableParallelMacro, new = <<>> PROVE FALSE
      OBVIOUS
    <2>1. evalMacCalls = <<>>
      BY <1>3 DEF Shape, ClientShape
    <2>2. Len(evalMacCalls) + Len(new) = 0
      BY <2>1
    <2> QED
      BY <1>1, <2>2 DEF HasRoom
  <1>11. /\ Tasks' /\ TasksOnce'
         /\ \A c \in Call : Travels(c)' => Travels(c) \/ c \in ToSet(new)
    BY <1>2, <1>3, <1>6, <1>7, <1>9, <1>10, TasksGrow DEF Placed
  <1>12. Answers' /\ AnswersOnce' /\ \A c \in Call : OnItsWay(c)' <=> OnItsWay(c)
    BY <1>3, InKept, AnswersStay DEF Placed
  <1>13. MsgsRead' /\ \A c \in Call : WasRead(c)' <=> WasRead(c)
    BY <1>3, MsgsKept DEF Placed
  <1>14. Entries' /\ \A c \in Call : AtServer(c)' <=> AtServer(c)
    BY <1>3, EntriesKept DEF Placed
  <1>15. OnePlace'
    <2> SUFFICES ASSUME NEW c \in Call
                 PROVE  /\ Travels(c)' => ~AtServer(c)' /\ ~OnItsWay(c)' /\ ~WasRead(c)'
                        /\ AtServer(c)' => ~OnItsWay(c)' /\ ~WasRead(c)'
                        /\ OnItsWay(c)' => ~WasRead(c)'
                        /\ Travels(c)' \/ AtServer(c)' \/ OnItsWay(c)' \/ WasRead(c)' =>
                              c \in Running' \ isDataReady'
      BY DEF OnePlace
    <2>1. /\ Travels(c)' => Travels(c) \/ c \in ToSet(new)
          /\ AtServer(c)' => AtServer(c)
          /\ OnItsWay(c)' => OnItsWay(c)
          /\ WasRead(c)' => WasRead(c)
          /\ isDataReady' = isDataReady
      BY <1>3, <1>11, <1>12, <1>13, <1>14
    <2>2. CASE c \in ToSet(new)
      BY <1>8, <1>9, <2>1, <2>2
    <2>3. CASE c \notin ToSet(new)
      BY <1>8, <2>1, <2>3 DEF Placed, OnePlace
    <2> QED
      BY <2>2, <2>3
  <1> QED
    BY <1>11, <1>12, <1>13, <1>14, <1>15 DEF Placed

LEMMA PlacedClientRead ==
    ASSUME Shape, Placed, ClientRead
    PROVE  Placed'
  <1> USE DEF clientVars, linkVars, serverVars
  <1>1. /\ cpc \in {"ReadDef", "Read"} /\ c2p # <<>> /\ c2p' = Tail(c2p)
        /\ UNCHANGED <<enableParallelMacro, round, evalMacCalls, isDataReady, cOut, macCalls,
                       sOut, p2c>>
    BY DEF ClientRead
  <1>2. Drops(In', In) /\ In[1] = Head(c2p)
    BY <1>1, InTaken
  <1>3. /\ Answers' /\ AnswersOnce'
        /\ \A c \in Call : OnItsWay(c)' => OnItsWay(c)
        /\ \A c \in Call : About(In[1], c) => OnItsWay(c)
        /\ \A c \in Call : In[1].last /\ About(In[1], c) => ~OnItsWay(c)'
    BY <1>1, <1>2, AnswersDrop DEF Placed
  <1>4. Entries' /\ \A c \in Call : AtServer(c)' <=> AtServer(c)
    BY <1>1, EntriesKept DEF Placed
  <1>5. Running' = Running /\ Out' = Out
    BY <1>1, RunningKept, OutKept
  <1>6. 1 \in DOMAIN In
    BY <1>2 DEF Drops
  <1>7. CASE cpc = "ReadDef"
    <2>1. msgList' = msgList /\ evalMacCalls = <<>>
      BY <1>7 DEF ClientRead, Shape, ClientShape
    <2>2. Out = <<>>
      BY <1>6, <2>1, NothingRuns DEF Placed, Answers
    <2>3. Tasks' /\ TasksOnce' /\ \A c \in Call : ~Travels(c)'
      BY <1>5, <2>2 DEF Tasks, TasksOnce, Travels
    <2>4. MsgsRead' /\ \A c \in Call : WasRead(c)' <=> WasRead(c)
      BY <1>1, <2>1, MsgsKept DEF Placed
    <2>5. OnePlace'
      BY <1>1, <1>3, <1>4, <1>5, <2>3, <2>4, OnePlaceKept DEF Placed
    <2> QED
      BY <1>3, <1>4, <2>3, <2>4, <2>5 DEF Placed
  <1>8. CASE cpc = "Read"
    <2>1. PICK slice, msg, c : slice = In[1] /\ msg = slice.msg /\ c = Head(msg.calls)
      OBVIOUS
    <2>2. IsResult(msg) /\ Truthful(msg) /\ c \in Call
      <3>1. IsResult(msg) /\ Truthful(msg)
        BY <1>6, <1>8, <2>1 DEF Placed, Answers
      <3> QED
        BY <2>1, <3>1 DEF Truthful
    <2>3. About(slice, c) /\ OnItsWay(c)
      <3>1. About(slice, c)
        BY <2>1, <2>2 DEF About
      <3> QED
        BY <1>3, <2>1, <2>2, <3>1
    <2>4. ~Travels(c) /\ ~AtServer(c) /\ ~WasRead(c) /\ c \in Running \ isDataReady
      BY <2>2, <2>3 DEF Placed, OnePlace
    <2>5. \/ slice.last /\ msgList' = Append(msgList, msg)
          \/ msgList' = msgList
      BY <1>2, <1>8, <2>1 DEF ClientRead
    <2>6. cpc' \in {"Read", "More"}
      BY <1>8 DEF ClientRead
    <2>7. Tasks' /\ TasksOnce' /\ \A d \in Call : Travels(d)' <=> Travels(d)
      BY <1>1, <1>5, <1>8, <2>6, TasksKept DEF Placed
    <2>8. CASE msgList' = msgList
      <3>1. MsgsRead' /\ \A d \in Call : WasRead(d)' <=> WasRead(d)
        BY <1>1, <2>8, MsgsKept DEF Placed
      <3>2. OnePlace'
        BY <1>1, <1>3, <1>4, <1>5, <2>7, <3>1, OnePlaceKept DEF Placed
      <3> QED
        BY <1>3, <1>4, <2>7, <3>1, <3>2 DEF Placed
    <2>9. CASE slice.last /\ msgList' = Append(msgList, msg)
      <3>1. PICK l, n : l = msgList' /\ n = Len(msgList)
        OBVIOUS
      <3>2. msg \in AnswerMessage /\ msgList \in Seq(AnswerMessage) /\ n \in Nat
        <4>1. In \in Seq(AnswerSlice) /\ slice \in AnswerSlice
          BY <1>6, <2>1, StreamTypes
        <4> QED
          BY <2>1, <3>1, <4>1 DEF AnswerSlice, Shape, Streams
      <3>3. /\ DOMAIN l = 1..(n + 1) /\ DOMAIN msgList = 1..n
            /\ l[n + 1] = msg /\ \A k \in DOMAIN msgList : l[k] = msgList[k]
        BY <2>9, <3>1, <3>2
      <3>4. ASSUME NEW k \in DOMAIN l
            PROVE  \/ k \in DOMAIN msgList /\ l[k] = msgList[k] /\ Head(l[k].calls) # c
                   \/ k = n + 1 /\ l[k] = msg
        <4>1. k \in DOMAIN msgList \/ k = n + 1
          BY <3>2, <3>3
        <4> QED
          BY <2>4, <3>3, <4>1 DEF WasRead
      <3>5. ASSUME NEW k \in DOMAIN l
            PROVE  /\ Truthful(l[k])
                   /\ \A j \in DOMAIN l : Head(l[j].calls) = Head(l[k].calls) => j = k
        <4>1. Truthful(l[k])
          BY <2>2, <3>4 DEF Placed, MsgsRead
        <4>2. ASSUME NEW j \in DOMAIN l, Head(l[j].calls) = Head(l[k].calls) PROVE j = k
          <5>1. CASE k = n + 1 /\ l[k] = msg
            BY <2>1, <3>4, <4>2, <5>1
          <5>2. CASE k \in DOMAIN msgList /\ l[k] = msgList[k] /\ Head(l[k].calls) # c
            <6>1. j \in DOMAIN msgList /\ l[j] = msgList[j]
              BY <2>1, <3>4, <4>2, <5>2
            <6> QED
              BY <4>2, <5>2, <6>1 DEF Placed, MsgsRead
          <5> QED
            BY <3>4, <5>1, <5>2
        <4> QED
          BY <4>1, <4>2
      <3>6. MsgsRead'
        BY <1>1, <3>1, <3>5 DEF MsgsRead, Truthful
      <3>7. ASSUME NEW d \in Call, WasRead(d)' PROVE WasRead(d) \/ d = c
        <4>1. PICK k \in DOMAIN l : Head(l[k].calls) = d
          BY <3>1, <3>7 DEF WasRead
        <4> QED
          BY <2>1, <3>4, <4>1 DEF WasRead
      <3>8. OnePlace'
        <4> SUFFICES ASSUME NEW d \in Call
                 PROVE  /\ Travels(d)' => ~AtServer(d)' /\ ~OnItsWay(d)' /\ ~WasRead(d)'
                        /\ AtServer(d)' => ~OnItsWay(d)' /\ ~WasRead(d)'
                        /\ OnItsWay(d)' => ~WasRead(d)'
                        /\ Travels(d)' \/ AtServer(d)' \/ OnItsWay(d)' \/ WasRead(d)' =>
                              d \in Running' \ isDataReady'
          BY DEF OnePlace
        <4>1. /\ Travels(d)' => Travels(d)
              /\ AtServer(d)' => AtServer(d)
              /\ OnItsWay(d)' => OnItsWay(d)
              /\ WasRead(d)' => WasRead(d) \/ d = c
              /\ Running' = Running /\ isDataReady' = isDataReady
          BY <1>1, <1>3, <1>4, <1>5, <2>7, <3>7
        <4>2. CASE d = c
          <5>1. ~OnItsWay(c)'
            BY <1>3, <2>1, <2>2, <2>3, <2>9
          <5> QED
            BY <2>4, <4>1, <4>2, <5>1
        <4>3. CASE d # c
          BY <4>1, <4>3 DEF Placed, OnePlace
        <4> QED
          BY <4>2, <4>3
      <3> QED
        BY <1>3, <1>4, <2>7, <3>6, <3>8 DEF Placed
    <2> QED
      BY <2>5, <2>8, <2>9
  <1> QED
    BY <1>1, <1>7, <1>8

LEMMA PlacedResults ==
    ASSUME Shape, Placed, KeysTell, ResultsIn \/ Collect \/ SerialResultIn
    PROVE  Placed'
  <1> USE DEF clientVars, linkVars, serverVars
  <1>1. /\ UNCHANGED <<enableParallelMacro, round, cOut, macCalls, sOut, p2c, c2p>>
        /\ cpc \in {"More", "Collect"} /\ cpc' \in {"Collect", "Turn"}
    BY DEF ResultsIn, Collect, SerialResultIn
  <1>2. Tasks' /\ TasksOnce' /\ \A c \in Call : Travels(c)' <=> Travels(c)
    BY <1>1, TasksKept, OutKept DEF Placed
  <1>3. Answers' /\ AnswersOnce' /\ \A c \in Call : OnItsWay(c)' <=> OnItsWay(c)
    BY <1>1, AnswersStay, InKept DEF Placed
  <1>4. Entries' /\ \A c \in Call : AtServer(c)' <=> AtServer(c)
    BY <1>1, EntriesKept DEF Placed
  <1>5. msgList' = <<>>
    <2>1. CASE ResultsIn \/ SerialResultIn
      BY <2>1 DEF ResultsIn, SerialResultIn
    <2>2. CASE Collect
      BY <2>2 DEF Collect, Shape, ClientShape, Leaving
    <2> QED
      BY <2>1, <2>2
  <1>6. MsgsRead' /\ \A c \in Call : ~WasRead(c)'
    BY <1>5, MsgsNone
  <1>7. ASSUME NEW c \in Call, Travels(c) \/ AtServer(c) \/ OnItsWay(c)
        PROVE  c \in Running' \ isDataReady'
    <2>1. c \in Running \ isDataReady /\ ~WasRead(c)
      BY <1>7 DEF Placed, OnePlace
    <2>2. CASE ResultsIn
      <3>1. /\ Running' = Running
            /\ isDataReady' = isDataReady \cup {d \in Running : AnswersTo(d) # {}}
        BY <2>2, RunningKept DEF ResultsIn
      <3>2. ASSUME AnswersTo(c) # {} PROVE FALSE
        <4>1. PICK k \in DOMAIN msgList : Receives(c, msgList[k])
          BY <3>2 DEF AnswersTo
        <4> QED
          BY <2>1, <4>1, GivenToOwn DEF WasRead
      <3> QED
        BY <2>1, <3>1, <3>2
    <2>3. CASE Collect
      <3>1. PICK i \in DOMAIN evalMacCalls :
               /\ evalMacCalls[i] \in isDataReady
               /\ isDataReady' = isDataReady \ {evalMacCalls[i]}
               /\ evalMacCalls' = RemoveAt(evalMacCalls, i)
        BY <2>3 DEF Collect
      <3>2. Running' = Running \ {evalMacCalls[i]}
        BY <3>1, RunningShrinks DEF Shape, Types, ClientShape
      <3> QED
        BY <2>1, <3>1, <3>2
    <2>4. CASE SerialResultIn
      <3>1. ~enableParallelMacro /\ evalMacCalls # <<>> /\ msgList # <<>>
        BY <2>4 DEF SerialResultIn, Shape, ClientShape
      <3>2. 1 \in DOMAIN msgList
        BY <3>1 DEF Shape, Streams
      <3>3. PICK d : d = Head(msgList[1].calls)
        OBVIOUS
      <3>4. d \in Call /\ WasRead(d)
        BY <3>2, <3>3 DEF Placed, MsgsRead, Truthful, WasRead
      <3>5. d \in Running
        BY <3>4 DEF Placed, OnePlace
      <3>6. c = d
        BY <2>1, <3>1, <3>5, SingleRunning
      <3> QED
        BY <2>1, <3>4, <3>6
    <2> QED
      BY <2>2, <2>3, <2>4
  <1>8. OnePlace'
    <2> SUFFICES ASSUME NEW c \in Call
                 PROVE  /\ Travels(c)' => ~AtServer(c)' /\ ~OnItsWay(c)' /\ ~WasRead(c)'
                        /\ AtServer(c)' => ~OnItsWay(c)' /\ ~WasRead(c)'
                        /\ OnItsWay(c)' => ~WasRead(c)'
                        /\ Travels(c)' \/ AtServer(c)' \/ OnItsWay(c)' \/ WasRead(c)' =>
                              c \in Running' \ isDataReady'
      BY DEF OnePlace
    <2>1. /\ Travels(c)' <=> Travels(c)
          /\ AtServer(c)' <=> AtServer(c)
          /\ OnItsWay(c)' <=> OnItsWay(c)
          /\ ~WasRead(c)'
      BY <1>2, <1>3, <1>4, <1>6
    <2>2. /\ Travels(c) => ~AtServer(c) /\ ~OnItsWay(c)
          /\ AtServer(c) => ~OnItsWay(c)
      BY DEF Placed, OnePlace
    <2> QED
      BY <1>7, <2>1, <2>2
  <1> QED
    BY <1>2, <1>3, <1>4, <1>6, <1>8 DEF Placed

LEMMA PlacedClientStep ==
    ASSUME Shape, Placed, KeysTell, Working, Working', Client \/ Signal \/ UNCHANGED vars
    PROVE  Placed'
  <1> USE DEF clientVars, linkVars, serverVars
  <1>1. CASE EndEvaluation
    <2>1. PICK m : m = Task("stg", <<>>, round)
      OBVIOUS
    <2>2. /\ UNCHANGED <<enableParallelMacro, round, evalMacCalls, isDataReady, msgList, macCalls,
                         sOut, p2c, c2p>>
          /\ cOut = <<>> /\ cOut' = Slices(m) /\ cpc = "Turn" /\ round \in 1..MaxRounds
      BY <1>1, <2>1 DEF EndEvaluation, Shape, Types, ClientShape, Sending
    <2>3. m \in TaskMessage /\ m.kind = "stg" /\ m.calls = <<>>
      <3>1. <<>> \in Seq(Call)
        OBVIOUS
      <3> QED
        BY <2>1, <2>2, <3>1, TaskFacts DEF Task
    <2>4. Extends(Out', Out, m)
      BY <2>2, <2>3, OutGrows
    <2>5. Tasks' /\ TasksOnce' /\ \A c \in Call : Travels(c)' => Travels(c)
      <3>1. \A i, j \in DOMAIN m.calls : m.calls[i] = m.calls[j] => i = j
        BY <2>3
      <3> QED
        BY <2>2, <2>3, <2>4, <3>1, TasksGrow DEF Placed
    <2>6. Answers' /\ AnswersOnce' /\ \A c \in Call : OnItsWay(c)' <=> OnItsWay(c)
      BY <2>2, AnswersStay, InKept DEF Placed
    <2>7. Entries' /\ \A c \in Call : AtServer(c)' <=> AtServer(c)
      BY <2>2, EntriesKept DEF Placed
    <2>8. MsgsRead' /\ \A c \in Call : WasRead(c)' <=> WasRead(c)
      BY <2>2, MsgsKept DEF Placed
    <2>9. OnePlace'
      BY <2>2, <2>5, <2>6, <2>7, <2>8, RunningKept, OnePlaceKept DEF Placed
    <2> QED
      BY <2>5, <2>6, <2>7, <2>8, <2>9 DEF Placed
  <1>2. CASE ClientWrite
    <2>1. /\ p2c' = Append(p2c, Head(cOut)) /\ cOut' = Tail(cOut) /\ cpc \in Sending
          /\ cpc' = (IF cOut' = <<>> THEN AfterSend ELSE cpc)
          /\ UNCHANGED <<enableParallelMacro, round, evalMacCalls, isDataReady, msgList, macCalls,
                         sOut, c2p>>
      BY <1>2 DEF ClientWrite
    <2>2. cOut # <<>>
      BY <2>1 DEF Shape, ClientShape
    <2>3. Out' = Out
      BY <2>1, <2>2, SlicePasses DEF Shape, Streams, Out
    <2>4. cpc \in {"SendDef", "ReadDef"} => cpc' \in {"SendDef", "ReadDef"}
      <3>1. cpc # "ReadDef"
        BY <2>1 DEF Sending
      <3>2. cpc = "SendDef" => AfterSend = "ReadDef"
        BY DEF AfterSend
      <3> QED
        BY <2>1, <3>1, <3>2
    <2>5. cpc # "ReadDef"
      BY <2>1 DEF Sending
    <2> QED
      BY <2>1, <2>3, <2>4, <2>5, InKept, PlacedKept
  <1>3. CASE SendFails \/ ReadFails
    BY <1>3 DEF SendFails, ReadFails, LatchedError, Working
  <1>4. CASE ReadMore
    BY <1>4, OutKept, InKept, PlacedKept DEF ReadMore
  <1>5. CASE WaitExit \/ Signal
    BY <1>5 DEF WaitExit, Signal, Working, Leaving
  <1>6. CASE UNCHANGED vars
    BY <1>6, OutKept, InKept, PlacedKept DEF vars
  <1> QED
    BY <1>1, <1>2, <1>3, <1>4, <1>5, <1>6, PlacedStartCalls, PlacedClientRead, PlacedResults
    DEF Client

LEMMA PlacedBegin ==
    ASSUME Shape, Places, Begin, Working'
    PROVE  Placed'
  <1> USE DEF clientVars, linkVars, serverVars
  <1>1. /\ cpc = "Idle" /\ round' \in 1..MaxRounds
        /\ UNCHANGED <<enableParallelMacro, evalMacCalls, isDataReady, msgList>>
        /\ evalMacCalls = <<>> /\ cOut = <<>> /\ msgList = <<>>
    BY ConstantsAssumption
       DEF Begin, Shape, Types, ClientShape, Leaving, Sending, ConstantsAssumption
  <1>2. \/ /\ macroSrvRun /\ pipeError' = pipeError
           /\ UNCHANGED <<p2c, c2p, macCalls, sOut>>
        \/ p2c' = <<>> /\ c2p' = <<>> /\ macCalls' = <<>> /\ sOut' = <<>>
    BY DEF Begin, CreateMacroSrvProcess
  <1>3. Out = p2c
    BY <1>1, EmptyEnd DEF Out, Shape, Streams
  <1>4. /\ \A k \in DOMAIN p2c' : /\ p2c'[k].msg.kind = "calls" =>
                                        enableParallelMacro /\ p2c'[k].msg.calls = <<>>
                                  /\ p2c'[k].msg.kind # "def"
                                  /\ \A i, j \in DOMAIN p2c'[k].msg.calls :
                                        p2c'[k].msg.calls[i] = p2c'[k].msg.calls[j] => i = j
        /\ In' = <<>> \/ \A k \in DOMAIN In' : FALSE
        /\ \A i \in DOMAIN macCalls' : macCalls'[i].at = "FAIL"
        /\ p2c' \in Seq(TaskSlice)
    <2>1. CASE macroSrvRun /\ pipeError' = pipeError /\ UNCHANGED <<p2c, c2p, macCalls, sOut>>
      <3>1. Placed
        BY <1>1, <2>1 DEF Places, Working, Leaving
      <3>2. /\ \A c \in Call : ~Travels(c) /\ ~AtServer(c) /\ ~OnItsWay(c) /\ ~WasRead(c)
            /\ \A k \in DOMAIN In : ~IsResult(In[k].msg)
        BY <1>1, <3>1, NothingRuns
      <3>3. In' = In /\ \A k \in DOMAIN In : FALSE
        BY <1>1, <2>1, <3>1, <3>2, InKept DEF Placed, Answers
      <3>4. \A i \in DOMAIN macCalls : macCalls[i].at = "FAIL"
        <4> SUFFICES ASSUME NEW i \in DOMAIN macCalls, macCalls[i].at # "FAIL" PROVE FALSE
          OBVIOUS
        <4> QED
          BY <1>1, <3>1, ServerBusy
      <3>5. ASSUME NEW k \in DOMAIN p2c
            PROVE  /\ p2c[k].msg.kind = "calls" => enableParallelMacro /\ p2c[k].msg.calls = <<>>
                   /\ p2c[k].msg.kind # "def"
                   /\ \A i, j \in DOMAIN p2c[k].msg.calls :
                        p2c[k].msg.calls[i] = p2c[k].msg.calls[j] => i = j
        <4>1. p2c[k].msg \in TaskMessage
          <5>1. p2c \in Seq(TaskSlice)
            BY DEF Shape, Streams
          <5>2. p2c[k] \in TaskSlice
            BY <5>1
          <5> QED
            BY <5>2 DEF TaskSlice
        <4>2. p2c[k].msg.calls \in Seq(Call)
          BY <4>1 DEF TaskMessage
        <4>3. ASSUME p2c[k].msg.kind = "calls", p2c[k].msg.calls # <<>> PROVE FALSE
          <5>1. PICK s : s = p2c[k].msg.calls
            OBVIOUS
          <5>2. s \in Seq(Call) /\ s # <<>>
            BY <4>2, <4>3, <5>1
          <5>3. 1 \in DOMAIN s /\ s[1] \in Call
            BY <5>2
          <5>4. Carries(Out[k], s[1])
            BY <1>3, <4>3, <5>1, <5>3 DEF Carries, ToSet
          <5> QED
            BY <1>3, <3>2, <5>3, <5>4 DEF Travels
        <4>4. p2c[k].msg.kind = "calls" /\ ~enableParallelMacro => p2c[k].msg.calls # <<>>
          BY <1>3, <3>1 DEF Placed, Tasks
        <4>5. /\ p2c[k].msg.kind # "def"
              /\ \A i, j \in DOMAIN p2c[k].msg.calls :
                        p2c[k].msg.calls[i] = p2c[k].msg.calls[j] => i = j
          BY <1>1, <1>3, <3>1 DEF Placed, Tasks
        <4> QED
          BY <4>3, <4>4, <4>5 DEF Shape, Types
      <3>6. p2c' = p2c /\ macCalls' = macCalls /\ p2c \in Seq(TaskSlice)
        BY <2>1 DEF Shape, Streams
      <3> QED
        BY <3>3, <3>4, <3>5, <3>6
    <2>2. CASE p2c' = <<>> /\ c2p' = <<>> /\ macCalls' = <<>> /\ sOut' = <<>>
      <3>1. In' = <<>>
        BY <2>2 DEF In
      <3>2. <<>> \in Seq(TaskSlice) /\ \A k \in DOMAIN <<>> : FALSE
        OBVIOUS
      <3> QED
        BY <2>2, <3>1, <3>2
    <2> QED
      BY <1>2, <2>1, <2>2
  <1>5. PICK m : m = Task("def", <<>>, round')
    OBVIOUS
  <1>6. m \in TaskMessage /\ m.kind = "def" /\ m.calls = <<>>
    <2>1. <<>> \in Seq(Call)
      OBVIOUS
    <2> QED
      BY <1>1, <1>5, <2>1, TaskFacts DEF Task
  <1>7. Len(Slices(m)) = 1
    <2>1. ToSet(m.calls) \cap Big = {}
      BY <1>6 DEF ToSet
    <2> QED
      BY <2>1, SliceFacts
  <1>8. \/ cpc' = "SendDef" /\ cOut' = Slices(m)
        \/ cpc' = "Turn" /\ cOut' = <<>>
    BY <1>1, <1>5 DEF Begin
  <1>9. PICK q, r : q = p2c' /\ r = Out'
    OBVIOUS
  <1>10. \/ cpc' = "SendDef" /\ Extends(r, q, m)
         \/ r = q
    <2>1. CASE cpc' = "SendDef" /\ cOut' = Slices(m)
      <3>1. Slices(m) \in Seq(TaskSlice) /\ MakeUp(Slices(m), m)
        BY <1>6, SliceFacts DEF TaskSlice, MakeUp
      <3>2. r = q \o Slices(m)
        BY <1>9, <2>1 DEF Out
      <3>3. Extends(q \o Slices(m), q, m)
        BY <1>4, <1>9, <3>1, Grown
      <3> QED
        BY <2>1, <3>2, <3>3
    <2>2. CASE cpc' = "Turn" /\ cOut' = <<>>
      BY <1>4, <1>9, <2>2, EmptyEnd DEF Out
    <2> QED
      BY <1>8, <2>1, <2>2
  <1>11. \A k \in DOMAIN q : /\ q[k].msg.kind = "calls" => enableParallelMacro /\ q[k].msg.calls = <<>>
                             /\ q[k].msg.kind # "def"
                             /\ \A i, j \in DOMAIN q[k].msg.calls :
                                   q[k].msg.calls[i] = q[k].msg.calls[j] => i = j
    BY <1>4, <1>9
  <1>12. ASSUME NEW k \in DOMAIN r
         PROVE  /\ r[k].msg.kind = "calls" => enableParallelMacro /\ r[k].msg.calls = <<>>
                /\ r[k].msg.kind = "def" => k = Len(r) /\ cpc' = "SendDef"
                /\ \A i, j \in DOMAIN r[k].msg.calls : r[k].msg.calls[i] = r[k].msg.calls[j] => i = j
    <2>1. CASE r = q
      BY <1>11, <2>1
    <2>2. CASE cpc' = "SendDef" /\ Extends(r, q, m)
      <3>1. CASE k \in DOMAIN q
        BY <1>11, <2>2, <3>1 DEF Extends
      <3>2. CASE k \notin DOMAIN q
        <4>1. r[k].msg = m
          BY <2>2, <3>2 DEF Extends
        <4>2. Len(r) = Len(q) + 1 /\ DOMAIN r = 1..Len(r) /\ DOMAIN q = 1..Len(q) /\ Len(q) \in Nat
          BY <1>7, <2>2 DEF Extends
        <4>3. k = Len(r)
          BY <3>2, <4>2
        <4> QED
          BY <1>6, <2>2, <4>1, <4>3
      <3> QED
        BY <3>1, <3>2
    <2> QED
      BY <1>10, <2>1, <2>2
  <1>13. \A k \in DOMAIN r, c \in Call : ~Carries(r[k], c)
    <2> SUFFICES ASSUME NEW k \in DOMAIN r, NEW c \in Call, Carries(r[k], c) PROVE FALSE
      OBVIOUS
    <2>1. r[k].msg.calls = <<>> /\ c \in ToSet(r[k].msg.calls)
      BY <1>12 DEF Carries
    <2> QED
      BY <2>1 DEF ToSet
  <1>14. Tasks'
    BY <1>1, <1>9, <1>12 DEF Tasks
  <1>15. TasksOnce' /\ \A c \in Call : ~Travels(c)'
    BY <1>9, <1>13 DEF TasksOnce, Travels, Carries
  <1>16. Answers' /\ AnswersOnce' /\ \A c \in Call : ~OnItsWay(c)'
    BY <1>4 DEF Answers, AnswersOnce, OnItsWay
  <1>17. MsgsRead' /\ \A c \in Call : ~WasRead(c)'
    BY <1>1, MsgsNone
  <1>18. Entries' /\ \A c \in Call : ~AtServer(c)'
    BY <1>4 DEF Entries, AtServer
  <1>19. OnePlace'
    BY <1>15, <1>16, <1>17, <1>18 DEF OnePlace
  <1> QED
    BY <1>14, <1>15, <1>16, <1>17, <1>18, <1>19 DEF Placed

LEMMA StillWorking ==
    ASSUME Shape, [Next]_vars, ~Begin, Working'
    PROVE  Working
  <1> USE DEF clientVars, linkVars, serverVars
  <1>1. CASE Client
    <2>1. CASE ClientWrite
      <3>1. ~pipeError /\ cpc' \in {cpc, AfterSend}
        BY <2>1 DEF ClientWrite
      <3>2. cpc = "SendExit" => AfterSend = "WaitExit"
        BY DEF AfterSend
      <3>3. cpc \in Sending
        BY <2>1 DEF ClientWrite
      <3> QED
        BY <3>1, <3>2, <3>3 DEF Working, Leaving, Sending
    <2>2. CASE SendFails \/ ReadFails
      BY <2>2 DEF SendFails, ReadFails, LatchedError, Working
    <2>3. CASE StartCalls \/ EndEvaluation \/ ClientRead \/ ReadMore \/ ResultsIn \/ Collect
               \/ SerialResultIn \/ WaitExit
      <3>1. pipeError' = pipeError
        BY <2>3 DEF StartCalls, EndEvaluation, ClientRead, ReadMore, ResultsIn, Collect,
                    SerialResultIn, WaitExit
      <3>2. cpc \notin Leaving \/ cpc' \in Leaving
        BY <2>3 DEF StartCalls, EndEvaluation, ClientRead, ReadMore, ResultsIn, Collect,
                    SerialResultIn, WaitExit, Leaving
      <3> QED
        BY <3>1, <3>2 DEF Working, Leaving
    <2> QED
      BY <1>1, <2>1, <2>2, <2>3 DEF Client
  <1>2. CASE Signal
    BY <1>2 DEF Signal, Working, Leaving
  <1>3. CASE Server \/ Coroutines \/ Crash \/ ParentGone \/ WaitProcessExit
    <2>1. cpc' = cpc /\ pipeError' = pipeError
      BY <1>3 DEF Server, Coroutines, SrvRead, SrvNotFound, SrvStart, SrvWrite, SrvResult, CallDone,
                  Crash, ParentGone, WaitProcessExit
    <2> QED
      BY <2>1 DEF Working, Leaving
  <1>4. CASE UNCHANGED vars
    BY <1>4 DEF vars, Working, Leaving
  <1> QED
    BY <1>1, <1>2, <1>3, <1>4 DEF Next, WaitSpin, Rest

LEMMA PlacesStep ==
    ASSUME Shape, Places, KeysTell, [Next]_vars
    PROVE  Places'
  <1> SUFFICES ASSUME Working' PROVE Placed'
    BY DEF Places
  <1>1. CASE Begin
    BY <1>1, PlacedBegin
  <1>2. CASE ~Begin
    <2>1. Working /\ Placed
      BY <1>2, StillWorking DEF Places
    <2> QED
      BY <1>2, <2>1, PlacedClientStep, PlacedServerStep DEF Next, WaitSpin, Rest
  <1> QED
    BY <1>1, <1>2

(***************************************************************************)
(* What the client keeps: the results of the calls that are ready are      *)
(* their own, and a call failed for a cause.                               *)
(***************************************************************************)
ReadyOwn == \A c \in isDataReady : result[c] = <<round, c>>
Cause(c) == c \in NotFound \cup Failing \/ (pipeError /\ spc = "Down")
Kept == ReadyOwn /\ OwnResult /\ FailsWithCause

\* Of the messages for a call the last is about it.
LEMMA OwnAnswer ==
    ASSUME Shape, Placed, KeysTell, NEW c \in Call, AnswersTo(c) # {}
    PROVE  /\ LastAnswer(c).round = round /\ Head(LastAnswer(c).calls) = c
           /\ ~LastAnswer(c).ok => c \in NotFound \cup Failing
           /\ c \in Running
  <1>1. PICK n : n = Len(msgList)
    OBVIOUS
  <1>2. n \in Nat /\ AnswersTo(c) \subseteq 1..n
    BY <1>1 DEF Shape, Streams, AnswersTo
  <1>3. \E k \in AnswersTo(c) : \A l \in AnswersTo(c) : l <= k
    BY <1>2, GreatestIndex
  <1>4. PICK k : k = CHOOSE h \in AnswersTo(c) : \A l \in AnswersTo(c) : l <= h
    OBVIOUS
  <1>5. k \in AnswersTo(c)
    BY <1>3, <1>4
  <1>6. LastAnswer(c) = msgList[k]
    BY <1>4 DEF LastAnswer
  <1>7. k \in DOMAIN msgList /\ Receives(c, msgList[k])
    BY <1>5 DEF AnswersTo
  <1>8. Head(msgList[k].calls) = c /\ Truthful(msgList[k]) /\ c \in Running
    BY <1>7, GivenToOwn
  <1> QED
    BY <1>6, <1>8 DEF Truthful

\* The serial loop reads one message, and it is for the call that runs.
LEMMA OwnSerialAnswer ==
    ASSUME Shape, Placed, ~enableParallelMacro, cpc = "More"
    PROVE  /\ Len(msgList) = 1 /\ Head(msgList) = msgList[1] /\ 1 \in DOMAIN msgList
           /\ Receives(Head(evalMacCalls), Head(msgList))
  <1>1. /\ evalMacCalls # <<>> /\ msgList # <<>> /\ msgList \in Seq(AnswerMessage)
        /\ evalMacCalls \in Seq(Call)
    BY DEF Shape, ClientShape, Streams, Types
  <1>2. /\ Len(evalMacCalls) = 1 /\ Head(evalMacCalls) = evalMacCalls[1]
        /\ Head(evalMacCalls) \in Call /\ Running = {Head(evalMacCalls)}
    BY <1>1, SingleRunning
  <1>3. \A k \in DOMAIN msgList : Head(msgList[k].calls) = Head(evalMacCalls)
    <2> SUFFICES ASSUME NEW k \in DOMAIN msgList PROVE Head(msgList[k].calls) = Head(evalMacCalls)
      OBVIOUS
    <2>1. Head(msgList[k].calls) \in Call
      BY DEF Placed, MsgsRead, Truthful
    <2>2. Head(msgList[k].calls) \in Running
      BY <2>1 DEF Placed, OnePlace, WasRead
    <2> QED
      BY <1>2, <2>2
  <1>4. \A k, l \in DOMAIN msgList : k = l
    BY <1>3 DEF Placed, MsgsRead
  <1>5. Len(msgList) = 1
    <2>1. PICK n : n = Len(msgList)
      OBVIOUS
    <2>2. n \in Nat /\ DOMAIN msgList = 1..n /\ n # 0
      BY <1>1, <2>1, EmptyStream
    <2>3. n \in 1..n /\ 1 \in 1..n
      BY <2>2
    <2>4. n = 1
      BY <1>4, <2>2, <2>3
    <2> QED
      BY <2>1, <2>4
  <1>6. Head(msgList) = msgList[1] /\ 1 \in DOMAIN msgList
    BY <1>1, <1>5
  <1>7. 1 \in DOMAIN evalMacCalls /\ 1..(1 - 1) = {}
    BY <1>1, <1>2
  <1>8. Key(Head(evalMacCalls)) = Key(Head(Head(msgList).calls))
    BY <1>3, <1>6
  <1>9. Receives(Head(evalMacCalls), Head(msgList))
    BY <1>2, <1>7, <1>8 DEF Receives
  <1> QED
    BY <1>5, <1>6, <1>9

LEMMA CauseKept ==
    ASSUME Shape, [Next]_vars, ~Begin, NEW c, Cause(c)
    PROVE  Cause(c)'
  <1> USE DEF clientVars, linkVars, serverVars
  <1>1. SUFFICES ASSUME pipeError, spc = "Down" PROVE pipeError' /\ spc' = "Down"
    BY DEF Cause
  <1>2. CASE Client
    BY <1>1, <1>2 DEF Client, StartCalls, EndEvaluation, ClientWrite, SendFails, ClientRead,
                ReadFails, ReadMore, ResultsIn, Collect, SerialResultIn, WaitExit, LatchedError
  <1>3. CASE Signal
    BY <1>1, <1>3 DEF Signal
  <1>4. CASE Server \/ Coroutines \/ Crash \/ ParentGone \/ WaitProcessExit
    BY <1>1, <1>4 DEF Server, Coroutines, SrvRead, SrvNotFound, SrvStart, SrvWrite, SrvResult,
                CallDone, Crash, ParentGone, WaitProcessExit
  <1>5. CASE UNCHANGED vars
    BY <1>1, <1>5 DEF vars
  <1> QED
    BY <1>2, <1>3, <1>4, <1>5 DEF Next, WaitSpin, Rest

\* A step that leaves the calls alone.
LEMMA CallsKept ==
    ASSUME Shape, Kept, [Next]_vars, ~Begin, UNCHANGED <<round, status, isDataReady, result>>
    PROVE  Kept'
  <1>1. \A c \in Call : Cause(c) => Cause(c)'
    BY CauseKept
  <1> QED
    BY <1>1 DEF Kept, ReadyOwn, OwnResult, FailsWithCause, Cause

\* A step that fails the running calls.
LEMMA RunningFail ==
    ASSUME Shape, Kept, [Next]_vars, ~Begin, FailRunning, pipeError', spc' = "Down",
           UNCHANGED <<round, result>>
    PROVE  Kept'
  <1>1. \A c \in Call : Cause(c)'
    BY DEF Cause
  <1> QED
    BY <1>1 DEF Kept, ReadyOwn, OwnResult, FailsWithCause, Cause, FailRunning

LEMMA KeptStep ==
    ASSUME Shape, Places, KeysTell, Kept, [Next]_vars
    PROVE  Kept'
  <1> USE DEF clientVars, linkVars, serverVars
  <1>1. CASE Begin
    <2>1. isDataReady = {} /\ isDataReady' = isDataReady
      BY <1>1, RunningFacts DEF Begin, Shape, Types, ClientShape
    <2>2. \A c \in Call : status'[c] = "INIT"
      BY <1>1 DEF Begin
    <2> QED
      BY <2>1, <2>2 DEF Kept, ReadyOwn, OwnResult, FailsWithCause
  <1>2. CASE StartCalls
    <2>1. PICK new \in Lists :
             status' = [c \in Call |-> IF c \in ToSet(new) THEN "EVAL" ELSE status[c]]
      BY <1>2 DEF StartCalls
    <2>2. UNCHANGED <<round, isDataReady, result, pipeError, spc>>
      BY <1>2 DEF StartCalls
    <2> QED
      BY <2>1, <2>2 DEF Kept, ReadyOwn, OwnResult, FailsWithCause
  <1>3. CASE SendFails \/ ReadFails
    <2>1. pipeError' /\ spc' = "Down" /\ UNCHANGED <<round, result>> /\ ~Begin
      BY <1>3 DEF SendFails, ReadFails, LatchedError, Shape, ServerShape, Begin, Sending
    <2>2. FailRunning \/ UNCHANGED <<status, isDataReady>>
      BY <1>3 DEF SendFails, ReadFails
    <2> QED
      BY <2>1, <2>2, CallsKept, RunningFail
  <1>4. CASE ResultsIn
    <2>1. /\ isDataReady' = isDataReady \cup {c \in Running : AnswersTo(c) # {}}
          /\ status' = [c \in Call |-> IF AnswersTo(c) = {} THEN status[c]
                                       ELSE IF LastAnswer(c).ok THEN "EVAL" ELSE "FAIL"]
          /\ result' = [c \in Call |-> IF AnswersTo(c) = {} THEN result[c]
                             ELSE <<LastAnswer(c).round, Head(LastAnswer(c).calls)>>]
          /\ UNCHANGED <<round, pipeError, spc>>
      BY <1>4 DEF ResultsIn
    <2>2. Placed
      BY <1>4 DEF ResultsIn, Places, Working, Leaving, Shape, ServerShape
    <2>3. ASSUME NEW c \in Call, AnswersTo(c) # {}
          PROVE  /\ result'[c] = <<round, c>> /\ status'[c] \in {"EVAL", "FAIL"}
                 /\ status'[c] = "FAIL" => c \in NotFound \cup Failing
      <3>1. /\ LastAnswer(c).round = round /\ Head(LastAnswer(c).calls) = c
            /\ ~LastAnswer(c).ok => c \in NotFound \cup Failing
        BY <2>2, <2>3, OwnAnswer
      <3> QED
        BY <2>1, <2>3, <3>1
    <2>4. ASSUME NEW c \in Call, AnswersTo(c) = {}
          PROVE  result'[c] = result[c] /\ status'[c] = status[c]
      BY <2>1, <2>4
    <2>5. ReadyOwn'
      <3> SUFFICES ASSUME NEW c \in isDataReady' PROVE result'[c] = <<round, c>>
        BY <2>1 DEF ReadyOwn
      <3>1. c \in Call
        BY <2>1, RunningFacts DEF Shape, Types
      <3>2. CASE AnswersTo(c) # {}
        BY <2>3, <3>1, <3>2
      <3>3. CASE AnswersTo(c) = {}
        <4>1. c \in isDataReady
          BY <2>1, <3>3
        <4> QED
          BY <2>4, <3>1, <3>3, <4>1 DEF Kept, ReadyOwn
      <3> QED
        BY <3>2, <3>3
    <2>6. ASSUME NEW c \in Call
          PROVE  /\ status'[c] = "SUCCESS" => result'[c] = <<round, c>>
                 /\ status'[c] = "FAIL" => Cause(c)
      <3>1. CASE AnswersTo(c) # {}
        BY <2>3, <3>1 DEF Cause
      <3>2. CASE AnswersTo(c) = {}
        BY <2>4, <3>2 DEF Kept, OwnResult, FailsWithCause, Cause
      <3> QED
        BY <3>1, <3>2
    <2> QED
      BY <2>1, <2>5, <2>6 DEF Kept, OwnResult, FailsWithCause, Cause
  <1>5. CASE Collect
    <2>1. PICK i \in DOMAIN evalMacCalls :
             /\ evalMacCalls[i] \in isDataReady
             /\ status' = [status EXCEPT ![evalMacCalls[i]] =
                              IF @ = "FAIL" THEN "FAIL" ELSE "SUCCESS"]
             /\ isDataReady' = isDataReady \ {evalMacCalls[i]}
      BY <1>5 DEF Collect
    <2>2. UNCHANGED <<round, result, pipeError, spc>>
      BY <1>5 DEF Collect
    <2>3. PICK d : d = evalMacCalls[i]
      OBVIOUS
    <2>4. d \in Call /\ result[d] = <<round, d>>
      BY <2>1, <2>3 DEF Kept, ReadyOwn, Shape, Types
    <2>5. \A c \in Call : status'[c] = IF c = d THEN IF status[c] = "FAIL" THEN "FAIL" ELSE "SUCCESS"
                                       ELSE status[c]
      BY <2>1, <2>3, <2>4 DEF Shape, Types
    <2> QED
      BY <2>1, <2>2, <2>4, <2>5 DEF Kept, ReadyOwn, OwnResult, FailsWithCause
  <1>6. CASE SerialResultIn
    <2>1. Placed
      BY <1>6 DEF SerialResultIn, Places, Working, Leaving, Shape, ServerShape
    <2>2. PICK c, msg : c = Head(evalMacCalls) /\ msg = Head(msgList)
      OBVIOUS
    <2>3. cpc = "More" /\ ~enableParallelMacro /\ evalMacCalls # <<>>
      BY <1>6 DEF SerialResultIn, Shape, ClientShape
    <2>4. /\ Len(msgList) = 1 /\ msg = msgList[1] /\ 1 \in DOMAIN msgList
          /\ Receives(c, msg)
      BY <2>1, <2>2, <2>3, OwnSerialAnswer
    <2>5. c \in Call
      BY <2>2, <2>3, SingleRunning
    <2>6. Head(msg.calls) = c /\ Truthful(msg)
      BY <2>1, <2>4, <2>5, GivenToOwn
    <2>7. /\ status' = [status EXCEPT ![c] = IF msg.ok THEN "SUCCESS" ELSE "FAIL"]
          /\ result' = [result EXCEPT ![c] = <<msg.round, Head(msg.calls)>>]
          /\ UNCHANGED <<round, isDataReady, pipeError, spc>>
      BY <1>6, <2>2, <2>4 DEF SerialResultIn
    <2>8. isDataReady = {}
      BY <2>3 DEF Shape, ClientShape
    <2>9. \A d \in Call :
             /\ status'[d] = IF d = c THEN IF msg.ok THEN "SUCCESS" ELSE "FAIL" ELSE status[d]
             /\ result'[d] = IF d = c THEN <<round, c>> ELSE result[d]
      BY <2>5, <2>6, <2>7 DEF Shape, Types, Truthful
    <2>10. ~msg.ok => c \in NotFound \cup Failing
      BY <2>6 DEF Truthful
    <2> QED
      BY <2>7, <2>8, <2>9, <2>10 DEF Kept, ReadyOwn, OwnResult, FailsWithCause
  <1>7. CASE EndEvaluation \/ ClientWrite \/ ClientRead \/ ReadMore \/ WaitExit
    <2>1. UNCHANGED <<round, status, isDataReady, result, pipeError>>
      BY <1>7 DEF EndEvaluation, ClientWrite, ClientRead, ReadMore, WaitExit
    <2>2. spc' = spc
      BY <1>7 DEF EndEvaluation, ClientWrite, ClientRead, ReadMore, WaitExit
    <2> QED
      BY <2>1, <2>2 DEF Kept, ReadyOwn, OwnResult, FailsWithCause
  <1>8. CASE Signal \/ Server \/ Coroutines \/ Crash \/ ParentGone \/ WaitProcessExit
    <2>1. UNCHANGED <<round, status, isDataReady, result>>
      BY <1>8 DEF Signal, Server, Coroutines, SrvRead, SrvNotFound, SrvStart, SrvWrite, SrvResult,
                CallDone, Crash, ParentGone, WaitProcessExit
    <2>2. \A c \in Call : Cause(c) => Cause(c)'
      <3>1. pipeError /\ spc = "Down" => pipeError' /\ spc' = "Down"
        BY <1>8 DEF Signal, Server, Coroutines, SrvRead, SrvNotFound, SrvStart, SrvWrite, SrvResult,
                CallDone, Crash, ParentGone, WaitProcessExit
      <3> QED
        BY <3>1 DEF Cause
    <2> QED
      BY <2>1, <2>2 DEF Kept, ReadyOwn, OwnResult, FailsWithCause, Cause
  <1>9. CASE UNCHANGED vars
    BY <1>9 DEF vars, Kept, ReadyOwn, OwnResult, FailsWithCause
  <1> QED
    BY <1>1, <1>2, <1>3, <1>4, <1>5, <1>6, <1>7, <1>8, <1>9 DEF Next, Client, WaitSpin, Rest

KeptInv == Shape /\ (KeysTell => Places /\ Kept)

LEMMA KeptInvInit == Init => KeptInv
  <1> SUFFICES ASSUME Init PROVE KeptInv
    OBVIOUS
  <1>1. Shape
    BY ShapeInit
  <1>2. Out = <<>> /\ In = <<>> /\ msgList = <<>> /\ macCalls = <<>>
    BY DEF Init, Out, In
  <1>3. Placed
    BY <1>2 DEF Placed, OnePlace, Tasks, TasksOnce, Answers, AnswersOnce, MsgsRead, Entries,
                Travels, AtServer, OnItsWay, WasRead
  <1>4. Kept
    BY DEF Init, Kept, ReadyOwn, OwnResult, FailsWithCause
  <1> QED
    BY <1>1, <1>3, <1>4 DEF KeptInv, Places

\* The loop is chosen once and for all.
LEMMA SameLoop ==
    ASSUME [Next]_vars
    PROVE  enableParallelMacro' = enableParallelMacro
  <1> USE DEF clientVars, linkVars, serverVars
  <1>1. CASE Begin \/ Client \/ Signal
    BY <1>1 DEF Client, Begin, StartCalls, EndEvaluation, ClientWrite, SendFails, ClientRead,
                ReadFails, ReadMore, ResultsIn, Collect, SerialResultIn, WaitExit, Signal
  <1>2. CASE Server \/ Coroutines \/ Crash \/ ParentGone \/ WaitProcessExit
    BY <1>2 DEF Server, Coroutines, SrvRead, SrvNotFound, SrvStart, SrvWrite, SrvResult,
                CallDone, Crash, ParentGone, WaitProcessExit
  <1>3. CASE UNCHANGED vars
    BY <1>3 DEF vars
  <1> QED
    BY <1>1, <1>2, <1>3 DEF Next, WaitSpin, Rest

LEMMA KeysTellKept ==
    ASSUME [Next]_vars, KeysTell'
    PROVE  KeysTell
  BY SameLoop DEF KeysTell

LEMMA KeptInvStep == KeptInv /\ [Next]_vars => KeptInv'
  <1> SUFFICES ASSUME KeptInv, [Next]_vars PROVE KeptInv'
    OBVIOUS
  <1>1. Shape'
    BY ShapeStep DEF KeptInv
  <1>2. ASSUME KeysTell' PROVE Places' /\ Kept'
    <2>1. Shape /\ KeysTell /\ Places /\ Kept
      BY <1>2, KeysTellKept DEF KeptInv
    <2> QED
      BY <2>1, PlacesStep, KeptStep
  <1> QED
    BY <1>1, <1>2 DEF KeptInv

LEMMA NothingStrays == KeptInv => (KeysTell => NoStrayResult)
  <1> SUFFICES ASSUME Shape, Placed, NEW msg \in InFlight
               PROVE  msg.round = round /\ Head(msg.calls) \in Running \ isDataReady
    BY DEF KeptInv, Places, Working, Leaving, NoStrayResult
  <1>1. PICK s \in ToSet(c2p) \cup ToSet(sOut) : s.msg = msg /\ IsResult(s.msg)
    BY DEF InFlight, IsResult
  <1>2. PICK k \in DOMAIN In : In[k] = s
    <2>0. c2p \in Seq(AnswerSlice) /\ sOut \in Seq(AnswerSlice)
      BY DEF Shape, Streams
    <2>1. PICK m, n : m = Len(c2p) /\ n = Len(sOut)
      OBVIOUS
    <2>2. /\ m \in Nat /\ n \in Nat /\ DOMAIN In = 1..(m + n)
          /\ DOMAIN c2p = 1..m /\ DOMAIN sOut = 1..n
          /\ \A k \in 1..(m + n) : In[k] = IF k <= m THEN c2p[k] ELSE sOut[k - m]
      BY <2>0, <2>1, Joined DEF In
    <2>3. CASE s \in ToSet(c2p)
      <3>1. PICK k \in 1..m : c2p[k] = s
        BY <2>2, <2>3 DEF ToSet
      <3>2. k \in 1..(m + n) /\ k <= m
        BY <2>2, <3>1
      <3> QED
        BY <2>2, <3>1, <3>2
    <2>4. CASE s \in ToSet(sOut)
      <3>1. PICK k \in 1..n : sOut[k] = s
        BY <2>2, <2>4 DEF ToSet
      <3>2. k + m \in 1..(m + n) /\ ~(k + m <= m) /\ (k + m) - m = k
        BY <2>2, <3>1
      <3> QED
        BY <2>2, <3>1, <3>2
    <2> QED
      BY <2>3, <2>4
  <1>3. Truthful(msg)
    BY <1>1, <1>2 DEF Placed, Answers
  <1>4. OnItsWay(Head(msg.calls))
    BY <1>1, <1>2 DEF OnItsWay, About
  <1> QED
    BY <1>3, <1>4 DEF Truthful, Placed, OnePlace

\* A call that succeeds holds the tokens that were computed for it in this
\* evaluation (OwnResult, Collect and SerialResultIn), when the keys that
\* IsResultForMacCall compares tell the calls apart or one call at a time is out.
THEOREM ResultsCorrect == Spec => [](KeysTell => OwnResult)
  <1>1. KeptInv => (KeysTell => OwnResult)
    BY DEF KeptInv, Kept
  <1> QED
    BY <1>1, KeptInvInit, KeptInvStep, PTL DEF Spec

\* While the pipes work every result on its way is awaited by a call of this
\* evaluation (NoStrayResult), under the same condition on the keys.
THEOREM NoStrayCorrect == Spec => [](KeysTell => NoStrayResult)
  BY NothingStrays, KeptInvInit, KeptInvStep, PTL DEF Spec

\* A call fails because it has no method, because its function failed or
\* because the server is gone (FailsWithCause), under the same condition.
THEOREM CausesCorrect == Spec => [](KeysTell => FailsWithCause)
  <1>1. KeptInv => (KeysTell => FailsWithCause)
    BY DEF KeptInv, Kept
  <1> QED
    BY <1>1, KeptInvInit, KeptInvStep, PTL DEF Spec

(***************************************************************************)
(* Third layer: the parallel loop never asks for more results than the     *)
(* server can have.  In every stretch of the stream from a place where the *)
(* server begins to count, which is now or after a message that makes it   *)
(* forget its calls, the questions are no more than the calls it has or is *)
(* told of there.                                                          *)
(***************************************************************************)
\* The calls named, and the questions asked, after place b and up to place k.
Told(q, b, k) == {c \in Call : \E j \in (b + 1)..k : q[j].last /\ Carries(q[j], c)}
Asks(q, b, k) == {j \in (b + 1)..k : q[j].last /\ q[j].msg.kind = "calls"}
FreshAt(q, b) == b = 0 \/ q[b].msg.kind = "stg"

\* The calls at the server that a question may still be answered with: one is taken
\* by the question it is working on.
Handling ==
    \/ spc \in {"Find", "Wait"}
    \/ spc = "Write" /\ \E i \in DOMAIN sOut : sOut[i].msg.kind = "notFound"
Hand == IF Handling THEN Len(macCalls) - 1 ELSE Len(macCalls)
AtHand(h, b) == IF b = 0 THEN h ELSE 0

\* The running calls whose question has not been asked.
Due == IF cpc \in {"SendCalls", "Read", "More", "Collect"} THEN Len(evalMacCalls) - 1
                                                           ELSE Len(evalMacCalls)

Enough(h, q) == \A b \in 0..Len(q) : \A k \in b..Len(q) : FreshAt(q, b) =>
    AtHand(h, b) + Cardinality(Told(q, b, k)) >= Cardinality(Asks(q, b, k))
Covered(h, q, n) == \A b \in 0..Len(q) : FreshAt(q, b) =>
    AtHand(h, b) + Cardinality(Told(q, b, Len(q))) >= n + Cardinality(Asks(q, b, Len(q)))
Short(q) == \A k \in DOMAIN q : q[k].msg.calls = <<>> => q[k].last

Supplied == Short(Out) /\ Enough(Hand, Out) /\ Covered(Hand, Out, Due)
Fed == (Working /\ spc # "Down" /\ enableParallelMacro) => Supplied

\* The members of a list.
LEMMA ListSize ==
    ASSUME NEW S, NEW s \in Seq(S)
    PROVE  /\ IsFiniteSet(ToSet(s)) /\ Cardinality(ToSet(s)) \in Nat
           /\ Cardinality(ToSet(s)) <= Len(s)
           /\ (\A i, j \in DOMAIN s : s[i] = s[j] => i = j) => Cardinality(ToSet(s)) = Len(s)
  <1>1. PICK n : n = Len(s)
    OBVIOUS
  <1>2. n \in Nat /\ DOMAIN s = 1..n
    BY <1>1
  <1>3. IsFiniteSet(1..n) /\ Cardinality(1..n) = n
    BY <1>2, FS_Interval
  <1>4. s \in Surjection(1..n, ToSet(s))
    <2>1. s \in [1..n -> ToSet(s)]
      BY <1>1, <1>2 DEF ToSet
    <2>2. \A c \in ToSet(s) : \E i \in 1..n : s[i] = c
      BY <1>2 DEF ToSet
    <2> QED
      BY <2>1, <2>2 DEF Surjection
  <1>5. /\ IsFiniteSet(ToSet(s)) /\ Cardinality(ToSet(s)) <= Cardinality(1..n)
        /\ Cardinality(ToSet(s)) = Cardinality(1..n) <=> s \in Injection(1..n, ToSet(s))
    BY <1>3, <1>4, FS_Surjection
  <1>6. ASSUME \A i, j \in DOMAIN s : s[i] = s[j] => i = j
        PROVE  s \in Injection(1..n, ToSet(s))
    <2>1. s \in [1..n -> ToSet(s)]
      BY <1>4 DEF Surjection
    <2> QED
      BY <1>2, <1>6, <2>1, Fun_IsInj
  <1>7. Cardinality(ToSet(s)) \in Nat
    BY <1>5, FS_CardinalityType
  <1> QED
    BY <1>1, <1>3, <1>5, <1>6, <1>7

LEMMA ShiftedSize ==
    ASSUME NEW T \in SUBSET Int, IsFiniteSet(T), NEW V, V = {t - 1 : t \in T}
    PROVE  Cardinality(V) = Cardinality(T)
  <1> DEFINE f == [t \in T |-> t - 1]
  <1>1. f \in [T -> V]
    OBVIOUS
  <1>2. \A t, u \in T : f[t] = f[u] => t = u
    OBVIOUS
  <1>3. \A v \in V : \E t \in T : f[t] = v
    OBVIOUS
  <1> HIDE DEF f
  <1>4. f \in Bijection(T, V)
    <2>1. f \in Injection(T, V)
      BY <1>1, <1>2, Fun_IsInj
    <2>2. f \in Surjection(T, V)
      BY <1>1, <1>3 DEF Surjection
    <2> QED
      BY <2>1, <2>2 DEF Bijection
  <1>5. ExistsBijection(T, V)
    BY <1>4 DEF ExistsBijection
  <1> QED
    BY <1>5, FS_Bijection

LEMMA StretchFinite ==
    ASSUME NEW q, NEW b \in Nat, NEW k \in Nat
    PROVE  /\ IsFiniteSet(Told(q, b, k)) /\ Cardinality(Told(q, b, k)) \in Nat
           /\ IsFiniteSet(Asks(q, b, k)) /\ Cardinality(Asks(q, b, k)) \in Nat
           /\ Asks(q, b, k) \in SUBSET Int
  <1>1. IsFiniteSet(Call) /\ IsFiniteSet((b + 1)..k)
    BY ConstantsAssumption, FS_Interval DEF Call, ConstantsAssumption
  <1>2. Told(q, b, k) \in SUBSET Call /\ Asks(q, b, k) \in SUBSET ((b + 1)..k)
    BY DEF Told, Asks
  <1>3. IsFiniteSet(Told(q, b, k)) /\ IsFiniteSet(Asks(q, b, k))
    BY <1>1, <1>2, FS_Subset
  <1> QED
    BY <1>2, <1>3, FS_CardinalityType

LEMMA StretchGrown ==
    ASSUME NEW q, NEW r, NEW m, Extends(r, q, m), NEW b \in 0..Len(q), NEW k \in b..Len(q)
    PROVE  /\ Told(r, b, k) = Told(q, b, k) /\ Asks(r, b, k) = Asks(q, b, k)
           /\ FreshAt(r, b) <=> FreshAt(q, b)
  <1>1. Len(q) \in Nat /\ DOMAIN q = 1..Len(q) /\ \A j \in DOMAIN q : r[j] = q[j]
    BY DEF Extends
  <1>2. \A j \in (b + 1)..k : r[j] = q[j]
    BY <1>1
  <1>3. b # 0 => r[b] = q[b]
    BY <1>1
  <1> QED
    BY <1>2, <1>3 DEF Told, Asks, FreshAt

LEMMA Between ==
    ASSUME NEW a \in Nat, NEW z \in Nat, NEW k \in a..z, NEW j \in (a + 1)..k
    PROVE  j \in 1..z /\ j \notin 1..a /\ (k # z => j # z)
  OBVIOUS

LEMMA StretchEnd ==
    ASSUME NEW q, NEW r, NEW m, Extends(r, q, m), NEW b \in 0..Len(q), NEW k \in Len(q)..Len(r)
    PROVE  /\ k # Len(r) \/ m.kind # "calls" =>
                 Told(r, b, k) = Told(q, b, Len(q)) /\ Asks(r, b, k) = Asks(q, b, Len(q))
           /\ k = Len(r) /\ m.kind = "calls" =>
                 /\ Told(r, b, k) = Told(q, b, Len(q)) \cup (Call \cap ToSet(m.calls))
                 /\ Asks(r, b, k) = Asks(q, b, Len(q)) \cup {Len(r)}
                 /\ Len(r) \notin Asks(q, b, Len(q))
  <1>1. /\ Len(q) \in Nat /\ DOMAIN q = 1..Len(q) /\ \A j \in DOMAIN q : r[j] = q[j]
        /\ Len(r) \in Nat /\ DOMAIN r = 1..Len(r) /\ Len(r) > Len(q)
        /\ \A j \in DOMAIN r : j \notin DOMAIN q => r[j].msg = m /\ (r[j].last <=> j = Len(r))
    BY DEF Extends
  <1>2. \A j \in (b + 1)..Len(q) : r[j] = q[j]
    BY <1>1
  <1>0. ASSUME NEW j \in (Len(q) + 1)..k
        PROVE  j \in DOMAIN r /\ j \notin DOMAIN q /\ (k # Len(r) => j # Len(r))
    <2>1. PICK a, z : a = Len(q) /\ z = Len(r)
      OBVIOUS
    <2>2. a \in Nat /\ z \in Nat /\ k \in a..z
      BY <1>1, <2>1
    <2>3. j \in (a + 1)..k
      BY <2>1
    <2>4. j \in 1..z /\ j \notin 1..a /\ (k # z => j # z)
      BY <2>2, <2>3, Between
    <2>5. DOMAIN r = 1..z /\ DOMAIN q = 1..a
      BY <1>1, <2>1
    <2> QED
      BY <2>1, <2>4, <2>5
  <1>3. ASSUME NEW j \in (Len(q) + 1)..k PROVE r[j].msg = m /\ (r[j].last <=> j = Len(r))
    <2>1. j \in DOMAIN r /\ j \notin DOMAIN q
      BY <1>0
    <2> QED
      BY <1>1, <2>1
  <1>4. \A j : j \in (b + 1)..k <=> j \in (b + 1)..Len(q) \/ j \in (Len(q) + 1)..k
    BY <1>1
  <1>5. ASSUME k # Len(r) \/ m.kind # "calls"
        PROVE  \A j \in (Len(q) + 1)..k : ~(r[j].last /\ r[j].msg.kind = "calls")
    BY <1>0, <1>3, <1>5
  <1>6. ASSUME k # Len(r) \/ m.kind # "calls"
        PROVE  Told(r, b, k) = Told(q, b, Len(q)) /\ Asks(r, b, k) = Asks(q, b, Len(q))
    BY <1>2, <1>4, <1>5, <1>6 DEF Told, Asks, Carries
  <1>7. ASSUME k = Len(r), m.kind = "calls"
        PROVE  /\ Told(r, b, k) = Told(q, b, Len(q)) \cup (Call \cap ToSet(m.calls))
               /\ Asks(r, b, k) = Asks(q, b, Len(q)) \cup {Len(r)}
               /\ Len(r) \notin Asks(q, b, Len(q))
    <2>1. k \in (Len(q) + 1)..k /\ k \notin (b + 1)..Len(q)
      BY <1>1, <1>7
    <2>2. r[k].last /\ r[k].msg = m /\ \A j \in (Len(q) + 1)..k : r[j].last => j = k
      BY <1>3, <1>7, <2>1
    <2>3. Asks(r, b, k) = Asks(q, b, Len(q)) \cup {k}
      BY <1>2, <1>4, <1>7, <2>1, <2>2 DEF Asks
    <2>4. Told(r, b, k) = Told(q, b, Len(q)) \cup (Call \cap ToSet(m.calls))
      BY <1>2, <1>4, <1>7, <2>1, <2>2 DEF Told, Carries
    <2> QED
      BY <1>7, <2>1, <2>3, <2>4 DEF Asks
  <1> QED
    BY <1>6, <1>7

\* A place in the new message where the server begins to count: nothing follows it.
LEMMA StretchInside ==
    ASSUME NEW q, NEW r, NEW m, Extends(r, q, m), NEW b \in 0..Len(r), b \notin 0..Len(q),
           FreshAt(r, b), NEW k \in b..Len(r)
    PROVE  m.kind = "stg" /\ b # 0 /\ Told(r, b, k) = {} /\ Asks(r, b, k) = {}
  <1>1. /\ Len(q) \in Nat /\ DOMAIN q = 1..Len(q) /\ Len(r) \in Nat /\ DOMAIN r = 1..Len(r)
        /\ \A j \in DOMAIN r : j \notin DOMAIN q => r[j].msg = m
    BY DEF Extends
  <1>2. b \in DOMAIN r /\ b \notin DOMAIN q /\ b # 0
    BY <1>1
  <1>3. m.kind = "stg"
    BY <1>1, <1>2 DEF FreshAt
  <1>4. \A j \in (b + 1)..k : j \in DOMAIN r /\ j \notin DOMAIN q
    BY <1>1, <1>2
  <1>5. \A j \in (b + 1)..k : r[j].msg.kind # "calls"
    BY <1>1, <1>3, <1>4
  <1> QED
    BY <1>2, <1>3, <1>5 DEF Told, Asks, Carries

LEMMA StretchDropped ==
    ASSUME NEW q, NEW r, Drops(r, q), NEW b \in 0..Len(r), NEW k \in b..Len(r)
    PROVE  /\ b + 1 \in 0..Len(q) /\ k + 1 \in (b + 1)..Len(q) /\ k + 1 \in 0..Len(q)
           /\ Told(r, b, k) = Told(q, b + 1, k + 1)
           /\ Cardinality(Asks(r, b, k)) = Cardinality(Asks(q, b + 1, k + 1))
           /\ b # 0 /\ FreshAt(r, b) => FreshAt(q, b + 1)
           /\ k = Len(r) => k + 1 = Len(q)
  <1>1. /\ Len(q) \in Nat /\ Len(r) \in Nat /\ Len(r) = Len(q) - 1 /\ DOMAIN r = 1..Len(r)
        /\ \A j \in DOMAIN r : r[j] = q[j + 1]
    BY DEF Drops
  <1>2. \A j \in (b + 1)..k : r[j] = q[j + 1] /\ j + 1 \in (b + 1 + 1)..(k + 1)
    BY <1>1
  <1>3. \A i \in (b + 1 + 1)..(k + 1) : i - 1 \in (b + 1)..k /\ (i - 1) + 1 = i
    BY <1>1
  <1>4. Told(r, b, k) = Told(q, b + 1, k + 1)
    <2>1. ASSUME NEW c \in Told(r, b, k) PROVE c \in Told(q, b + 1, k + 1)
      <3>1. PICK j \in (b + 1)..k : r[j].last /\ Carries(r[j], c)
        BY <2>1 DEF Told
      <3> QED
        BY <1>2, <2>1, <3>1 DEF Told
    <2>2. ASSUME NEW c \in Told(q, b + 1, k + 1) PROVE c \in Told(r, b, k)
      <3>1. PICK i \in (b + 1 + 1)..(k + 1) : q[i].last /\ Carries(q[i], c)
        BY <2>2 DEF Told
      <3>2. r[i - 1] = q[i] /\ i - 1 \in (b + 1)..k
        BY <1>2, <1>3
      <3>3. r[i - 1].last /\ Carries(r[i - 1], c)
        BY <3>1, <3>2
      <3> QED
        BY <2>2, <3>2, <3>3 DEF Told
    <2> QED
      BY <2>1, <2>2
  <1>5. Asks(r, b, k) = {i - 1 : i \in Asks(q, b + 1, k + 1)}
    <2>1. ASSUME NEW j \in Asks(r, b, k)
          PROVE  j \in {i - 1 : i \in Asks(q, b + 1, k + 1)}
      <3>1. j \in (b + 1)..k /\ r[j].last /\ r[j].msg.kind = "calls"
        BY DEF Asks
      <3>2. j + 1 \in Asks(q, b + 1, k + 1) /\ (j + 1) - 1 = j
        BY <1>2, <3>1 DEF Asks
      <3> QED
        BY <3>2
    <2>2. ASSUME NEW i \in Asks(q, b + 1, k + 1) PROVE i - 1 \in Asks(r, b, k)
      <3>1. i \in (b + 1 + 1)..(k + 1) /\ q[i].last /\ q[i].msg.kind = "calls"
        BY DEF Asks
      <3> QED
        BY <1>2, <1>3, <3>1 DEF Asks
    <2> QED
      BY <2>1, <2>2
  <1>6. Cardinality(Asks(r, b, k)) = Cardinality(Asks(q, b + 1, k + 1))
    <2>1. IsFiniteSet(Asks(q, b + 1, k + 1)) /\ Asks(q, b + 1, k + 1) \in SUBSET Int
      <3>1. PICK d, e : d = b + 1 /\ e = k + 1
        OBVIOUS
      <3>2. d \in Nat /\ e \in Nat
        BY <1>1, <3>1
      <3>3. IsFiniteSet(Asks(q, d, e)) /\ Asks(q, d, e) \in SUBSET Int
        BY <3>2, StretchFinite
      <3> QED
        BY <3>1, <3>3
    <2> QED
      BY <1>5, <2>1, ShiftedSize
  <1>7. b # 0 /\ FreshAt(r, b) => FreshAt(q, b + 1)
    BY <1>1 DEF FreshAt
  <1> QED
    BY <1>1, <1>4, <1>6, <1>7

LEMMA StretchFirst ==
    ASSUME NEW q, NEW k \in Nat \ {0}
    PROVE  /\ ~(q[1].last /\ q[1].msg.kind = "calls") =>
                 Told(q, 0, k) = Told(q, 1, k) /\ Asks(q, 0, k) = Asks(q, 1, k)
           /\ q[1].last /\ q[1].msg.kind = "calls" =>
                 /\ Told(q, 0, k) \subseteq Told(q, 1, k) \cup ToSet(q[1].msg.calls)
                 /\ Asks(q, 0, k) = Asks(q, 1, k) \cup {1} /\ 1 \notin Asks(q, 1, k)
  <1>1. \A j : j \in (0 + 1)..k <=> j = 1 \/ j \in (1 + 1)..k
    OBVIOUS
  <1>2. 1 \notin (1 + 1)..k
    OBVIOUS
  <1> QED
    BY <1>1, <1>2 DEF Told, Asks, Carries

LEMMA MoreAtHand ==
    ASSUME NEW q, Len(q) \in Nat, NEW g \in Int, NEW h \in Int, NEW m \in Int, NEW n \in Int,
           g >= h, m <= n, Enough(h, q), Covered(h, q, n)
    PROVE  Enough(g, q) /\ Covered(g, q, m)
  <1>1. ASSUME NEW b \in 0..Len(q), NEW k \in b..Len(q)
        PROVE  /\ Cardinality(Told(q, b, k)) \in Nat /\ Cardinality(Asks(q, b, k)) \in Nat
               /\ AtHand(h, b) \in Int /\ AtHand(g, b) \in Int /\ AtHand(g, b) >= AtHand(h, b)
    <2>1. b \in Nat /\ k \in Nat
      OBVIOUS
    <2>2. Cardinality(Told(q, b, k)) \in Nat /\ Cardinality(Asks(q, b, k)) \in Nat
      BY <2>1, StretchFinite
    <2>3. AtHand(h, b) \in Int /\ AtHand(g, b) \in Int /\ AtHand(g, b) >= AtHand(h, b)
      BY DEF AtHand
    <2> QED
      BY <2>2, <2>3
  <1>2. ASSUME NEW b \in 0..Len(q), NEW k \in b..Len(q), FreshAt(q, b)
        PROVE  AtHand(g, b) + Cardinality(Told(q, b, k)) >= Cardinality(Asks(q, b, k))
    <2>1. AtHand(h, b) + Cardinality(Told(q, b, k)) >= Cardinality(Asks(q, b, k))
      BY <1>2 DEF Enough
    <2>2. PICK a, c, t, s : /\ a = AtHand(h, b) /\ c = AtHand(g, b)
                            /\ t = Cardinality(Told(q, b, k)) /\ s = Cardinality(Asks(q, b, k))
      OBVIOUS
    <2>3. t \in Nat /\ s \in Nat /\ a \in Int /\ c \in Int /\ c >= a /\ a + t >= s
      BY <1>1, <2>1, <2>2
    <2>4. c + t >= s
      BY <2>3
    <2> QED
      BY <2>2, <2>4
  <1>3. ASSUME NEW b \in 0..Len(q), FreshAt(q, b)
        PROVE  AtHand(g, b) + Cardinality(Told(q, b, Len(q)))
                   >= m + Cardinality(Asks(q, b, Len(q)))
    <2>1. AtHand(h, b) + Cardinality(Told(q, b, Len(q)))
              >= n + Cardinality(Asks(q, b, Len(q)))
      BY <1>3 DEF Covered
    <2>2. Len(q) \in b..Len(q)
      OBVIOUS
    <2>3. PICK a, c, t, s : /\ a = AtHand(h, b) /\ c = AtHand(g, b)
                            /\ t = Cardinality(Told(q, b, Len(q)))
                            /\ s = Cardinality(Asks(q, b, Len(q)))
      OBVIOUS
    <2>4. t \in Nat /\ s \in Nat /\ a \in Int /\ c \in Int /\ c >= a /\ a + t >= n + s
      BY <1>1, <2>1, <2>2, <2>3
    <2>5. c + t >= m + s
      BY <2>4
    <2> QED
      BY <2>3, <2>5
  <1> QED
    BY <1>2, <1>3 DEF Enough, Covered

\* A message that asks nothing, while no call runs.
LEMMA GrowsUnasked ==
    ASSUME NEW q, NEW r, NEW m, Extends(r, q, m), m.kind # "calls", NEW h \in Int,
           Enough(h, q), Covered(h, q, 0)
    PROVE  Enough(h, r) /\ Covered(h, r, 0)
  <1>1. Len(q) \in Nat /\ Len(r) \in Nat /\ Len(r) > Len(q)
    BY DEF Extends
  <1>2. ASSUME NEW b \in 0..Len(r), NEW k \in b..Len(r), FreshAt(r, b)
        PROVE  AtHand(h, b) + Cardinality(Told(r, b, k)) >= Cardinality(Asks(r, b, k))
    <2>1. CASE b \in 0..Len(q) /\ k \in b..Len(q)
      <3>1. Told(r, b, k) = Told(q, b, k) /\ Asks(r, b, k) = Asks(q, b, k) /\ FreshAt(q, b)
        BY <1>2, <2>1, StretchGrown
      <3> QED
        BY <2>1, <3>1 DEF Enough
    <2>2. CASE b \in 0..Len(q) /\ k \notin b..Len(q)
      <3>1. k \in Len(q)..Len(r) /\ Len(q) \in b..Len(q)
        BY <1>1, <2>2
      <3>2. Told(r, b, k) = Told(q, b, Len(q)) /\ Asks(r, b, k) = Asks(q, b, Len(q))
        BY <2>2, <3>1, StretchEnd
      <3>3. FreshAt(q, b)
        BY <1>2, <2>2, <3>1, StretchGrown
      <3> QED
        BY <2>2, <3>1, <3>2, <3>3 DEF Enough
    <2>3. CASE b \notin 0..Len(q)
      <3>1. b # 0 /\ Told(r, b, k) = {} /\ Asks(r, b, k) = {}
        BY <1>2, <2>3, StretchInside
      <3> QED
        BY <3>1, FS_EmptySet DEF AtHand
    <2> QED
      BY <2>1, <2>2, <2>3
  <1>3. Enough(h, r)
    BY <1>2 DEF Enough
  <1>4. ASSUME NEW b \in 0..Len(r), FreshAt(r, b)
        PROVE  AtHand(h, b) + Cardinality(Told(r, b, Len(r)))
                   >= 0 + Cardinality(Asks(r, b, Len(r)))
    <2>1. Len(r) \in b..Len(r) /\ b \in Nat
      BY <1>1
    <2>2. Cardinality(Asks(r, b, Len(r))) \in Nat
      BY <1>1, <2>1, StretchFinite
    <2> QED
      BY <1>2, <1>4, <2>1, <2>2
  <1> QED
    BY <1>3, <1>4 DEF Covered

\* A question, with the calls it is about.
LEMMA GrowsAsked ==
    ASSUME NEW q, NEW r, NEW m, Extends(r, q, m), m.kind = "calls", m.calls \in Seq(Call),
           NEW h \in Int, NEW n \in Int, Enough(h, q), Covered(h, q, n),
           \A i, j \in DOMAIN m.calls : m.calls[i] = m.calls[j] => i = j,
           \A j \in DOMAIN q : \A c \in ToSet(m.calls) : ~Carries(q[j], c),
           n + Len(m.calls) >= 1
    PROVE  Enough(h, r) /\ Covered(h, r, n + Len(m.calls) - 1)
  <1>1. /\ Len(q) \in Nat /\ Len(r) \in Nat /\ Len(r) > Len(q) /\ DOMAIN q = 1..Len(q)
        /\ Len(m.calls) \in Nat
    BY DEF Extends
  <1>2. ASSUME NEW b \in 0..Len(r), FreshAt(r, b) PROVE b \in 0..Len(q) /\ FreshAt(q, b)
    <2>1. b \in 0..Len(q)
      <3> SUFFICES ASSUME b \notin 0..Len(q) PROVE FALSE
        OBVIOUS
      <3>1. b \in b..Len(r)
        BY <1>1
      <3> QED
        BY <1>2, <3>1, StretchInside
    <2>2. b \in b..Len(q)
      BY <1>1, <2>1
    <2> QED
      BY <1>2, <2>1, <2>2, StretchGrown
  <1>3. ASSUME NEW b \in 0..Len(q)
        PROVE  /\ Cardinality(Told(r, b, Len(r)))
                      = Cardinality(Told(q, b, Len(q))) + Len(m.calls)
               /\ Cardinality(Asks(r, b, Len(r))) = Cardinality(Asks(q, b, Len(q))) + 1
               /\ Cardinality(Told(q, b, Len(q))) \in Nat
               /\ Cardinality(Asks(q, b, Len(q))) \in Nat
    <2>0. Len(r) \in Len(q)..Len(r) /\ b \in Nat
      BY <1>1
    <2>1. /\ Told(r, b, Len(r)) = Told(q, b, Len(q)) \cup (Call \cap ToSet(m.calls))
          /\ Asks(r, b, Len(r)) = Asks(q, b, Len(q)) \cup {Len(r)}
          /\ Len(r) \notin Asks(q, b, Len(q))
      BY <2>0, StretchEnd
    <2>2. Call \cap ToSet(m.calls) = ToSet(m.calls)
      BY DEF ToSet
    <2>3. Told(q, b, Len(q)) \cap ToSet(m.calls) = {}
      <3> SUFFICES ASSUME NEW c \in Told(q, b, Len(q)), c \in ToSet(m.calls) PROVE FALSE
        OBVIOUS
      <3>1. PICK j \in (b + 1)..Len(q) : Carries(q[j], c)
        BY DEF Told
      <3>2. j \in DOMAIN q
        BY <1>1, <2>0, <3>1
      <3> QED
        BY <3>1, <3>2
    <2>4. /\ IsFiniteSet(ToSet(m.calls)) /\ Cardinality(ToSet(m.calls)) = Len(m.calls)
      BY ListSize
    <2>5. /\ IsFiniteSet(Told(q, b, Len(q))) /\ Cardinality(Told(q, b, Len(q))) \in Nat
          /\ IsFiniteSet(Asks(q, b, Len(q))) /\ Cardinality(Asks(q, b, Len(q))) \in Nat
      BY <1>1, <2>0, StretchFinite
    <2>6. Cardinality(Told(q, b, Len(q)) \cup ToSet(m.calls))
              = Cardinality(Told(q, b, Len(q))) + Len(m.calls)
      <3>1. Cardinality(Told(q, b, Len(q)) \cup ToSet(m.calls))
                = Cardinality(Told(q, b, Len(q))) + Cardinality(ToSet(m.calls)) - Cardinality({})
        BY <2>3, <2>4, <2>5, FS_Union
      <3> QED
        BY <1>1, <2>4, <2>5, <3>1, FS_EmptySet
    <2>7. Cardinality(Asks(q, b, Len(q)) \cup {Len(r)}) = Cardinality(Asks(q, b, Len(q))) + 1
      BY <2>1, <2>5, FS_AddElement
    <2> QED
      BY <2>1, <2>2, <2>5, <2>6, <2>7
  <1>4. ASSUME NEW b \in 0..Len(r), FreshAt(r, b)
        PROVE  AtHand(h, b) + Cardinality(Told(q, b, Len(q)))
                   >= n + Cardinality(Asks(q, b, Len(q))) /\ AtHand(h, b) \in Int
    BY <1>2, <1>4 DEF Covered, AtHand
  <1>5. ASSUME NEW b \in 0..Len(r), NEW k \in b..Len(r), FreshAt(r, b)
        PROVE  AtHand(h, b) + Cardinality(Told(r, b, k)) >= Cardinality(Asks(r, b, k))
    <2>0. b \in 0..Len(q) /\ FreshAt(q, b)
      BY <1>2, <1>5
    <2>1. CASE k \in b..Len(q)
      <3>1. Told(r, b, k) = Told(q, b, k) /\ Asks(r, b, k) = Asks(q, b, k)
        BY <2>0, <2>1, StretchGrown
      <3> QED
        BY <2>0, <2>1, <3>1 DEF Enough
    <2>2. CASE k \notin b..Len(q) /\ k # Len(r)
      <3>1. k \in Len(q)..Len(r) /\ Len(q) \in b..Len(q)
        BY <1>1, <2>0, <2>2
      <3>2. Told(r, b, k) = Told(q, b, Len(q)) /\ Asks(r, b, k) = Asks(q, b, Len(q))
        BY <2>0, <2>2, <3>1, StretchEnd
      <3> QED
        BY <2>0, <3>1, <3>2 DEF Enough
    <2>3. CASE k = Len(r)
      <3>1. PICK a, d, t, s : /\ a = AtHand(h, b) /\ d = Len(m.calls)
                              /\ t = Cardinality(Told(q, b, Len(q)))
                              /\ s = Cardinality(Asks(q, b, Len(q)))
        OBVIOUS
      <3>2. a + t >= n + s /\ a \in Int /\ t \in Nat /\ s \in Nat /\ d \in Nat /\ n + d >= 1
        BY <1>1, <1>3, <1>4, <1>5, <2>0, <3>1
      <3>3. a + (t + d) >= s + 1
        BY <3>2
      <3> QED
        BY <1>3, <2>0, <2>3, <3>1, <3>3
    <2> QED
      BY <2>1, <2>2, <2>3
  <1>6. ASSUME NEW b \in 0..Len(r), FreshAt(r, b)
        PROVE  AtHand(h, b) + Cardinality(Told(r, b, Len(r)))
                   >= (n + Len(m.calls) - 1) + Cardinality(Asks(r, b, Len(r)))
    <2>1. PICK a, d, t, s : /\ a = AtHand(h, b) /\ d = Len(m.calls)
                            /\ t = Cardinality(Told(q, b, Len(q)))
                            /\ s = Cardinality(Asks(q, b, Len(q)))
      OBVIOUS
    <2>2. a + t >= n + s /\ a \in Int /\ t \in Nat /\ s \in Nat /\ d \in Nat
      BY <1>1, <1>2, <1>3, <1>4, <1>6, <2>1
    <2>3. a + (t + d) >= (n + d - 1) + (s + 1)
      BY <2>2
    <2> QED
      BY <1>2, <1>3, <1>6, <2>1, <2>3
  <1> QED
    BY <1>5, <1>6 DEF Enough, Covered

\* The server takes a slice that is no end of a question: it counts on, or begins to count.
LEMMA DropsUnasked ==
    ASSUME NEW q, NEW r, Drops(r, q), ~(q[1].last /\ q[1].msg.kind = "calls"),
           NEW h \in Int, NEW g \in Int, g = h \/ (g = 0 /\ FreshAt(q, 1)),
           NEW n \in Int, Enough(h, q), Covered(h, q, n)
    PROVE  Enough(g, r) /\ Covered(g, r, n)
  <1>1. Len(q) \in Nat /\ Len(r) \in Nat
    BY DEF Drops
  <1>2. ASSUME NEW b \in 0..Len(r), FreshAt(r, b)
        PROVE  \E e \in 0..Len(q) :
                 /\ FreshAt(q, e) /\ AtHand(g, b) = AtHand(h, e) /\ e <= b + 1
                 /\ \A k \in b..Len(r) :
                      /\ k + 1 \in e..Len(q) /\ (k = Len(r) => k + 1 = Len(q))
                      /\ Told(r, b, k) = Told(q, e, k + 1)
                      /\ Cardinality(Asks(r, b, k)) = Cardinality(Asks(q, e, k + 1))
    <2>1. ASSUME NEW k \in b..Len(r)
          PROVE  /\ b + 1 \in 0..Len(q) /\ k + 1 \in (b + 1)..Len(q) /\ k + 1 \in 0..Len(q)
                 /\ Told(r, b, k) = Told(q, b + 1, k + 1)
                 /\ Cardinality(Asks(r, b, k)) = Cardinality(Asks(q, b + 1, k + 1))
                 /\ b # 0 => FreshAt(q, b + 1)
                 /\ k = Len(r) => k + 1 = Len(q)
                 /\ k + 1 \in Nat \ {0}
      <3>1. k + 1 \in Nat \ {0}
        BY <1>1
      <3>2. /\ b + 1 \in 0..Len(q) /\ k + 1 \in (b + 1)..Len(q) /\ k + 1 \in 0..Len(q)
            /\ Told(r, b, k) = Told(q, b + 1, k + 1)
            /\ Cardinality(Asks(r, b, k)) = Cardinality(Asks(q, b + 1, k + 1))
            /\ b # 0 /\ FreshAt(r, b) => FreshAt(q, b + 1)
            /\ k = Len(r) => k + 1 = Len(q)
        BY StretchDropped
      <3> QED
        BY <1>2, <3>1, <3>2
    <2>2. b \in b..Len(r)
      BY <1>1
    <2>3. CASE b # 0
      <3>1. b + 1 \in 0..Len(q) /\ FreshAt(q, b + 1) /\ AtHand(g, b) = AtHand(h, b + 1) /\ b + 1 <= b + 1
        BY <2>1, <2>2, <2>3 DEF AtHand
      <3> QED
        BY <2>1, <3>1
    <2>4. CASE b = 0 /\ g = h
      <3>1. FreshAt(q, 0) /\ AtHand(g, b) = AtHand(h, 0) /\ 0 \in 0..Len(q) /\ 0 <= b + 1
        BY <1>1, <2>4 DEF FreshAt, AtHand
      <3>2. \A k \in b..Len(r) : /\ k + 1 \in 0..Len(q) /\ (k = Len(r) => k + 1 = Len(q))
                                 /\ Told(r, b, k) = Told(q, 0, k + 1)
                                 /\ Cardinality(Asks(r, b, k)) = Cardinality(Asks(q, 0, k + 1))
        <4> SUFFICES ASSUME NEW k \in b..Len(r)
                     PROVE  /\ k + 1 \in 0..Len(q) /\ (k = Len(r) => k + 1 = Len(q))
                            /\ Told(r, b, k) = Told(q, 0, k + 1)
                            /\ Cardinality(Asks(r, b, k)) = Cardinality(Asks(q, 0, k + 1))
          OBVIOUS
        <4>1. PICK l : l = k + 1
          OBVIOUS
        <4>2. l \in Nat \ {0} /\ l \in 0..Len(q)
          BY <2>1, <4>1
        <4>3. Told(q, 0, l) = Told(q, 1, l) /\ Asks(q, 0, l) = Asks(q, 1, l)
          BY <4>2, StretchFirst
        <4>4. /\ Told(r, b, k) = Told(q, 1, l)
              /\ Cardinality(Asks(r, b, k)) = Cardinality(Asks(q, 1, l))
          BY <2>1, <2>4, <4>1
        <4> QED
          BY <2>1, <4>1, <4>2, <4>3, <4>4
      <3> QED
        BY <3>1, <3>2
    <2>5. CASE b = 0 /\ g = 0 /\ FreshAt(q, 1)
      <3>1. /\ 1 \in 0..Len(q) /\ AtHand(g, b) = AtHand(h, 1) /\ 1 <= b + 1 /\ b + 1 = 1
        BY <2>1, <2>2, <2>5 DEF AtHand
      <3> QED
        BY <2>1, <2>5, <3>1
    <2> QED
      BY <2>3, <2>4, <2>5
  <1>3. ASSUME NEW b \in 0..Len(r), NEW k \in b..Len(r), FreshAt(r, b)
        PROVE  AtHand(g, b) + Cardinality(Told(r, b, k)) >= Cardinality(Asks(r, b, k))
    <2>1. PICK e \in 0..Len(q) :
                 /\ FreshAt(q, e) /\ AtHand(g, b) = AtHand(h, e)
                 /\ k + 1 \in e..Len(q)
                 /\ Told(r, b, k) = Told(q, e, k + 1)
                 /\ Cardinality(Asks(r, b, k)) = Cardinality(Asks(q, e, k + 1))
      BY <1>2, <1>3
    <2> QED
      BY <2>1 DEF Enough
  <1>4. ASSUME NEW b \in 0..Len(r), FreshAt(r, b)
        PROVE  AtHand(g, b) + Cardinality(Told(r, b, Len(r)))
                   >= n + Cardinality(Asks(r, b, Len(r)))
    <2>0. Len(r) \in b..Len(r)
      BY <1>1
    <2>1. PICK e \in 0..Len(q) :
                 /\ FreshAt(q, e) /\ AtHand(g, b) = AtHand(h, e)
                 /\ Told(r, b, Len(r)) = Told(q, e, Len(q))
                 /\ Cardinality(Asks(r, b, Len(r))) = Cardinality(Asks(q, e, Len(q)))
      BY <1>2, <1>4, <2>0
    <2> QED
      BY <2>1 DEF Covered
  <1> QED
    BY <1>3, <1>4 DEF Enough, Covered

\* The server takes the end of a question, which takes one of the calls it then has.
LEMMA DropsAsked ==
    ASSUME NEW q, NEW r, Drops(r, q), q[1].last, q[1].msg.kind = "calls",
           q[1].msg.calls \in Seq(Call),
           NEW h \in Int, NEW n \in Int, Enough(h, q), Covered(h, q, n)
    PROVE  /\ Enough(h + Len(q[1].msg.calls) - 1, r)
           /\ Covered(h + Len(q[1].msg.calls) - 1, r, n)
           /\ h + Len(q[1].msg.calls) >= 1
  <1>0. PICK d, g : d = Len(q[1].msg.calls) /\ g = h + Len(q[1].msg.calls) - 1
    OBVIOUS
  <1>1. Len(q) \in Nat /\ Len(r) \in Nat /\ d \in Nat /\ g \in Int /\ g = h + d - 1
        /\ 1 \in 0..Len(q) /\ 1 \in 1..Len(q)
    BY <1>0 DEF Drops
  <1>2. ASSUME NEW l \in 1..Len(q)
        PROVE  /\ Cardinality(Told(q, 0, l)) <= Cardinality(Told(q, 1, l)) + d
               /\ Cardinality(Asks(q, 0, l)) = Cardinality(Asks(q, 1, l)) + 1
               /\ Cardinality(Told(q, 0, l)) \in Nat /\ Cardinality(Told(q, 1, l)) \in Nat
               /\ Cardinality(Asks(q, 0, l)) \in Nat /\ Cardinality(Asks(q, 1, l)) \in Nat
    <2>0. l \in Nat \ {0} /\ l \in Nat /\ 0 \in Nat /\ 1 \in Nat
      BY <1>1
    <2>1. /\ Told(q, 0, l) \subseteq Told(q, 1, l) \cup ToSet(q[1].msg.calls)
          /\ Asks(q, 0, l) = Asks(q, 1, l) \cup {1} /\ 1 \notin Asks(q, 1, l)
      BY <2>0, StretchFirst
    <2>2. /\ IsFiniteSet(ToSet(q[1].msg.calls)) /\ Cardinality(ToSet(q[1].msg.calls)) \in Nat
          /\ Cardinality(ToSet(q[1].msg.calls)) <= d
      BY <1>0, ListSize
    <2>3. /\ IsFiniteSet(Told(q, 1, l)) /\ Cardinality(Told(q, 1, l)) \in Nat
          /\ IsFiniteSet(Asks(q, 1, l)) /\ Cardinality(Asks(q, 1, l)) \in Nat
          /\ Cardinality(Told(q, 0, l)) \in Nat /\ Cardinality(Asks(q, 0, l)) \in Nat
      BY <2>0, StretchFinite
    <2>4. PICK U : U = Told(q, 1, l) \cup ToSet(q[1].msg.calls)
      OBVIOUS
    <2>5. /\ IsFiniteSet(U)
          /\ Cardinality(U) = Cardinality(Told(q, 1, l)) + Cardinality(ToSet(q[1].msg.calls))
                                  - Cardinality(Told(q, 1, l) \cap ToSet(q[1].msg.calls))
      BY <2>2, <2>3, <2>4, FS_Union
    <2>6. Cardinality(Told(q, 1, l) \cap ToSet(q[1].msg.calls)) \in Nat
      BY <2>3, FS_Intersection, FS_CardinalityType
    <2>7. Cardinality(Told(q, 0, l)) <= Cardinality(U)
      BY <2>1, <2>4, <2>5, FS_Subset
    <2>8. Cardinality(Asks(q, 0, l)) = Cardinality(Asks(q, 1, l)) + 1
      BY <2>1, <2>3, FS_AddElement
    <2>9. Cardinality(Told(q, 0, l)) <= Cardinality(Told(q, 1, l)) + d
      <3>1. PICK t0, t1, c, u, v :
               /\ t0 = Cardinality(Told(q, 0, l)) /\ t1 = Cardinality(Told(q, 1, l))
               /\ c = Cardinality(ToSet(q[1].msg.calls)) /\ u = Cardinality(U)
               /\ v = Cardinality(Told(q, 1, l) \cap ToSet(q[1].msg.calls))
        OBVIOUS
      <3>2. /\ t0 \in Nat /\ t1 \in Nat /\ c \in Nat /\ v \in Nat /\ d \in Nat
            /\ c <= d /\ u = t1 + c - v /\ t0 <= u
        BY <1>1, <2>2, <2>3, <2>5, <2>6, <2>7, <3>1
      <3>3. t0 <= t1 + d
        BY <3>2
      <3> QED
        BY <3>1, <3>3
    <2> QED
      BY <2>3, <2>8, <2>9
  <1>3. h + d >= 1
    <2>1. h + Cardinality(Told(q, 0, 1)) >= Cardinality(Asks(q, 0, 1))
      BY <1>1 DEF Enough, FreshAt, AtHand
    <2>2. Told(q, 1, 1) = {} /\ Asks(q, 1, 1) = {}
      BY DEF Told, Asks
    <2>3. /\ Cardinality(Told(q, 0, 1)) <= 0 + d /\ Cardinality(Asks(q, 0, 1)) = 0 + 1
          /\ Cardinality(Told(q, 0, 1)) \in Nat
      BY <1>1, <1>2, <2>2, FS_EmptySet
    <2> QED
      BY <1>1, <2>1, <2>3
  <1>4. ASSUME NEW b \in 0..Len(r), NEW k \in b..Len(r), FreshAt(r, b)
        PROVE  /\ AtHand(g, b) + Cardinality(Told(r, b, k)) >= Cardinality(Asks(r, b, k))
               /\ k = Len(r) => AtHand(g, b) + Cardinality(Told(r, b, k))
                                    >= n + Cardinality(Asks(r, b, k))
    <2>1. /\ b + 1 \in 0..Len(q) /\ k + 1 \in (b + 1)..Len(q) /\ k + 1 \in 0..Len(q)
          /\ Told(r, b, k) = Told(q, b + 1, k + 1)
          /\ Cardinality(Asks(r, b, k)) = Cardinality(Asks(q, b + 1, k + 1))
          /\ b # 0 => FreshAt(q, b + 1)
          /\ k = Len(r) => k + 1 = Len(q)
      BY <1>4, StretchDropped, SMTT(30)
    <2>2. CASE b # 0
      <3>1. FreshAt(q, b + 1) /\ AtHand(g, b) = AtHand(h, b + 1)
        BY <2>1, <2>2 DEF AtHand
      <3>2. AtHand(h, b + 1) + Cardinality(Told(q, b + 1, k + 1))
                >= Cardinality(Asks(q, b + 1, k + 1))
        BY <2>1, <3>1 DEF Enough
      <3>3. k = Len(r) => AtHand(h, b + 1) + Cardinality(Told(q, b + 1, k + 1))
                              >= n + Cardinality(Asks(q, b + 1, k + 1))
        BY <2>1, <3>1 DEF Covered
      <3> QED
        BY <2>1, <3>1, <3>2, <3>3
    <2>3. CASE b = 0
      <3>1. PICK l : l = k + 1
        OBVIOUS
      <3>2. l \in 1..Len(q) /\ l \in 0..Len(q)
        BY <1>1, <2>1, <2>3, <3>1
      <3>3. FreshAt(q, 0) /\ 0 \in 0..Len(q) /\ AtHand(h, 0) = h /\ AtHand(g, b) = g
        BY <1>1, <2>3 DEF FreshAt, AtHand
      <3>4. h + Cardinality(Told(q, 0, l)) >= Cardinality(Asks(q, 0, l))
        BY <3>2, <3>3 DEF Enough
      <3>5. k = Len(r) => h + Cardinality(Told(q, 0, l)) >= n + Cardinality(Asks(q, 0, l))
        BY <2>1, <3>1, <3>3 DEF Covered
      <3>6. /\ Told(r, b, k) = Told(q, 1, l)
            /\ Cardinality(Asks(r, b, k)) = Cardinality(Asks(q, 1, l))
        BY <2>1, <2>3, <3>1
      <3>7. PICK t0, t1, s0, s1 :
               /\ t0 = Cardinality(Told(q, 0, l)) /\ t1 = Cardinality(Told(q, 1, l))
               /\ s0 = Cardinality(Asks(q, 0, l)) /\ s1 = Cardinality(Asks(q, 1, l))
        OBVIOUS
      <3>8. t0 \in Nat /\ t1 \in Nat /\ s0 \in Nat /\ s1 \in Nat /\ t0 <= t1 + d /\ s0 = s1 + 1
        BY <1>2, <3>2, <3>7
      <3>9. g + t1 >= s1
        <4>1. h + t0 >= s0
          BY <3>4, <3>7
        <4> QED
          BY <1>1, <3>8, <4>1
      <3>10. ASSUME k = Len(r) PROVE g + t1 >= n + s1
        <4>1. h + t0 >= n + s0
          BY <3>5, <3>7, <3>10
        <4> QED
          BY <1>1, <3>8, <4>1
      <3> QED
        BY <3>3, <3>6, <3>7, <3>9, <3>10
    <2> QED
      BY <2>2, <2>3
  <1>5. Enough(g, r)
    BY <1>4 DEF Enough
  <1>6. \A b \in 0..Len(r) : Len(r) \in b..Len(r)
    BY <1>1
  <1>7. Covered(g, r, n)
    BY <1>4, <1>6 DEF Covered
  <1> QED
    BY <1>0, <1>3, <1>5, <1>7

LEMMA SupplyTypes ==
    ASSUME Shape
    PROVE  /\ Len(macCalls) \in Nat /\ Len(evalMacCalls) \in Nat /\ Len(Out) \in Nat
           /\ Hand \in Int /\ Due \in Int
           /\ Hand = Len(macCalls) \/ Hand = Len(macCalls) - 1
  <1>1. Len(macCalls) \in Nat /\ Len(evalMacCalls) \in Nat
    BY DEF Shape, Types
  <1>2. Len(Out) \in Nat
    BY StreamTypes
  <1> QED
    BY <1>1, <1>2 DEF Hand, Due

\* A step that asks nothing and takes nothing.
LEMMA SupplyStays ==
    ASSUME Shape, Shape', Supplied, Out' = Out, Hand' >= Hand, Due' <= Due
    PROVE  Supplied'
  <1>1. PICK q, g, h, m, n : q = Out /\ g = Hand' /\ h = Hand /\ m = Due' /\ n = Due
    OBVIOUS
  <1>2. Len(q) \in Nat /\ h \in Int /\ n \in Int
    BY <1>1, SupplyTypes
  <1>3. Hand' \in Int /\ Due' \in Int
    <2>1. Len(macCalls)' \in Nat /\ Len(evalMacCalls)' \in Nat
      BY DEF Shape, Types
    <2> QED
      BY <2>1 DEF Hand, Due
  <1>4. g \in Int /\ m \in Int /\ g >= h /\ m <= n
    BY <1>1, <1>3
  <1>5. Short(q) /\ Enough(h, q) /\ Covered(h, q, n)
    BY <1>1 DEF Supplied
  <1>6. Enough(g, q) /\ Covered(g, q, m)
    BY <1>2, <1>4, <1>5, MoreAtHand
  <1> QED
    BY <1>1, <1>5, <1>6 DEF Supplied

LEMMA GrownShort ==
    ASSUME NEW q, NEW r, NEW m, Extends(r, q, m), Short(q)
    PROVE  Short(r)
  <1>1. SUFFICES ASSUME NEW k \in DOMAIN r, r[k].msg.calls = <<>> PROVE r[k].last
    BY DEF Short
  <1>2. CASE k \in DOMAIN q
    BY <1>1, <1>2 DEF Short, Extends
  <1>3. CASE k \notin DOMAIN q
    <2>1. r[k].msg = m /\ (r[k].last <=> k = Len(r))
      BY <1>3 DEF Extends
    <2>2. ToSet(m.calls) \cap Big = {}
      BY <1>1, <2>1 DEF ToSet
    <2>3. m \in {m}
      OBVIOUS
    <2>4. Len(Slices(m)) = 1
      BY <2>2, <2>3, SliceFacts
    <2>5. Len(r) = Len(q) + 1 /\ DOMAIN r = 1..Len(r) /\ DOMAIN q = 1..Len(q) /\ Len(q) \in Nat
      BY <2>4 DEF Extends
    <2>6. k = Len(r)
      BY <1>3, <2>5
    <2> QED
      BY <2>1, <2>6
  <1> QED
    BY <1>2, <1>3

LEMMA DroppedShort ==
    ASSUME NEW q, NEW r, Drops(r, q), Short(q)
    PROVE  Short(r)
  BY DEF Short, Drops

\* The client starts calls and asks for a result.
LEMMA SuppliedStartCalls ==
    ASSUME Shape, Placed, Supplied, StartCalls
    PROVE  Supplied'
  <1> USE DEF clientVars, linkVars, serverVars
  <1>1. PICK new \in Lists :
             /\ \A c \in ToSet(new) : status[c] = "INIT"
             /\ HasRoom(new)
             /\ evalMacCalls' = evalMacCalls \o new
             /\ cOut' = Slices(Task("calls", Unsent(new), round))
    BY DEF StartCalls
  <1>2. /\ new \in Seq(Call) /\ Len(new) \in Nat
        /\ \A i, j \in DOMAIN new : new[i] = new[j] => i = j
    BY ListFacts
  <1>3. /\ cpc = "Turn" /\ cpc' = "SendCalls" /\ round \in 1..MaxRounds
        /\ UNCHANGED <<p2c, spc, macCalls, sOut>> /\ cOut = <<>>
    BY DEF StartCalls, Shape, Types, ClientShape, Sending
  <1>4. PICK m : m = Task("calls", new, round)
    OBVIOUS
  <1>5. m \in TaskMessage /\ cOut' = Slices(m)
    BY <1>1, <1>2, <1>3, <1>4, TaskFacts DEF Unsent
  <1>6. m.kind = "calls" /\ m.calls = new
    BY <1>4 DEF Task
  <1>7. PICK q, r, h, n : q = Out /\ r = Out' /\ h = Hand /\ n = Due
    OBVIOUS
  <1>8. Extends(r, q, m)
    BY <1>3, <1>5, <1>7, OutGrows
  <1>9. \A j \in DOMAIN q : \A c \in ToSet(m.calls) : ~Carries(q[j], c)
    <2> SUFFICES ASSUME NEW j \in DOMAIN q, NEW c \in ToSet(new), Carries(q[j], c) PROVE FALSE
      BY <1>6
    <2>1. c \in Call
      BY <1>2 DEF ToSet
    <2>2. Travels(c)
      BY <1>7, <2>1 DEF Travels
    <2>3. c \in Running
      BY <2>1, <2>2 DEF Placed, OnePlace
    <2> QED
      BY <1>1, <2>3 DEF Shape, ClientShape
  <1>10. Hand' = h
    BY <1>3, <1>7 DEF Hand, Handling
  <1>11. Due' = n + Len(m.calls) - 1 /\ n + Len(m.calls) >= 1
    <2>1. PICK a, d : a = Len(evalMacCalls) /\ d = Len(new)
      OBVIOUS
    <2>2. a \in Nat /\ d \in Nat /\ Len(evalMacCalls') = a + d
      BY <1>1, <1>2, <2>1 DEF Shape, Types
    <2>3. n = a /\ Due' = a + d - 1
      BY <1>3, <1>7, <2>1, <2>2 DEF Due
    <2>4. a + d >= 1
      <3>1. Width \in Int
        BY ConstantsAssumption DEF ConstantsAssumption, Width
      <3> QED
        BY <1>1, <2>1, <2>2, <3>1 DEF HasRoom
    <2> QED
      BY <1>6, <2>1, <2>2, <2>3, <2>4
  <1>12. h \in Int /\ n \in Int
    BY <1>7, SupplyTypes
  <1>13. Short(q) /\ Enough(h, q) /\ Covered(h, q, n)
    BY <1>7 DEF Supplied
  <1>14. Short(r)
    BY <1>8, <1>13, GrownShort
  <1>15. Enough(h, r) /\ Covered(h, r, n + Len(m.calls) - 1)
    BY <1>2, <1>6, <1>8, <1>9, <1>11, <1>12, <1>13, GrowsAsked
  <1> QED
    BY <1>7, <1>10, <1>11, <1>14, <1>15 DEF Supplied

\* The client sends a message that asks nothing, with no call running.
LEMMA SuppliedUnasked ==
    ASSUME Shape, Shape', Enough(Hand, Out), Covered(Hand, Out, 0), Short(Out), Hand' = Hand,
           Due' = 0, NEW m, Extends(Out', Out, m), m.kind # "calls"
    PROVE  Supplied'
  <1>1. PICK q, r, h : q = Out /\ r = Out' /\ h = Hand
    OBVIOUS
  <1>2. h \in Int
    BY <1>1, SupplyTypes
  <1>3. Enough(h, r) /\ Covered(h, r, 0)
    BY <1>1, <1>2, GrowsUnasked
  <1>4. Short(r)
    BY <1>1, GrownShort
  <1> QED
    BY <1>1, <1>3, <1>4 DEF Supplied

LEMMA SuppliedClientStep ==
    ASSUME Shape, Shape', Placed, Supplied, Working, Working', enableParallelMacro,
           Client \/ Signal \/ UNCHANGED vars
    PROVE  Supplied'
  <1> USE DEF clientVars, linkVars, serverVars
  <1>0. /\ Len(macCalls) \in Nat /\ Len(evalMacCalls) \in Nat /\ Hand \in Int /\ Due \in Int
    BY SupplyTypes
  <1>1. CASE EndEvaluation
    <2>1. PICK m : m = Task("stg", <<>>, round)
      OBVIOUS
    <2>2. /\ UNCHANGED <<evalMacCalls, macCalls, spc, sOut, p2c>> /\ evalMacCalls = <<>>
          /\ cOut = <<>> /\ cOut' = Slices(m) /\ cpc = "Turn" /\ cpc' = "SendStg"
          /\ round \in 1..MaxRounds
      BY <1>1, <2>1 DEF EndEvaluation, Shape, Types, ClientShape, Sending
    <2>3. m \in TaskMessage /\ m.kind = "stg"
      <3>1. <<>> \in Seq(Call)
        OBVIOUS
      <3> QED
        BY <2>1, <2>2, <3>1, TaskFacts DEF Task
    <2>4. Extends(Out', Out, m)
      BY <2>2, <2>3, OutGrows
    <2>5. Len(evalMacCalls) = 0
      BY <2>2
    <2>6. Due = 0 /\ Due' = 0 /\ Hand' = Hand
      BY <2>2, <2>5 DEF Due, Hand, Handling
    <2> QED
      BY <2>3, <2>4, <2>6, SuppliedUnasked DEF Supplied
  <1>2. CASE ClientWrite
    <2>1. /\ p2c' = Append(p2c, Head(cOut)) /\ cOut' = Tail(cOut) /\ cpc \in Sending
          /\ cpc' = (IF cOut' = <<>> THEN AfterSend ELSE cpc)
          /\ UNCHANGED <<evalMacCalls, macCalls, spc, sOut>>
      BY <1>2 DEF ClientWrite
    <2>2. cOut # <<>>
      BY <2>1 DEF Shape, ClientShape
    <2>3. Out' = Out
      BY <2>1, <2>2, SlicePasses DEF Shape, Streams, Out
    <2>4. Hand' = Hand
      BY <2>1 DEF Hand, Handling
    <2>5. cpc' \in {"SendCalls", "Read", "More", "Collect"}
              <=> cpc \in {"SendCalls", "Read", "More", "Collect"}
      <3>1. cpc # "SendExit"
        BY DEF Working, Leaving
      <3> QED
        BY <2>1, <3>1 DEF AfterSend, Sending
    <2>6. Due' = Due
      BY <2>1, <2>5 DEF Due
    <2> QED
      BY <1>0, <2>3, <2>4, <2>6, SupplyStays
  <1>3. CASE SendFails \/ ReadFails
    BY <1>3 DEF SendFails, ReadFails, LatchedError, Working
  <1>4. CASE ClientRead \/ ReadMore \/ ResultsIn
    <2>1. UNCHANGED <<evalMacCalls, macCalls, spc, sOut, p2c, cOut>>
      BY <1>4 DEF ClientRead, ReadMore, ResultsIn
    <2>2. \/ cpc = "ReadDef" /\ cpc' \in {"ReadDef", "Turn"}
          \/ cpc \in {"Read", "More"} /\ cpc' \in {"Read", "More", "Collect"}
      BY <1>4 DEF ClientRead, ReadMore, ResultsIn
    <2>3. Hand' = Hand /\ Due' = Due /\ Out' = Out
      BY <2>1, <2>2, OutKept DEF Hand, Handling, Due
    <2> QED
      BY <1>0, <2>3, SupplyStays
  <1>5. CASE Collect
    <2>1. PICK i \in DOMAIN evalMacCalls : evalMacCalls' = RemoveAt(evalMacCalls, i)
      BY <1>5 DEF Collect
    <2>2. Len(evalMacCalls') = Len(evalMacCalls) - 1
      BY <2>1, Removed DEF Shape, Types
    <2>3. UNCHANGED <<macCalls, spc, sOut, p2c, cOut>> /\ cpc = "Collect" /\ cpc' = "Turn"
      BY <1>5 DEF Collect
    <2>4. Hand' = Hand /\ Due' = Due /\ Out' = Out
      BY <2>2, <2>3, OutKept DEF Hand, Handling, Due
    <2> QED
      BY <1>0, <2>4, SupplyStays
  <1>6. CASE SerialResultIn
    BY <1>6 DEF SerialResultIn
  <1>7. CASE WaitExit \/ Signal
    BY <1>7 DEF WaitExit, Signal, Working, Leaving
  <1>8. CASE UNCHANGED vars
    <2>1. Hand' = Hand /\ Due' = Due /\ Out' = Out
      BY <1>8, OutKept DEF vars, Hand, Handling, Due
    <2> QED
      BY <1>0, <2>1, SupplyStays
  <1> QED
    BY <1>1, <1>2, <1>3, <1>4, <1>5, <1>6, <1>7, <1>8, SuppliedStartCalls DEF Client

\* Every slice of a message is of its kind.
LEMMA SliceKind ==
    ASSUME NEW m, NEW s, s = Slices(m)
    PROVE  (\E k \in DOMAIN s : s[k].msg.kind = "notFound") <=> m.kind = "notFound"
  <1>1. PICK M : M = {m}
    OBVIOUS
  <1>2. m \in M
    BY <1>1
  <1>3. /\ Len(s) \in Nat \ {0} /\ DOMAIN s = 1..Len(s)
        /\ \A k \in DOMAIN s : s[k].msg = m
    BY <1>2, SliceFacts
  <1>4. 1 \in DOMAIN s
    BY <1>3
  <1> QED
    BY <1>3, <1>4

\* The server takes a slice of a message.
LEMMA SuppliedSrvRead ==
    ASSUME Shape, Shape', Supplied, enableParallelMacro, SrvRead, spc' # "Down"
    PROVE  Supplied'
  <1> USE DEF clientVars, linkVars, serverVars
  <1>1. /\ spc = "Recv" /\ p2c # <<>> /\ p2c' = Tail(p2c)
        /\ UNCHANGED <<cpc, evalMacCalls, cOut>>
    BY DEF SrvRead
  <1>2. PICK q, r, h, n, slice : q = Out /\ r = Out' /\ h = Hand /\ n = Due /\ slice = q[1]
    OBVIOUS
  <1>3. Drops(r, q) /\ slice = Head(p2c)
    BY <1>1, <1>2, OutTaken
  <1>4. Due' = n
    BY <1>1, <1>2 DEF Due
  <1>5. Short(q) /\ Enough(h, q) /\ Covered(h, q, n)
    BY <1>2 DEF Supplied
  <1>6. Short(r)
    BY <1>3, <1>5, DroppedShort
  <1>7. h = Len(macCalls) /\ h \in Nat /\ h \in Int /\ n \in Int
    BY <1>1, <1>2, SupplyTypes DEF Hand, Handling
  <1>8. slice.msg \in TaskMessage
    <2>1. q \in Seq(TaskSlice) /\ 1 \in DOMAIN q
      BY <1>2, <1>3, StreamTypes DEF Drops
    <2>2. slice \in TaskSlice
      BY <1>2, <2>1
    <2> QED
      BY <2>2 DEF TaskSlice
  <1>9. \/ slice.last /\ slice.msg.kind # "exit" /\ Handle(slice.msg)
        \/ /\ UNCHANGED <<spc, macCalls, sOut>>
           /\ ~(slice.last /\ slice.msg.kind # "exit")
    <2>1. LET whole == slice.last /\ ~(midMessage /\ slice.msg.kind = "exit")
          IN IF whole THEN Handle(slice.msg) ELSE UNCHANGED <<spc, macCalls, sOut>>
      BY <1>3 DEF SrvRead
    <2>2. slice.msg.kind = "exit" /\ Handle(slice.msg) => spc' = "Down"
      BY DEF Handle
    <2> QED
      BY <2>1, <2>2
  <1>10. CASE UNCHANGED <<spc, macCalls, sOut>> /\ ~(slice.last /\ slice.msg.kind = "calls")
    <2>1. Hand' = h
      BY <1>2, <1>10 DEF Hand, Handling
    <2>2. Enough(h, r) /\ Covered(h, r, n)
      BY <1>2, <1>3, <1>5, <1>7, <1>10, DropsUnasked
    <2> QED
      BY <1>2, <1>4, <1>6, <2>1, <2>2 DEF Supplied
  <1>11. CASE Handle(slice.msg) /\ slice.msg.kind = "def"
    <2>1. PICK m : m = Answer("respond", [call |-> 0, round |-> slice.msg.round], TRUE)
      OBVIOUS
    <2>2. sOut' = Slices(m) /\ macCalls' = macCalls /\ spc' = "Write"
      BY <1>11, <2>1 DEF Handle
    <2>3. m.kind = "respond"
      BY <2>1 DEF Answer
    <2>4. \A i \in DOMAIN sOut' : sOut'[i].msg.kind # "notFound"
      BY <2>2, <2>3, SliceKind
    <2>5. Hand' = h
      BY <1>7, <2>2, <2>4 DEF Hand, Handling
    <2>6. Enough(h, r) /\ Covered(h, r, n)
      BY <1>2, <1>3, <1>5, <1>7, <1>11, DropsUnasked
    <2> QED
      BY <1>2, <1>4, <1>6, <2>5, <2>6 DEF Supplied
  <1>12. CASE Handle(slice.msg) /\ slice.msg.kind = "stg"
    <2>1. macCalls' = <<>> /\ spc' = "Recv"
      BY <1>1, <1>12 DEF Handle
    <2>2. Hand' = 0
      BY <2>1 DEF Hand, Handling
    <2>3. FreshAt(q, 1)
      BY <1>2, <1>12 DEF FreshAt
    <2>4. Enough(0, r) /\ Covered(0, r, n)
      <3>1. PICK g : g = 0
        OBVIOUS
      <3>2. g \in Int /\ (g = h \/ (g = 0 /\ FreshAt(q, 1)))
        BY <2>3, <3>1
      <3>3. Enough(g, r) /\ Covered(g, r, n)
        BY <1>2, <1>3, <1>5, <1>7, <1>12, <3>2, DropsUnasked
      <3> QED
        BY <3>1, <3>3
    <2> QED
      BY <1>2, <1>4, <1>6, <2>2, <2>4 DEF Supplied
  <1>13. CASE slice.last /\ Handle(slice.msg) /\ slice.msg.kind = "calls"
    <2>1. slice.msg.calls \in Seq(Call) /\ slice.msg.round \in 1..MaxRounds
      BY <1>8 DEF TaskMessage
    <2>2. /\ Enough(h + Len(slice.msg.calls) - 1, r)
          /\ Covered(h + Len(slice.msg.calls) - 1, r, n)
          /\ h + Len(slice.msg.calls) >= 1
      BY <1>2, <1>3, <1>5, <1>7, <1>13, <2>1, DropsAsked
    <2>3. PICK known : known = Received(slice.msg.calls, slice.msg.round)
      OBVIOUS
    <2>4. Len(known) = h + Len(slice.msg.calls)
      BY <1>7, <2>1, <2>3, ReceivedFacts DEF Shape, Types
    <2>5. known # <<>>
      BY <2>2, <2>4
    <2>6. spc' = "Find" /\ macCalls' = known
      BY <1>13, <2>3, <2>5 DEF Handle
    <2>7. Hand' = h + Len(slice.msg.calls) - 1
      <3>1. PICK z : z = Len(macCalls)'
        OBVIOUS
      <3>2. z = h + Len(slice.msg.calls)
        BY <2>4, <2>6, <3>1
      <3>3. Hand' = z - 1
        BY <2>6, <3>1 DEF Hand, Handling
      <3>4. h \in Int /\ Len(slice.msg.calls) \in Int
        BY <1>7, <2>1
      <3> QED
        BY <3>2, <3>3, <3>4
    <2> QED
      BY <1>2, <1>4, <1>6, <2>2, <2>7 DEF Supplied
  <1>14. slice.msg.kind \in {"def", "calls", "stg", "exit"}
    BY <1>8 DEF TaskMessage
  <1>15. CASE UNCHANGED <<spc, macCalls, sOut>> /\ ~(slice.last /\ slice.msg.kind # "exit")
    BY <1>10, <1>15
  <1> QED
    BY <1>9, <1>11, <1>12, <1>13, <1>14, <1>15

\* The other steps of the server leave it as many calls for questions, or more.
LEMMA SuppliedServerStep ==
    ASSUME Shape, Shape', Supplied, enableParallelMacro, spc' # "Down",
           SrvNotFound \/ SrvStart \/ SrvWrite \/ \E i \in DOMAIN macCalls : SrvResult(i) \/ CallDone(i)
    PROVE  Supplied'
  <1> USE DEF clientVars, linkVars, serverVars
  <1>0. Len(macCalls) \in Nat /\ Hand \in Int /\ Due \in Int /\ macCalls \in Seq(Entry)
    BY SupplyTypes DEF Shape, Types
  <1>1. UNCHANGED <<enableParallelMacro, cpc, evalMacCalls, cOut, p2c>>
    BY DEF SrvNotFound, SrvStart, SrvWrite, SrvResult, CallDone
  <1>2. Due' = Due /\ Out' = Out
    BY <1>1, OutKept DEF Due
  <1>3. SUFFICES Hand' >= Hand
    BY <1>0, <1>2, SupplyStays
  <1>4. CASE SrvNotFound
    <2>1. PICK i \in DOMAIN macCalls :
             /\ macCalls' = [macCalls EXCEPT ![i].at = "FAIL"]
             /\ sOut' = Slices(Answer("notFound", macCalls[i], FALSE))
      <3>1. \E i \in Missing : \A j \in Missing : i <= j
        <4>1. Missing # {} /\ Missing \in SUBSET Nat
          BY <1>0, <1>4 DEF SrvNotFound, Missing
        <4> QED
          BY <4>1, LeastNumber
      <3>2. PICK i \in Missing : i = CHOOSE k \in Missing : \A j \in Missing : k <= j
        BY <3>1
      <3> QED
        BY <1>4, <3>2 DEF SrvNotFound, Missing
    <2>2. Len(macCalls') = Len(macCalls)
      BY <1>0, <2>1
    <2>3. spc = "Find" /\ spc' = "Write"
      BY <1>4 DEF SrvNotFound
    <2>4. \E k \in DOMAIN sOut' : sOut'[k].msg.kind = "notFound"
      <3>1. PICK m : m = Answer("notFound", macCalls[i], FALSE)
        OBVIOUS
      <3>2. m.kind = "notFound"
        BY <3>1 DEF Answer
      <3> QED
        BY <2>1, <3>1, <3>2, SliceKind
    <2>5. Hand' = Hand
      BY <2>2, <2>3, <2>4 DEF Hand, Handling
    <2> QED
      BY <1>0, <2>5
  <1>5. CASE SrvStart
    <2>1. spc = "Find" /\ Len(macCalls') = Len(macCalls)
      <3>1. macCalls' = [i \in DOMAIN macCalls |->
                      IF macCalls[i].at = "INIT" THEN [macCalls[i] EXCEPT !.at = "EVAL"]
                                                 ELSE macCalls[i]]
        BY <1>5 DEF SrvStart
      <3>2. macCalls' \in Seq(Entry) /\ DOMAIN macCalls' = DOMAIN macCalls
        BY <3>1 DEF Shape, Types
      <3> QED
        BY <1>0, <1>5, <3>2 DEF SrvStart
    <2>2. Hand = Len(macCalls) - 1
      BY <2>1 DEF Hand, Handling
    <2>3. Hand' \in {Len(macCalls), Len(macCalls) - 1}
      BY <2>1 DEF Hand
    <2> QED
      BY <1>0, <2>2, <2>3
  <1>6. CASE SrvWrite
    <2>1. /\ spc = "Write" /\ sOut' = Tail(sOut) /\ macCalls' = macCalls
          /\ spc' = IF sOut' # <<>> THEN "Write" ELSE AfterAnswer(Head(sOut).msg.kind)
      BY <1>6 DEF SrvWrite
    <2>2. sOut # <<>> /\ sOut \in Seq(AnswerSlice)
      BY <2>1 DEF Shape, ServerShape, Streams
    <2>3. ASSUME Handling' PROVE Handling
      <3>1. CASE sOut' # <<>>
        <4>1. PICK k \in DOMAIN Tail(sOut) : Tail(sOut)[k].msg.kind = "notFound"
          BY <2>1, <2>3, <3>1 DEF Handling
        <4>2. k + 1 \in DOMAIN sOut /\ Tail(sOut)[k] = sOut[k + 1]
          BY <2>2
        <4> QED
          BY <2>1, <4>1, <4>2 DEF Handling
      <3>2. CASE sOut' = <<>>
        <4>1. Head(sOut).msg.kind = "notFound"
          BY <2>1, <2>3, <3>2 DEF Handling, AfterAnswer
        <4>2. 1 \in DOMAIN sOut /\ Head(sOut) = sOut[1]
          BY <2>2
        <4> QED
          BY <2>1, <4>1, <4>2 DEF Handling
      <3> QED
        BY <3>1, <3>2
    <2> QED
      BY <1>0, <2>1, <2>3 DEF Hand
  <1>7. ASSUME NEW i \in DOMAIN macCalls, SrvResult(i) PROVE Hand' >= Hand
    <2>1. /\ macCalls' = RemoveAt(macCalls, i) /\ spc = "Wait" /\ spc' = "Write"
          /\ sOut' = Slices(Answer("result", macCalls[i], macCalls[i].call \notin Failing))
      BY <1>7 DEF SrvResult, Forget
    <2>2. Len(macCalls') = Len(macCalls) - 1
      BY <1>0, <2>1, Removed
    <2>3. \A k \in DOMAIN sOut' : sOut'[k].msg.kind # "notFound"
      <3>1. PICK m : m = Answer("result", macCalls[i], macCalls[i].call \notin Failing)
        OBVIOUS
      <3>2. m.kind = "result"
        BY <3>1 DEF Answer
      <3> QED
        BY <2>1, <3>1, <3>2, SliceKind
    <2>4. Hand' = Hand
      BY <2>1, <2>2, <2>3 DEF Hand, Handling
    <2> QED
      BY <1>0, <2>4
  <1>8. ASSUME NEW i \in DOMAIN macCalls, CallDone(i) PROVE Hand' >= Hand
    <2>1. Len(macCalls') = Len(macCalls) /\ UNCHANGED <<spc, sOut>>
      BY <1>0, <1>8 DEF CallDone
    <2>2. Hand' = Hand
      BY <2>1 DEF Hand, Handling
    <2> QED
      BY <1>0, <2>2
  <1> QED
    BY <1>4, <1>5, <1>6, <1>7, <1>8

\* An evaluation begins, with the server it finds or with a fresh one.
LEMMA SuppliedBegin ==
    ASSUME Shape, Shape', Fed, Begin, Working', spc' # "Down", enableParallelMacro'
    PROVE  Supplied'
  <1> USE DEF clientVars, linkVars, serverVars
  <1>1. /\ cpc = "Idle" /\ round' \in 1..MaxRounds
        /\ UNCHANGED <<enableParallelMacro, evalMacCalls>>
        /\ evalMacCalls = <<>> /\ cOut = <<>>
    BY ConstantsAssumption
       DEF Begin, Shape, Types, ClientShape, Leaving, Sending, ConstantsAssumption
  <1>2. Len(evalMacCalls) = 0 /\ Len(evalMacCalls)' = 0
    BY <1>1
  <1>3. PICK q, r, h : q = p2c' /\ r = Out' /\ h = Hand'
    OBVIOUS
  <1>4. /\ q \in Seq(TaskSlice) /\ h \in Int
        /\ Short(q) /\ Enough(h, q) /\ Covered(h, q, 0)
    <2>1. CASE macroSrvRun
      <3>1. UNCHANGED <<pipeError, spc, macCalls, sOut, p2c>>
        BY <2>1 DEF Begin, CreateMacroSrvProcess
      <3>2. Supplied
        BY <1>1, <3>1 DEF Fed, Working, Leaving
      <3>3. Out = p2c /\ p2c \in Seq(TaskSlice)
        BY <1>1, EmptyEnd DEF Out, Shape, Streams
      <3>4. Hand' = Hand /\ Due = 0
        BY <1>1, <1>2, <3>1 DEF Hand, Handling, Due
      <3>5. Hand \in Int
        BY SupplyTypes
      <3> QED
        BY <1>3, <3>1, <3>2, <3>3, <3>4, <3>5 DEF Supplied
    <2>2. CASE ~macroSrvRun
      <3>1. p2c' = <<>> /\ macCalls' = <<>> /\ spc' = "Recv"
        BY <2>2 DEF Begin, CreateMacroSrvProcess
      <3>2. h = 0 /\ q = <<>>
        BY <1>3, <3>1 DEF Hand, Handling
      <3>3. q \in Seq(TaskSlice) /\ Len(q) = 0 /\ DOMAIN q = {}
        BY <3>2
      <3>4. ASSUME NEW b \in 0..Len(q), NEW k \in b..Len(q)
            PROVE  AtHand(h, b) = 0 /\ Told(q, b, k) = {} /\ Asks(q, b, k) = {}
        <4>1. b = 0 /\ k = 0
          BY <3>3
        <4>2. (b + 1)..k = {}
          BY <4>1
        <4> QED
          BY <3>2, <4>1, <4>2 DEF AtHand, Told, Asks
      <3>5. ASSUME NEW b \in 0..Len(q), NEW k \in b..Len(q)
            PROVE  AtHand(h, b) + Cardinality(Told(q, b, k)) >= 0 + Cardinality(Asks(q, b, k))
        <4>1. PICK a, t, s : /\ a = AtHand(h, b) /\ t = Cardinality(Told(q, b, k))
                             /\ s = Cardinality(Asks(q, b, k))
          OBVIOUS
        <4>2. a = 0 /\ t = 0 /\ s = 0
          BY <3>4, <4>1, FS_EmptySet
        <4>3. a + t >= 0 + s
          BY <4>2
        <4> QED
          BY <4>1, <4>3
      <3>6. Enough(h, q)
        <4> SUFFICES ASSUME NEW b \in 0..Len(q), NEW k \in b..Len(q)
                     PROVE  AtHand(h, b) + Cardinality(Told(q, b, k)) >= Cardinality(Asks(q, b, k))
          BY DEF Enough
        <4>1. Cardinality(Asks(q, b, k)) = 0
          BY <3>4, FS_EmptySet
        <4> QED
          BY <3>5, <4>1
      <3>7. \A b \in 0..Len(q) : Len(q) \in b..Len(q)
        BY <3>3
      <3>8. Covered(h, q, 0)
        BY <3>5, <3>7 DEF Covered
      <3> QED
        BY <3>2, <3>3, <3>6, <3>8 DEF Short
    <2> QED
      BY <2>1, <2>2
  <1>5. Due' = 0
    BY <1>2 DEF Due, Begin
  <1>6. CASE cOut' = <<>>
    <2>1. r = q
      BY <1>3, <1>4, <1>6, EmptyEnd DEF Out
    <2> QED
      BY <1>3, <1>4, <1>5, <2>1 DEF Supplied
  <1>7. CASE cOut' = Slices(Task("def", <<>>, round'))
    <2>1. PICK m : m = Task("def", <<>>, round')
      OBVIOUS
    <2>2. m \in TaskMessage /\ m.kind = "def"
      <3>1. <<>> \in Seq(Call)
        OBVIOUS
      <3> QED
        BY <1>1, <2>1, <3>1, TaskFacts DEF Task
    <2>3. Slices(m) \in Seq(TaskSlice) /\ MakeUp(Slices(m), m)
      <3>1. m \in TaskMessage
        BY <2>2
      <3>2. Slices(m) \in Seq(TaskSlice)
        BY <3>1, SliceFacts DEF TaskSlice
      <3>3. /\ Len(Slices(m)) \in Nat \ {0} /\ DOMAIN Slices(m) = 1..Len(Slices(m))
            /\ \A k \in DOMAIN Slices(m) : /\ Slices(m)[k].msg = m
                                           /\ Slices(m)[k].last <=> k = Len(Slices(m))
        BY <3>1, SliceFacts
      <3>4. Len(Slices(m)) > 0
        BY <3>3
      <3> QED
        BY <3>2, <3>3, <3>4, Zenon DEF MakeUp
    <2>4. r = q \o Slices(m)
      BY <1>3, <1>7, <2>1 DEF Out
    <2>5. Extends(q \o Slices(m), q, m)
      BY <1>4, <2>3, Grown
    <2>6. Extends(r, q, m)
      BY <2>4, <2>5
    <2>7. Enough(h, r) /\ Covered(h, r, 0)
      BY <1>4, <2>2, <2>6, GrowsUnasked
    <2>8. Short(r)
      BY <1>4, <2>6, GrownShort
    <2> QED
      BY <1>3, <1>5, <2>7, <2>8 DEF Supplied
  <1>8. cOut' = <<>> \/ cOut' = Slices(Task("def", <<>>, round'))
    BY <1>1 DEF Begin
  <1> QED
    BY <1>6, <1>7, <1>8

\* Only the start of an evaluation starts a server.
LEMMA StaysDown ==
    ASSUME [Next]_vars, ~Begin, spc = "Down"
    PROVE  spc' = "Down"
  <1> USE DEF clientVars, linkVars, serverVars
  <1>1. CASE Client \/ Signal
    BY <1>1 DEF Client, StartCalls, EndEvaluation, ClientWrite, SendFails, ClientRead,
                ReadFails, ReadMore, ResultsIn, Collect, SerialResultIn, WaitExit, Signal
  <1>2. CASE Server \/ Coroutines \/ Crash \/ ParentGone \/ WaitProcessExit
    BY <1>2 DEF Server, Coroutines, SrvRead, SrvNotFound, SrvStart, SrvWrite, SrvResult,
                CallDone, Crash, ParentGone, WaitProcessExit
  <1>3. CASE UNCHANGED vars
    BY <1>3 DEF vars
  <1> QED
    BY <1>1, <1>2, <1>3 DEF Next, WaitSpin, Rest

LEMMA FedStep ==
    ASSUME Shape, Places, Fed, [Next]_vars
    PROVE  Fed'
  <1> USE DEF clientVars, linkVars, serverVars
  <1>1. SUFFICES ASSUME Working', spc' # "Down", enableParallelMacro' PROVE Supplied'
    BY DEF Fed
  <1>2. Shape'
    BY ShapeStep
  <1>3. CASE Begin
    BY <1>1, <1>2, <1>3, SuppliedBegin
  <1>4. CASE ~Begin
    <2>1. Working /\ Placed
      BY <1>1, <1>4, StillWorking DEF Places
    <2>2. spc # "Down"
      BY <1>1, <1>4, StaysDown
    <2>3. enableParallelMacro
      <3>1. enableParallelMacro' = enableParallelMacro
        BY SameLoop
      <3> QED
        BY <1>1, <3>1 DEF Shape, Types
    <2>4. Supplied
      BY <2>1, <2>2, <2>3 DEF Fed
    <2>5. CASE Client \/ Signal \/ UNCHANGED vars
      BY <1>1, <1>2, <2>1, <2>3, <2>4, <2>5, SuppliedClientStep
    <2>6. CASE SrvRead
      BY <1>1, <1>2, <2>3, <2>4, <2>6, SuppliedSrvRead
    <2>7. CASE SrvNotFound \/ SrvStart \/ SrvWrite
               \/ \E i \in DOMAIN macCalls : SrvResult(i) \/ CallDone(i)
      BY <1>1, <1>2, <2>3, <2>4, <2>7, SuppliedServerStep
    <2>8. CASE Crash \/ ParentGone
      BY <1>1, <2>8 DEF Crash, ParentGone
    <2>9. CASE WaitProcessExit
      BY <2>2, <2>9 DEF WaitProcessExit
    <2> QED
      BY <1>4, <2>5, <2>6, <2>7, <2>8, <2>9 DEF Next, Server, Coroutines, WaitSpin, Rest
  <1> QED
    BY <1>3, <1>4

FedInv == KeptInv /\ (KeysTell => Fed)

LEMMA FedInvStep == FedInv /\ [Next]_vars => FedInv'
  <1> SUFFICES ASSUME FedInv, [Next]_vars PROVE FedInv'
    OBVIOUS
  <1>1. KeptInv'
    BY KeptInvStep DEF FedInv
  <1>2. ASSUME KeysTell' PROVE Fed'
    BY <1>2, KeysTellKept, FedStep DEF FedInv, KeptInv
  <1> QED
    BY <1>1, <1>2 DEF FedInv

LEMMA NeverStarves == FedInv => (KeysTell => ServerNeverStarved)
  <1> SUFFICES ASSUME Shape, Places, Fed, spc = "Recv", p2c # <<>>, cpc \notin Leaving,
                      Head(p2c).msg.kind = "calls", Head(p2c).msg.calls = <<>>
               PROVE  macCalls # <<>>
    BY DEF FedInv, KeptInv, ServerNeverStarved, Leaving
  <1>1. Working /\ Placed
    BY DEF Working, Places, Shape, ServerShape
  <1>2. PICK q : q = Out
    OBVIOUS
  <1>3. q[1] = Head(p2c) /\ 1 \in DOMAIN q /\ Len(q) \in Nat /\ DOMAIN q = 1..Len(q)
    <2>1. p2c \in Seq(TaskSlice) /\ cOut \in Seq(TaskSlice)
      BY DEF Shape, Streams
    <2>2. Out[1] = Head(p2c) /\ Drops(Tail(p2c) \o cOut, Out)
      BY <2>1, Taken DEF Out
    <2> QED
      BY <1>2, <2>2 DEF Drops
  <1>4. enableParallelMacro
    BY <1>1, <1>2, <1>3 DEF Placed, Tasks
  <1>5. Short(q) /\ Enough(Hand, q)
    BY <1>1, <1>2, <1>4 DEF Fed, Supplied
  <1>6. q[1].last
    BY <1>3, <1>5 DEF Short
  <1>7. 0 \in 0..Len(q) /\ 1 \in 0..Len(q) /\ FreshAt(q, 0) /\ AtHand(Hand, 0) = Hand
    BY <1>3 DEF FreshAt, AtHand
  <1>8. Hand + Cardinality(Told(q, 0, 1)) >= Cardinality(Asks(q, 0, 1))
    BY <1>5, <1>7 DEF Enough
  <1>9. \A j : j \in (0 + 1)..1 <=> j = 1
    OBVIOUS
  <1>10. Asks(q, 0, 1) = {1}
    BY <1>3, <1>6, <1>9 DEF Asks
  <1>11. Told(q, 0, 1) = {}
    BY <1>3, <1>9 DEF Told, Carries, ToSet
  <1>12. Cardinality(Told(q, 0, 1)) = 0 /\ Cardinality(Asks(q, 0, 1)) = 1
    BY <1>10, <1>11, FS_EmptySet, FS_Singleton
  <1>13. Hand \in Int /\ Hand = Len(macCalls) /\ Len(macCalls) \in Nat
    BY SupplyTypes DEF Hand, Handling
  <1>14. Len(macCalls) >= 1
    BY <1>8, <1>12, <1>13
  <1> QED
    BY <1>14

\* A question that names no call never reaches a server with no call left
\* (EvalMacroCall in the server takes that for an error and exits), under the
\* same condition.
THEOREM SupplyCorrect == Spec => [](KeysTell => ServerNeverStarved)
  <1>1. Init => FedInv
    BY KeptInvInit DEF Init, FedInv, Fed
  <1> QED
    BY <1>1, FedInvStep, NeverStarves, PTL DEF Spec
=============================================================================
