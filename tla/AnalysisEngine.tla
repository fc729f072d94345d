--------------------------- MODULE AnalysisEngine ----------------------------
(***************************************************************************)
(* The data-flow analyses of CHIR: Engine::IterateSingleUnitToFixpoint     *)
(* (Engine.h), which carries abstract states over the blocks of a function *)
(* until nothing changes, with three analyses it runs: whether a variable  *)
(* may be initialised, whether it may be uninitialised, and its range.     *)
(*                                                                         *)
(* The function has one variable.  A block holds at most one statement     *)
(* about it and ends in a branch to its successors.                        *)
(***************************************************************************)
EXTENDS Integers, Sequences, FiniteSets, SequencesExt

CONSTANTS Size,     \* bound: the blocks of the function are 1..Size; 1 is the entry, Size returns
          Largest   \* bound: the greatest value of the type of the variable

ASSUME BoundsAssumption == Size \in Nat \ {0, 1} /\ Largest \in Nat \ {0}

VARIABLES analysis,   \* which analysis runs
          successors, \* of a block, in order
          statement,  \* of a block
          tested,     \* whether branches depend on the variable being 0
          worklist,   \* blocks to process
          entrySets,  \* the entry state of a block
          inqueueTimes
program == <<analysis, successors, statement, tested>>
vars == <<program, worklist, entrySets, inqueueTimes>>

Blocks == 1..Size
Analyses == {"maybe-init", "maybe-uninit", "range-analysis"}
Statements == {"none", "store", "other"} \* store (of 0); Allocate, in the range analysis an increment

-----------------------------------------------------------------------------
(* Abstract states: kind, the bit of the variable in the gen-kill analyses *)
(* with the places that may have initialised it, and its range.            *)

Top == [lo |-> 0, hi |-> Largest]
Fact(bit, pos, range) == [reachable |-> TRUE, bit |-> bit, pos |-> pos, range |-> range]
Bottom == [reachable |-> FALSE, bit |-> FALSE, pos |-> {}, range |-> Top]

\* InitializeFuncEntryState: not initialised; for the range 0 has been stored.
EntryState(a) == Fact(a = "maybe-uninit", {}, [lo |-> 0, hi |-> 0])

\* HandleAllocateExpr, HandleStoreExpr; a store in the range analysis; an addition.
Increment(r) == IF r.hi = Largest THEN Top ELSE [lo |-> r.lo + 1, hi |-> r.hi + 1]
PropagateExpressionEffect(s, b) ==
    CASE statement[b] = "none" -> s
      [] analysis = "maybe-init" /\ statement[b] # "none" -> [s EXCEPT !.bit = statement[b] = "store"]
      [] analysis = "maybe-uninit" /\ statement[b] = "store" -> [s EXCEPT !.bit = FALSE, !.pos = @ \cup {b}]
      [] analysis = "maybe-uninit" /\ statement[b] = "other" -> [s EXCEPT !.bit = TRUE]
      [] analysis = "range-analysis" /\ statement[b] = "store" -> [s EXCEPT !.range = [lo |-> 0, hi |-> 0]]
      [] analysis = "range-analysis" /\ statement[b] = "other" -> [s EXCEPT !.range = Increment(@)]

\* The Join of a domain, and whether it says that the state has changed.
Joined_Mut(s, t) ==
    IF analysis = "range-analysis" THEN [s EXCEPT !.reachable = TRUE, !.range = t.range]
    ELSE [s EXCEPT !.reachable = TRUE, !.bit = @ /\ t.bit, !.pos = @ \cup t.pos]
Joined(s, t) ==
    CASE analysis = "range-analysis" /\ ~s.reachable -> t
      [] analysis = "range-analysis" /\ s.reachable ->
            [s EXCEPT !.range = [lo |-> IF @.lo <= t.range.lo THEN @.lo ELSE t.range.lo,
                                 hi |-> IF @.hi >= t.range.hi THEN @.hi ELSE t.range.hi]]
      [] analysis # "range-analysis" ->
            [s EXCEPT !.reachable = TRUE, !.bit = @ \/ t.bit, !.pos = @ \cup t.pos]

\* State::Join notices that a block is reached for the first time, GenKillDomain
\* sees its bits only; MaybeUninitDomain leaves its places to it.
HasChanged_Mut(s, t) == ~s.reachable
HasChanged(s, t) ==
    IF analysis = "range-analysis" THEN Joined(s, t) # s ELSE Joined(s, t).bit # s.bit

-----------------------------------------------------------------------------
(* The worklist.                                                           *)

\* TopologicalSort: reverse post-order.  The block on top of the stack visits its
\* last successor not seen yet; when there is none it goes to the front of the order.
Visit(succ, s) ==
    LET block == Last(s.stack)
        unseen == {i \in DOMAIN succ[block] : succ[block][i] \notin ToSet(s.stack) \cup ToSet(s.order)}
        last == CHOOSE i \in unseen : \A j \in unseen : j <= i
    IN CASE s.stack = <<>> -> s
         [] s.stack # <<>> /\ unseen # {} -> [s EXCEPT !.stack = Append(@, succ[block][last])]
         [] s.stack # <<>> /\ unseen = {} -> [stack |-> Front(s.stack), order |-> <<block>> \o s.order]
TopologicalSort(succ) ==
    LET search[n \in 0..(2 * Size)] ==
            IF n = 0 THEN [stack |-> <<1>>, order |-> <<>>] ELSE Visit(succ, search[n - 1])
    IN search[2 * Size].order

MAX_INQUEUE_TIMES == 4

\* CheckInQueueTimes: the range analysis gives up on a block processed so often.
GivesUp_Mut(b) == FALSE
GivesUp(b) == analysis = "range-analysis" /\ inqueueTimes[b] + 1 >= MAX_INQUEUE_TIMES

\* HandleBranchTerminator, for a branch to the first successor if the variable is 0.
TargetSucc(s, b) ==
    LET undecided == {successors[b][i] : i \in DOMAIN successors[b]}
    IN IF analysis # "range-analysis" \/ ~tested \/ Len(successors[b]) < 2 \/ s.range = Top
       THEN undecided
       ELSE IF s.range.hi = 0 THEN {successors[b][1]}
       ELSE IF s.range.lo > 0 THEN {successors[b][2]}
       ELSE undecided

\* What a block sends to its successors, and to which.
ExitState(b) ==
    LET state == PropagateExpressionEffect(entrySets[b], b)
    IN IF GivesUp(b) THEN [state EXCEPT !.range = Top] ELSE state
Targets(b) ==
    IF GivesUp(b) THEN {successors[b][i] : i \in DOMAIN successors[b]}
    ELSE TargetSucc(PropagateExpressionEffect(entrySets[b], b), b)

\* A branch goes to one block or to two different ones, never back to the entry.
Branches == {<<b>> : b \in 2..Size} \cup {p \in (2..Size) \X (2..Size) : p[1] # p[2]}

Init ==
    /\ analysis \in Analyses
    /\ statement \in [Blocks -> Statements]
    /\ statement[1] = "none" /\ statement[Size] = "none"
    /\ \E f \in [1..(Size - 1) -> Branches] : successors = [b \in Blocks |-> IF b = Size THEN <<>> ELSE f[b]]
    /\ tested \in IF analysis = "range-analysis" THEN BOOLEAN ELSE {FALSE}
    /\ worklist = TopologicalSort(successors)
    /\ entrySets = [b \in Blocks |-> IF b = 1 THEN EntryState(analysis) ELSE Bottom]
    /\ inqueueTimes = [b \in Blocks |-> 0]

\* The blocks of a sequence that are in a set, in order.
Among(blocks, S) ==
    LET among[i \in 0..Len(blocks)] ==
            IF i = 0 THEN <<>>
            ELSE IF blocks[i] \in S THEN Append(among[i - 1], blocks[i]) ELSE among[i - 1]
    IN among[Len(blocks)]

\* One iteration of the loop.  A block not reached is dropped.
ProcessBlock ==
    /\ worklist # <<>>
    /\ LET b == Head(worklist)
           changed == {c \in Targets(b) : HasChanged(entrySets[c], ExitState(b))}
           waiting == ToSet(Tail(worklist))
       IN IF ~entrySets[b].reachable
          THEN /\ worklist' = Tail(worklist)
               /\ UNCHANGED <<entrySets, inqueueTimes>>
          ELSE /\ entrySets' = [c \in Blocks |-> IF c \in Targets(b) THEN Joined(entrySets[c], ExitState(b))
                                                 ELSE entrySets[c]]
               /\ worklist' = Tail(worklist)
                              \o Among(successors[b], changed \ waiting)
               /\ inqueueTimes' = [inqueueTimes EXCEPT ![b] = @ + 1]
    /\ UNCHANGED program

Next == ProcessBlock
Spec == Init /\ [][Next]_vars

-----------------------------------------------------------------------------
(* What the function does: a configuration is a block about to run and the *)
(* value of the variable, -1 while it is not initialised.                  *)

Runs(c) ==
    LET b == c[1]
        v == CASE statement[b] = "none" -> c[2]
               [] statement[b] = "store" -> 0
               [] statement[b] = "other" /\ analysis # "range-analysis" -> -1
               [] statement[b] = "other" /\ analysis = "range-analysis" ->
                     IF c[2] = Largest THEN 0 ELSE c[2] + 1
        taken == IF ~tested \/ Len(successors[b]) < 2 THEN DOMAIN successors[b]
                 ELSE IF v = 0 THEN {1} ELSE {2}
    IN {<<successors[b][i], v>> : i \in taken}

Reached ==
    LET start == {<<1, IF analysis = "range-analysis" THEN 0 ELSE -1>>}
        reach[n \in 0..(Size * (Largest + 2))] ==
            IF n = 0 THEN start
            ELSE LET before == reach[n - 1] IN before \cup UNION {Runs(c) : c \in before}
    IN reach[Size * (Largest + 2)]

Done == worklist = <<>>
At(b) == {c \in Reached : c[1] = b}

\* The gen-kill analyses end with the exact answer: a bit is set when some path
\* through the branches gives the variable that state (GenKillDomain::Join).
BitsExact ==
    Done /\ analysis # "range-analysis" =>
        \A b \in Blocks :
            /\ entrySets[b].reachable <=> At(b) # {}
            /\ entrySets[b].bit <=> \E c \in At(b) : (c[2] = -1) = (analysis = "maybe-uninit")

\* The range analysis ends with ranges that hold on every path, also when it
\* gave up on a block, and calls no block unreachable that runs.
RangesSound ==
    Done /\ analysis = "range-analysis" =>
        \A b \in Blocks : \A c \in At(b) :
            /\ entrySets[b].reachable
            /\ c[2] \in entrySets[b].range.lo..entrySets[b].range.hi

\* In reverse post-order a block comes before its successors, unless there is a loop.
LoopFree ==
    LET order == TopologicalSort(successors)
    IN \A i \in DOMAIN order : \A c \in ToSet(successors[order[i]]) : c \notin {order[j] : j \in 1..i}

\* A block whose state changed is processed again: without work left the states
\* satisfy the equations of the analysis, those for the places when the function has
\* no loop (GenKillDomain::Join does not report them).
FixpointReached ==
    Done => \A b \in Blocks : entrySets[b].reachable =>
        \A c \in TargetSucc(PropagateExpressionEffect(entrySets[b], b), b) :
            LET s == PropagateExpressionEffect(entrySets[b], b)
                joined == Joined(entrySets[c], s)
            IN /\ joined.bit = entrySets[c].bit /\ joined.range = entrySets[c].range
               /\ entrySets[c].reachable
               /\ LoopFree => joined.pos = entrySets[c].pos

\* The loop ends soon, however wide the type of the variable is: what a block sends
\* changes a successor once for each visit before it gives up, and once more for all
\* that give up (CheckInQueueTimes); a gen-kill state changes once for its bit.
FewVisits ==
    \A b \in Blocks :
        LET predecessors == {p \in Blocks : \E i \in DOMAIN successors[p] : successors[p][i] = b}
        IN inqueueTimes[b] <= IF analysis = "range-analysis"
                              THEN (MAX_INQUEUE_TIMES - 1) * Cardinality(predecessors) + 1
                              ELSE 2
=============================================================================
