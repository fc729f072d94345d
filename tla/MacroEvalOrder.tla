--------------------------- MODULE MacroEvalOrder ---------------------------
(***************************************************************************)
(* What the author of a macro may rely on, without slots, lists or passes: *)
(* a call is invoked at most once, after every call nested in its          *)
(* arguments has been expanded, its arguments do not change while it runs, *)
(* a failure is final, and at most width calls run at a time.              *)
(***************************************************************************)
EXTENDS Integers, FiniteSets

CONSTANT Call

VARIABLES
    width,      \* the calls that may run at the same time
    phase,      \* of each call: unborn, waiting, running, expanded or failed
    below       \* the calls nested in the arguments, or in the result, of each

Init ==
    /\ width \in Nat \ {0}
    /\ phase = [c \in Call |-> "unborn"]
    /\ below = [c \in Call |-> {}]

\* The changes a step may make to the phase of one call.
Appears(c) == phase[c] = "unborn" /\ phase'[c] \in {"waiting", "failed"}

Runs(c) ==
    /\ phase[c] = "waiting" /\ phase'[c] = "running"
    /\ \A d \in below[c] : phase[d] = "expanded"

Returns(c) == phase[c] = "running" /\ phase'[c] \in {"expanded", "failed"}

\* Built-in macros, annotations and interpolated strings are not invoked.
ExpandsInPlace(c) == phase[c] = "waiting" /\ phase'[c] = "expanded"

\* A call fails without having run, or loses its expansion, because of a call
\* below it, because its own arguments do not parse, or with everything else.
Fails(c) == phase[c] \in {"waiting", "expanded"} /\ phase'[c] = "failed"

Next ==
    /\ phase' \in [Call -> {"unborn", "waiting", "running", "expanded", "failed"}]
    /\ \A c \in Call : \/ phase'[c] = phase[c]
                       \/ Appears(c) \/ Runs(c) \/ Returns(c)
                       \/ ExpandsInPlace(c) \/ Fails(c)
    /\ \A c \in Call : phase[c] = "running" => below'[c] = below[c]
    /\ Cardinality({c \in Call : phase'[c] = "running"}) <= width
    /\ UNCHANGED width

Spec == Init /\ [][Next]_<<width, phase, below>>
=============================================================================
