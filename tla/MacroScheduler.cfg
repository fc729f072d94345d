SPECIFICATION Spec
CONSTANTS
    N = 4
    Roots = {4}
    Forms = {"ok", "evalFail", "parseFail", "builtin", "annotation", "interpolation", "undeclared", "badEscape"}
    ThreadNum = 2
    WeakMemory = FALSE
INVARIANTS SlotsOwned CounterCoversRunning ArgumentsComplete ScheduleIndependent NothingDropped SuccessMeansEvaluated
PROPERTY OrderSpec
