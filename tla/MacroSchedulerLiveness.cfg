SPECIFICATION FairSpec
CONSTANTS
    N = 4
    Roots = {3, 4}
    Forms = {"ok", "evalFail", "annotation", "badEscape"}
    ThreadNum = 2
    WeakMemory = TRUE
PROPERTY Terminates
