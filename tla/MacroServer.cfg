SPECIFICATION FairSpec
CONSTANTS
    N = 3
    ThreadNum = 3
    HasLibs = TRUE
    SameKey = {}
    NotFound = {2}
    Failing = {3}
    Big = {1}
    Cap = 2
    MaxRounds = 2
    MaxCrashes = 1
    MaySignal = TRUE
INVARIANTS OwnResult NoStrayResult ServerNeverStarved FailsWithCause
PROPERTIES EvaluationEnds ShutdownEnds
