SPECIFICATION FairSpec
CONSTANTS
    N = 6
    Ends = {1, 4, 6}
    Internal = {6}
    Twins = {}
    Jobs = 2
INVARIANTS SlotsBalanced BatchBarrier SuccessMeansAll
PROPERTIES FailureStops ExecuteEnds
