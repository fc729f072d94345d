SPECIFICATION FairSpec
CONSTANTS
    N = 3
    ByTool = {2, 3}
    OnMain = {sigint}
    Beside = {crash1, crash2}
    Main = main
INVARIANTS OneDeleter ExitClean
PROPERTY ProcessExits
