SPECIFICATION SymbolSpec
CONSTANTS
    Width = 3
    MaxValues = 3
    Literals = {1, 3, 5, 7}
    AnySubtrahend = TRUE
    EqualMerges = FALSE
INVARIANT ComparisonsSound
CHECK_DEADLOCK FALSE
