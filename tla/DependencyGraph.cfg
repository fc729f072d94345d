SPECIFICATION FairSpec
CONSTANTS
    Source = {s}
    NormalPackage = {n}
    MacroPackage = {m1, m2}
    Missing = missing
    MaxImports = 3
INVARIANTS NoReentry EdgesComplete NamesCorrect DirectCorrect
PROPERTY QueriesReturn
