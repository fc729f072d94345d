SPECIFICATION Spec
CONSTANTS
    Package = {p1, p2, p3, p4}
    MaxImports = 2
SYMMETRY Symmetry
INVARIANTS DependenciesFirst ResultCorrect
