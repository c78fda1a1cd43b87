SPECIFICATION Spec
CONSTANTS
    Outer = outer
    Resolves = {r1}
    Fetches = {f1, f2}
    Raws = {w1, w2}
    MaxDepth = 2
    MaxKeys = 1
    MaxRests = 1
INVARIANTS
    TypeOK
    RefsAreExact
    CrashOnlyAfterResolve
SYMMETRY Symmetry
CHECK_DEADLOCK FALSE
