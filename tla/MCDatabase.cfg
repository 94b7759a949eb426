CONSTANTS
    Plugins = {p, q}
    Names = {stats}
    StopsAtAbort = TRUE
    MaxDbs = 3
    MaxStmts = 1
    MaxWrites = 2
    MaxDepth = 2
    MaxStates = 2
SPECIFICATION Spec
SYMMETRY MCSymmetry
INVARIANT Consistent
INVARIANT BlockIsAtomic
CHECK_DEADLOCK FALSE
