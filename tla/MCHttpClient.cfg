CONSTANTS
    Workers = {w1, w2}
    Plugins = {p, q}
    Refs = {r1, r2}
    NoRef = NoRef
    Free = Free
    None = None
    MaxRequests = 2
    MaxGenerations = 2
SPECIFICATION HttpSpec
INVARIANT HttpConsistent
PROPERTY KeepsLedger
PROPERTY EveryAskSettles
PROPERTY ShutdownEnds
CHECK_DEADLOCK FALSE
