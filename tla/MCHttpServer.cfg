CONSTANTS
    Workers = {w1, w2}
    Sockets = {s1, s2}
    Plugins = {p}
    Methods = {Get}
    Get = Get
    None = None
    MaxQueue = 1
    MaxOutbox = 2
    MaxPushes = 3
    MaxListens = 2
SPECIFICATION ServerSpec
INVARIANT ServerConsistent
INVARIANT StreamInOrder
PROPERTY KeepsLedger
PROPERTY ParkedIsAnswered
PROPERTY StopEnds
CHECK_DEADLOCK FALSE
