CONSTANTS
    Plugins = {p, q}
    Names = {x}
    NoName = NoName
    Refs = {r1, r2, r3}
    Free = Free
    Delays = {0, 1}
    FrameFirst = TRUE
    MaxTimers = 3
    MaxClock = 1
SPECIFICATION Spec
SYMMETRY MCSymmetry
INVARIANT Consistent
INVARIANT NothingDueBehind
PROPERTY ErrorKillsOnlyTheThrower
PROPERTY KeepsPromise
