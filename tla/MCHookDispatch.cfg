CONSTANTS
    Plugins = {p1, p2}
    EngineEvents = {spawn}
    CustomEvents = {shop}
    Ids = {a}
    Refs = {r1, r2, r3}
    NoRef = NoRef
    NoPlugin = NoPlugin
    Free = Free
    MaxHandlers = 4
    MaxDepth = 3
SPECIFICATION Spec
SYMMETRY MCSymmetry
INVARIANT Consistent
INVARIANT NobodySkipped
PROPERTY ListsOnlyGrowUnderWalk
