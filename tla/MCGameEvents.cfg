CONSTANTS
    Plugins = {p, q}
    Nobody = nobody
    Chains = {"trace_attack", "throw_he", "cvar_direct_set"}
    MaxValue = 1
    MaxHandlers = 2
    MaxDepth = 2
    MaxStates = 1
SPECIFICATION GameSpec
SYMMETRY MCSymmetry
INVARIANT GameConsistent
INVARIANT GameGetsWhatWasLeft
PROPERTY DroppedOnlyOnDemand
CHECK_DEADLOCK FALSE
