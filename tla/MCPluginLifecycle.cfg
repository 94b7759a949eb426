CONSTANTS
    Names = {a, b}
    Installed = {a}
    NoPlugin = NoPlugin
    Careful = TRUE
    MaxLoads = 4
    MaxUnloads = 2
    MaxDepth = 4
SPECIFICATION Spec
INVARIANT Consistent
INVARIANT LoadedTellsTheTruth
PROPERTY HandlersInReverse
CHECK_DEADLOCK FALSE
