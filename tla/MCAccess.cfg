SPECIFICATION Spec
CONSTANTS
    Slots = {s}
    Maps = {de_dust, de_aztec}
    NoEntry = NoEntry
    NoCache = NoCache
    NoTable = NoTable
    Missing = Missing
    Cut = Cut
    Tables <- AllTables
    MaxTime = 2
    MaxChanges = 4
SYMMETRY MCSymmetry
INVARIANT Consistent
INVARIANT CacheIsCurrent
INVARIANT SaveLosesNothing
