CONSTANTS
    Workers = {w1, w2}
    Plugins = {p}
    None = None
    m1 = m1
    Migrations = {m1}
    Batches <- MCBatches
    MaxConns = 2
    MaxRequests = 2
    MaxGenerations = 2
SPECIFICATION Spec
INVARIANT Consistent
INVARIANT MigratedOnce
PROPERTY KeepsLedger
PROPERTY GameThreadGoesOn
CHECK_DEADLOCK FALSE
