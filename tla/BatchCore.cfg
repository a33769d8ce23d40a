SPECIFICATION Spec
CONSTANTS
    Pools <- MCPools
    Names <- MCNames
    Invalid = {}
    Foreign = {}
    PoolOf <- MCPoolOf
    Requests <- MCRequests
    NoRequest = NoRequest
    MaxNames = 2
    MaxPools = 2
    AdminPools = {1}
    ForgedPools = {}
    DirectAnnotate = FALSE
    Lag = FALSE
    FaultsPerReconcile = 1
    MaxDisruptions = 2
    MaxMoves = 3
INVARIANTS
    PausesTracked
    CountedOnce
    AdminPausesKept
    GoneReleased
PROPERTIES
    GraceNeverRestarts
    LedgerKept
CHECK_DEADLOCK FALSE
