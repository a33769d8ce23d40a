SPECIFICATION Spec
CONSTANTS
    Pools <- MCPools
    Names <- MCNames
    Invalid = {}
    Foreign = {}
    PoolOf <- MCPoolOf
    Requests <- MCRequests
    NoRequest = NoRequest
    MaxNames = 2
    MaxPools = 2
    AdminPools = {}
    ForgedPools = {}
    DirectAnnotate = TRUE
    Lag = TRUE
    FaultsPerReconcile = 0
    MaxDisruptions = 0
    MaxMoves = 3
INVARIANTS
    PausesTracked
CHECK_DEADLOCK FALSE
