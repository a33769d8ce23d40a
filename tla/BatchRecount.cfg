SPECIFICATION Spec
CONSTANTS
    Pools <- MCPools
    Names <- MCNames
    Invalid = {}
    Foreign = {}
    PoolOf <- MCPoolOf
    Requests <- MCRequests
    NoRequest = NoRequest
    MaxNames = 2
    MaxPools = 2
    AdminPools = {}
    ForgedPools = {}
    DirectAnnotate = TRUE
    Lag = FALSE
    FaultsPerReconcile = 1
    MaxDisruptions = 1
    MaxMoves = 2
INVARIANTS
    CountedOnce
CHECK_DEADLOCK FALSE
