SPECIFICATION Spec
CONSTANTS
    Pools <- MCPools
    Names <- MCMixedNames
    Invalid = {4}
    Foreign = {2}
    PoolOf <- MCMixedPoolOf
    Requests <- MCMixedRequests
    NoRequest = NoRequest
    MaxNames = 2
    MaxPools = 2
    AdminPools = {2}
    ForgedPools = {2}
    DirectAnnotate = TRUE
    Lag = TRUE
    FaultsPerReconcile = 1
    MaxDisruptions = 1
    MaxMoves = 2
INVARIANTS
    OnlyOwnedPools
PROPERTIES
    AppliesUnderPause
CHECK_DEADLOCK FALSE
