CONSTANTS
    Absent = Absent
    BadName = BadName
    BadCron = BadCron
    MaxWaivers = 2
    MaxTailored = 2
    MaxNames = 2
    MaxCalls = 2
    MaxVersion = 4
    MaxTurns = 2
    Checks = {"c1", "c2"}
    NoCheck = NoCheck
    Rems = {"r1"}
    NodeRems = {"r1"}
    NoRem = NoRem
    Keys = {"k1"}
    Names = {"p1", "p2"}
    Specs = {"a", "b"}
    None = None
    MaxFetches = 2
    Crons = {"default", "weekly"}
    Default = "default"

SPECIFICATION MCSpec

CONSTRAINT Bounded

INVARIANTS
    BusyIsRequest
    RetryLands
    FormIsWanted
    BoundAsTyped
    WaiversSound

PROPERTIES
    WritesOptimistic
    InputKept
    BatchesDecided
    LastConfirmed

CHECK_DEADLOCK FALSE
