SPECIFICATION FairSpec
CONSTANTS
    Suites <- MCTwo
    Checks <- MCOne
    SuiteOf <- MCOneOf
    HistoryMax = 2
    Batches = TRUE
    MaxTime = 3
    MaxMoves = 1
    MaxDisruptions = 1
INVARIANTS
    DiffHonest
    UniformWhileStamped
PROPERTIES
    BaseIsScanBefore
    ScoresFrozen
    ScansRecorded
CHECK_DEADLOCK FALSE
