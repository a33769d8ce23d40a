SPECIFICATION Spec
CONSTANTS
    Suites <- MCOne
    Checks <- MCOne
    SuiteOf <- MCOneOf
    HistoryMax = 2
    Batches = FALSE
    MaxTime = 2
    MaxMoves = 1
    MaxDisruptions = 1
INVARIANTS
    RingsUniform
CHECK_DEADLOCK FALSE
