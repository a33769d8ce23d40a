SPECIFICATION Spec
CONSTANTS
    Versions <- MCVersions
    MaxMoves = 1
    MaxDisruptions = 1
INVARIANTS
    StallAfterGrace
CHECK_DEADLOCK FALSE
