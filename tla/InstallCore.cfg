SPECIFICATION FairSpec
CONSTANTS
    Versions <- MCVersions
    MaxMoves = 1
    MaxDisruptions = 1
PROPERTIES
    NoSecondInstall
    StallShows
    SourceInTheEnd
    ReportsInTheEnd
CHECK_DEADLOCK FALSE
