SPECIFICATION PartsSpec
CONSTANTS
    Profiles <- MCProfiles
    Others <- MCOthers
    Valid <- MCValid
    Default = "daily"
    MaxMoves = 2
    MaxDisruptions = 2
    PluginOthers = {"o1"}
    Attempts = 2
    PluginMoves = 2
    PluginDisruptions = 1
    DefaultMoves = 3
    DefaultDisruptions = 2
    Handshakes = {"h1", "h2"}
    Rotations = 3
    Corrupt = {2}
    MaxGaps = 1
INVARIANTS
    OwnedAreSelected
    ConfiguredIsSound
    NothingOlder
PROPERTIES
    KeepsOthers
    GoneStaysGone
    Settles
CHECK_DEADLOCK FALSE
