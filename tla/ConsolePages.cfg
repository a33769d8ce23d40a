CONSTANTS
    Absent = Absent
    BadName = BadName
    BadCron = BadCron
    MaxWaivers = 2
    MaxTailored = 2
    MaxNames = 2
    Scans = {"s1", "s2"}
    MaxClicks = 2
    MaxTurns = 2
    Objects = {"o1", "o2"}
    MaxSteps = 5
    Waived = {"n1", "n2"}
    Expiries = {3, 5, 9}
    Never = Never
    Unreadable = Unreadable
    Soon = 2
    TICK_PAD_MS = 1
    MAX_TIMEOUT_MS = 4
    MaxDrift = 1
    Horizon = 12
    Checks = {"c1", ""}
    NoName = ""
    Rows <- MCRows
    Tips = {50}
    Changed = {"c1", "c2", ""}
    CHANGES_RENDER_LIMIT = 1
    MaxChanges = 2
    MaxApart = 3
    Times = {1, 2}
    Scores <- MCScores
    Unit = 10
    MaxPoints = 3
    Rems = {1, 2}
    Rendered <- MCRendered
    States = {"NotApplied", "Applied", "MissingDependencies", "new"}
    batchApplyMaxNames = 1
    Rules = {1, 2}
    BadRule = 0
    Bases = {"cis", "e8"}
    DEFAULT_BASE_PROFILE = "cis"
    ForeignLists <- MCForeignLists
    RULE_OPTION_CAP = 1
    MaxEdits = 1
    Chars = {"s", "1", ":", "0"}
    Digits = {"1"}
    Numeral <- MCNumeral
    MaxText = 2
    MaxList = 2

SPECIFICATION Spec

CONSTRAINT TipsWhereRead

INVARIANTS
    SaysWhatIs
    ShownIsCurrent
    NumbersAgree
    FormKeepsWord

PROPERTIES
    RescansLand
    FocusNotStolen

CHECK_DEADLOCK FALSE
