SPECIFICATION Spec
CONSTANTS
    CommandIds = {c1, c2}
    SessionIds = {s1, s2}
    Projects = {p1}
    CommandTypes = {"create", "send"}
    Requests = {}
    None = None
    MaxEvents = 1
    MaxUpdates = 1
    MaxFaults = 1
    MaxCrashes = 1
SYMMETRY Symmetry
CHECK_DEADLOCK FALSE
INVARIANTS
    SwitchExcludesTurns
    TaskPerRunningTurn
    LiveMirrorsStore
    HandedAtMostOnce
PROPERTIES
    OutputIsKept
    UserTitleIsKept
    ChangesTakeRevisions
    LedgerSpec
