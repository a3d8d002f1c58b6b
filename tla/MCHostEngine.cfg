SPECIFICATION Spec
CONSTANTS
    CommandIds = {c1, c2, c3}
    SessionIds = {s1}
    Projects = {p1}
    CommandTypes = {"send", "draft", "removeDraft", "cancel", "approve", "answer"}
    Requests = {q1}
    None = None
    MaxEvents = 2
    MaxUpdates = 0
    MaxFaults = 1
    MaxCrashes = 0
SYMMETRY Symmetry
CHECK_DEADLOCK FALSE
INVARIANTS
    TypeOK
    PromptsRecordedOnce
    OpenItemsBelongToTurn
    RequestsAnsweredOnce
