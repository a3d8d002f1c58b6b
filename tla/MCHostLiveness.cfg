SPECIFICATION FairSpec
CONSTANTS
    CommandIds = {c1, c2}
    SessionIds = {s1}
    Projects = {p1}
    CommandTypes = {"send", "compact", "configure", "cancel"}
    Requests = {}
    None = None
    MaxEvents = 1
    MaxUpdates = 0
    MaxFaults = 2
    MaxCrashes = 1
CHECK_DEADLOCK FALSE
PROPERTIES
    EndedTurnSettles
