SPECIFICATION FairSpec
CONSTANTS
    Turns = {t1, t2, t3}
    None = None
    MaxFaults = 2
CHECK_DEADLOCK FALSE
INVARIANTS
    TypeOK
    OneProcessPerSession
PROPERTIES
    StopEndsTurn
