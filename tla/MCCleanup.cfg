SPECIFICATION FairSpec
CONSTANTS
    Turns = {t1, t2}
    None = None
    MaxFaults = 1
CHECK_DEADLOCK FALSE
INVARIANT CleanupBeforeSettling
