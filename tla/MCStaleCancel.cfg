SPECIFICATION FairSpec
CONSTANTS
    Turns = {t1, t2}
    None = None
    MaxFaults = 0
CHECK_DEADLOCK FALSE
INVARIANT CompletedTurnWasPrompted
