SPECIFICATION Spec
CONSTANTS
    Event = {e1}
    Grace = 0
    MaxHistory = 1
    MaxTime = 2
    MaxRuns = 3
    MaxUpsets = 2
INVARIANT TypeOK
INVARIANT ClaimedOnce
INVARIANT NoOccurrenceLost
 
INVARIANT RunsApart
INVARIANT EventKept
 
CHECK_DEADLOCK FALSE
