SPECIFICATION Spec
CONSTANTS
    Tab = {1, 2}
    Text = {1, 2}
    Id = {1, 2, 3}
    Create = {101, 102, 103}
    MaxUpsets = 4
INVARIANT TypeOK
INVARIANT PromptRunsOnce
INVARIANT RunsWhereMeant
INVARIANT KeptUntilKnown
INVARIANT OfferedForRetry
CHECK_DEADLOCK FALSE
