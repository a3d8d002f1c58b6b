SPECIFICATION Spec
CONSTANTS
    Task <- MCTask
    Dispatch = {1, 2}
    Request = {1, 2}
    Shared <- MCShared
    MaxWorkers = 2
    MaxUpsets = 1
INVARIANT TypeOK
INVARIANT LiveWorkersApart
INVARIANT AuthoritySaved
INVARIANT OwnOutcome
INVARIANT NoUncheckedResult
INVARIANT DelegatedOnce
INVARIANT NoLostWakeup
INVARIANT CancellingIsStopped
CONSTRAINT NotOvertaken
CHECK_DEADLOCK FALSE
