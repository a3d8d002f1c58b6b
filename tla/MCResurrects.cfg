SPECIFICATION Spec
CONSTANTS
    Task <- MCTask
    Dispatch = {1, 2}
    Request = {1, 2}
    Shared <- MCShared
    MaxWorkers = 2
    MaxUpsets = 1
PROPERTY SettledStaysSettled
CHECK_DEADLOCK FALSE
