SPECIFICATION Spec
CONSTANTS
    Block = {1, 2, 3}
    MaxTransfers = 2
    MaxRevision = 4
    MaxUpsets = 2
INVARIANT TypeOK
INVARIANT ShownWasStored
PROPERTY NeverBackward
PROPERTY Converges
CHECK_DEADLOCK FALSE
