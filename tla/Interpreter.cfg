SPECIFICATION FairSpec
CONSTANTS
    Capacity = 2
    Jobs = {j1, j2, j3}
    MaxCancels = 2
    None = none
PROPERTIES ImplementsDesk DestroyReturns QueueMoves
CHECK_DEADLOCK FALSE
