SPECIFICATION FairSpec
CONSTANTS
    QueueSize = 3
    BodySize = 7
    MaxRetries = 2
INVARIANTS CompleteIsWhole FreedIsSafe
PROPERTIES RetryIsInvisible EveryRequestEnds
CHECK_DEADLOCK FALSE
