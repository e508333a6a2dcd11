CONSTANTS
    MaxItems = 3
    MaxTasks = 2
SPECIFICATION FairSpec
INVARIANTS
    TypeOK
    FinishedMeansCounted
    NeverMissing
    OwnErrorFirst
PROPERTIES
    PromiseKept
    CallEndsUnlessLost
CHECK_DEADLOCK FALSE
