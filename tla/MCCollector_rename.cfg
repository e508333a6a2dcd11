CONSTANTS
    Runs <- JustTasks
    MaxNames = 2
    MaxWaits = 1
    MaxCount = 1
SPECIFICATION Spec
INVARIANT NameIsCurrent
CHECK_DEADLOCK FALSE
