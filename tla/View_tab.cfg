CONSTANTS
    NumTasks = 2
    MaxToggles = 2
    MaxAsks = 1
SPECIFICATION FairSpec
INVARIANTS
    TypeOK
    TableShowsTheSnapshot
PROPERTIES
    RowsKeepTheirPlace
    NeverBack
    AskIsServed
CHECK_DEADLOCK FALSE
