CONSTANTS
    Runs <- OnePartEach
    MaxNames = 1
    MaxWaits = 2
    MaxCount = 2
SPECIFICATION Spec
INVARIANTS
    TypeOK
    RowsAreTrue
    HolderIsNamed
PROPERTIES
    ProgressNeverBack
CHECK_DEADLOCK FALSE
