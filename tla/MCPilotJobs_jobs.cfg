CONSTANTS
    g1 = g1
    Groups = {g1}
    MaxJobs = 2
    Workers = 2
SPECIFICATION Spec
INVARIANTS
    TypeOK
    NoLeakWithoutFault
    ExitAfterWorkers
PROPERTY NamesAreFresh
CHECK_DEADLOCK FALSE
