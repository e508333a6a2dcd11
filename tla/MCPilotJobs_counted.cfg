CONSTANTS
    g1 = g1
    Groups = {g1}
    MaxJobs = 1
    Workers = 1
SPECIFICATION Spec
INVARIANT CountsEveryJob
CHECK_DEADLOCK FALSE
