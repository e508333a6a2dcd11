CONSTANTS
    p = p
    c = c
    q1 = q1
    q2 = q2
    Tasks = {p, c}
    Queues = {q1, q2}
    QueuesOf <- Shared
    Parents <- Family
    Fetched = {p, c}
    Lists <- Mixed
    Policies = {"RAISE_ON_FIRST_ERROR", "RAISE_AFTER_COMPLETED", "RAISE_NEVER"}
    MaxCalls = 2
SPECIFICATION FairSpec
INVARIANTS
    TypeOK
    EveryTaskHasOneFate
    OutputsAreHome
    StarvedRaisesFirst
PROPERTIES
    StrandedNeverFinishes
    PromiseKept
    CallEnds
    CallEndsWithTheTasks
