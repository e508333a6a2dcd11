CONSTANTS
    s1 = s1
    s2 = s2
    j1 = j1
    j2 = j2
    Slots = {s1, s2}
    Jobs = {j1, j2}
    SlotJob <- TwoJobs
    MaxGen = 1
    MaxInc = 2
    MaxVersion = 0
    REPORT_ATTEMPTS = 3
    REPORT_RETRY_TIME_S = 1
    RESTART_CHECK_INTERVAL_S = 1
SPECIFICATION Spec
PROPERTIES
    EveryClaimIsNew
CHECK_DEADLOCK FALSE
