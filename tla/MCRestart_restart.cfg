CONSTANTS
    s1 = s1
    s2 = s2
    j1 = j1
    j2 = j2
    Slots = {s1}
    Jobs = {j1}
    SlotJob <- OneSlot
    MaxGen = 1
    MaxInc = 3
    MaxVersion = 1
    REPORT_ATTEMPTS = 3
    REPORT_RETRY_TIME_S = 1
    RESTART_CHECK_INTERVAL_S = 1
SPECIFICATION FairSpec
INVARIANTS
    TypeOK
    NoOldWorkerServes
    ServesPromisedCode
    OneRestartPerRequest
    AtMostOneLateClaim
PROPERTY WaitEnds
CHECK_DEADLOCK FALSE
