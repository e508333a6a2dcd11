CONSTANTS
    s1 = s1
    s2 = s2
    Slots = {s1, s2}
    AlwaysStarted <- JobOnly
    MaxGen = 1
SPECIFICATION FairSpec
INVARIANTS
    TypeOK
    MonitoredUnlessLost
    OneMonitorPerGeneration
    InfoBeforeSeries
PROPERTIES
    MonitoredAfterRestart
CHECK_DEADLOCK FALSE
