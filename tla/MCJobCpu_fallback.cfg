CONSTANTS
    w = w
    p = p
    Processes = {w, p}
    Sampler = w
    OwnTree = {w, p}
    Sources = {"tree"}
    MaxTime = 3
SPECIFICATION Spec
INVARIANT CpuIsWhatTheJobUsed
CHECK_DEADLOCK FALSE
