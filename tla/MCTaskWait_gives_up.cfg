CONSTANTS
    p = p
    c = c
    q1 = q1
    q2 = q2
    Tasks = {p, c}
    Queues = {q1, q2}
    QueuesOf <- Apart
    Parents <- Family
    Fetched = {p, c}
    Lists <- Single
    Policies = {"RAISE_AFTER_COMPLETED"}
    MaxCalls = 1
SPECIFICATION Spec
PROPERTY GivesUpOnlyHopeless
