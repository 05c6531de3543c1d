CONSTANTS
    r1 = r1
    r2 = r2
    r3 = r3
    r4 = r4
    s1 = s1
    None = None
    Sessions = {s1}
    Requests = {r1, r2, r3}
    MaxWorkers = 1
    MaxQueueSize = 1
    LivenessKnown = FALSE
    Ops = {"restart"}
SPECIFICATION FairSpec
INVARIANTS
    OneProcessPerSession
PROPERTIES
    QueueServed
CHECK_DEADLOCK FALSE
