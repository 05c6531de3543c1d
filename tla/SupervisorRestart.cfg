CONSTANTS
    r1 = r1
    r2 = r2
    r3 = r3
    r4 = r4
    s1 = s1
    None = None
    Sessions = {s1}
    Requests = {r1, r2}
    MaxWorkers = 0
    MaxQueueSize = 0
    LivenessKnown = TRUE
    Ops = {"restart"}
SPECIFICATION Spec
PROPERTIES
    DeliveredToOwned
CHECK_DEADLOCK FALSE
