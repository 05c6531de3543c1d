CONSTANTS
    r1 = r1
    r2 = r2
    r3 = r3
    r4 = r4
    s1 = s1
    None = None
    Sessions = {s1}
    Requests = {r1, r2, r3, r4}
    MaxWorkers = 2
    MaxQueueSize = 1
    LivenessKnown = TRUE
    Ops = {"overlap", "restart", "earlyDeath"}
SPECIFICATION Spec
INVARIANTS
    TypeOK
    MappingSound
    NoQueueStall
    QueueAccurate
CHECK_DEADLOCK FALSE
SYMMETRY Symmetry
