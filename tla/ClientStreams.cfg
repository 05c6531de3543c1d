CONSTANTS
    p1 = p1
    p2 = p2
    s1 = s1
    s2 = s2
    s3 = s3
    s4 = s4
    b1 = b1
    b2 = b2
    b3 = b3
    b4 = b4
    t1 = t1
    t2 = t2
    t3 = t3
    t4 = t4
    AttemptIds = {p1, p2}
    Sockets = {s1, s2, s3, s4}
    BusSubs = {b1, b2, b3, b4}
    StreamSubs = {t1, t2, t3, t4}
    None = None
    MaxAttempts = 1
    MaxForced = 1
    MaxPings = 0
    MaxCloses = 1
    MaxUser = 2
SPECIFICATION FairStreams
INVARIANTS
    HeldIsRegistered
    OneStream
PROPERTIES
    StreamsComeBack
CHECK_DEADLOCK FALSE
