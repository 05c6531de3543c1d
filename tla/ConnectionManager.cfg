CONSTANTS
    p1 = p1
    p2 = p2
    p3 = p3
    AttemptIds = {p1, p2, p3}
    None = None
    MaxAttempts = 2
    MaxForced = 2
    MaxPings = 2
SPECIFICATION FairSpec
INVARIANTS
    TypeOK
    ReconnectingIsDriven
    SettledIsQuiet
    ProbeIsTimed
    GivingUpIsReported
PROPERTIES
    OnlyCurrentOutcomeCounts
    ReconnectingEnds
CHECK_DEADLOCK FALSE
