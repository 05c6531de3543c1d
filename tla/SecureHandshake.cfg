CONSTANTS
    s1 = s1
    s2 = s2
    x1 = x1
    x2 = x2
    x3 = x3
    Sockets = {s1, s2}
    SessionIds = {x1, x2, x3}
    None = None
    Passwords = {"none", "right"}
    MaxMishaps = 2
SPECIFICATION Spec
INVARIANTS
    KeysAgree
    AnswersHold
CHECK_DEADLOCK FALSE
