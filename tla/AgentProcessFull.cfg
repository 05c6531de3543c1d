CONSTANTS
    r1 = r1
    r2 = r2
    r3 = r3
    m1 = m1
    m2 = m2
    m3 = m3
    Requests = {r1, r2}
    Messages = {m1, m2}
    NoRequest = NoRequest
    Tool <- MCTool
    Rule <- MCRule
    Modes = {"default", "bypassPermissions"}
    Providers = {"claude", "codex"}
    LivenessKnown = FALSE
    Ops = {"hold", "kill", "fail"}
SPECIFICATION Spec
INVARIANTS
    TypeOK
    ApprovalBookkeeping
    NoCallForgotten
    FirstIsHead
    HoldStopsLoop
    NoLostWakeup
    IdleIsReaped
    MessagesKeptOnce
    IdleIsQuiet
PROPERTIES
    AnswersAreFinal
    NeverIdleOverDeferred
CHECK_DEADLOCK FALSE
