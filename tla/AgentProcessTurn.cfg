CONSTANTS
    r1 = r1
    r2 = r2
    r3 = r3
    m1 = m1
    m2 = m2
    m3 = m3
    Requests = {r1, r2, r3}
    Messages = {m1, m2}
    NoRequest = NoRequest
    Tool <- MCTool
    Rule <- MCRule
    Modes = {"default", "bypassPermissions"}
    Providers = {"codex", "gemini-acp"}
    LivenessKnown = TRUE
    Ops = {}
SPECIFICATION FairSpec
INVARIANTS
    PromptIsOldest
PROPERTIES
    CallsAnswered
    DeferredSent
CHECK_DEADLOCK FALSE
