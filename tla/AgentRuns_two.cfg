CONSTANTS
    Runs = {r1, r2}
    ConversationRuns = {r1, r2}
    Calls = {c1}
    Workers = {w1, w2}
    NoRun = NoRun
    Unknown = Unknown
    NoKey = NoKey
    MaxModelCalls = 2
    MaxRetryAttempts = 2
    MaxToolCalls = 1
    MaxRetries = 0
    AmbiguousCodes = {"tool_timeout"}
    MaxFaults = 0
SYMMETRY RunSymmetry
SPECIFICATION Spec
INVARIANTS
    NoOrphanHandoff
    HandlerAuthorized
    WaitingRunWakeable
CHECK_DEADLOCK FALSE
