CONSTANTS
    Runs = {r1}
    ConversationRuns = {r1}
    Calls = {c1}
    Workers = {w1, w2}
    NoRun = NoRun
    Unknown = Unknown
    NoKey = NoKey
    MaxModelCalls = 2
    MaxRetryAttempts = 2
    MaxToolCalls = 2
    MaxRetries = 0
    AmbiguousCodes = {"tool_timeout"}
    MaxFaults = 0
SPECIFICATION FairSpec
PROPERTY
    NoApprovedCallAfterCancel
CHECK_DEADLOCK FALSE
