CONSTANTS
    Runs = {r1}
    ConversationRuns = {r1}
    Calls = {c1}
    Workers = {w1, w2}
    NoRun = NoRun
    Unknown = Unknown
    NoKey = NoKey
    MaxModelCalls = 3
    MaxRetryAttempts = 2
    MaxToolCalls = 2
    MaxRetries = 1
    AmbiguousCodes = {"tool_timeout"}
    MaxFaults = 2
SYMMETRY WorkerSymmetry
SPECIFICATION Spec
INVARIANTS
    ExclusiveOwner
    DecisionMatchesExecution
    HandlerAuthorized
    SlotBeforeHandler
PROPERTIES
    ImplementsLifecycle
CHECK_DEADLOCK FALSE
