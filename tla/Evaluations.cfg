SPECIFICATION FairSpec
CONSTANTS
    NoList = NoList
    NoCase = NoCase
    NoSpec = NoSpec
    Runs = {r1}
    Cases = {c1, c2}
    Specs <- MCSpecs
    Outcomes <- MCOutcomes
    Thresholds <- MCThresholds
    LiveProviders = FALSE
    MaxReplays = 1
    MaxResults = 2
    MaxEdits = 1
INVARIANTS
    FinalizedIsComplete
    ScoredAgainstSnapshot
    GateMeansPassed
PROPERTIES
    EndedFrozen
    EveryEvaluationEnds
CHECK_DEADLOCK FALSE
