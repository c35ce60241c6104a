SPECIFICATION Spec
CONSTANTS
    Thresholds = {decline_ratio}
    NoThreshold = NoThreshold
    Values = {1, 2, 3}
    NoValue = NoValue
    Seed <- SeedValue
    Proposals <- ThresholdProposals
    ConfirmKinds = {"category", "threshold", "conditional"}
    NewScopes = {"category"}
    MaxEffect = 1
    MinHits = 2
    VolumeFactor = 2
    Levels = {0}
    MaxRules = 2
    MaxHits = 0
    MaxDecisions = 5
INVARIANTS
    LogExplainsConfig
    OldValuesChain
    StatusMatchesLog
    ClosingIsFinal
    NestedUndoRestores
CHECK_DEADLOCK FALSE
