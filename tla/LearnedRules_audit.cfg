SPECIFICATION Spec
CONSTANTS
    Thresholds = {}
    NoThreshold = NoThreshold
    Values = {1}
    NoValue = NoValue
    Seed <- SeedValue
    Proposals <- SuppressProposals
    ConfirmKinds = {"category", "threshold", "conditional"}
    NewScopes = {"category"}
    MaxEffect = 1
    MinHits = 2
    VolumeFactor = 2
    Levels = {0, 1, 2}
    MaxRules = 2
    MaxHits = 4
    MaxDecisions = 4
INVARIANTS
    AtMostOneOpenFlag
    ReflagOnlyWhenWorse
CHECK_DEADLOCK FALSE
