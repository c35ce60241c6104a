SPECIFICATION FairSpec
CONSTANTS
    Requests = {q1, q2}
    narration = narration
    audit = audit
    Roles <- MCRoles
    DefaultTiers <- MCDefaultTiers
    MaxAttempts = 2
    Confidences = {40, 60, 90}
    NoConfidence = none
    IllTyped = illtyped
    Patches <- MCPatches
    MaxPatches = 1
INVARIANTS
    EffortIsBounded
    EveryCallIsAccounted
    RoutesAreAStaircase
PROPERTIES
    OnlyValidatedOutput
    EveryQuestionEnds
CHECK_DEADLOCK FALSE
