SPECIFICATION Spec
CONSTANTS
    MaxInvestigations = 1
    Worker = worker
    Requests = {r1, r2}
    MaxSteps = 2
    MaxProposed = 1
    MaxAnswers = 2
    MaxKills = 0
INVARIANTS
    ApprovedActionsRunOnce
CHECK_DEADLOCK FALSE
