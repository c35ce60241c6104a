SPECIFICATION FairSpec
CONSTANTS
    MaxInvestigations = 1
    Worker = worker
    Requests = {r1, r2}
    MaxSteps = 2
    MaxProposed = 1
    MaxAnswers = 2
    MaxKills = 1
INVARIANTS
    ActionsNeedApproval
    DecisionIsHonoured
    DoneIsComplete
PROPERTIES
    RunsSettleUnlessKilled
CHECK_DEADLOCK FALSE
