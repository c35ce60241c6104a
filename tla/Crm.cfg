SPECIFICATION Spec
CONSTANTS
    Ids = {o1, o2}
    Users = {u1}
    c1 = c1
    c2 = c2
    rep = rep
    Customers = {c1, c2}
    Reps = {rep}
    AssignedTo <- MCAssignedTo
    Requests = {r1, r2}
    Bodies <- MCBodies
    Defaults <- MCDefaults
    Parts = 10000
    MaxHistory = 3
    None = none
SYMMETRY MCSymmetry
INVARIANTS
    HistoryEndsAtStage
    RepeatsNeedOverlap
    PipelineAgrees
CHECK_DEADLOCK FALSE
