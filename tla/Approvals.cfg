SPECIFICATION Spec
CONSTANTS
    Requests = {r1, r2}
    Names = {metric}
    MaxWeeks = 2
    MaxTasks = 2
    MaxMetrics = 1
    MaxDecisions = 4
INVARIANTS
    StatusIsDecided
    UndoRevertsAnApproval
    OneMessagePerTask
PROPERTIES
    MessagesAreGated
    MetricsAreGated
SYMMETRY RequestSymmetry
CHECK_DEADLOCK FALSE
