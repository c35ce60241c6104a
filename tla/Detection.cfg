SPECIFICATION FairSpec
CONSTANTS
    Keys = {k1, k2}
    Standing = {k1}
    Rules = {narrow}
    Scopes <- NarrowOrWide
    Taskers = {daily}
    Admins = {admin}
    TaskMoves = {"dismissed"}
    MaxDismissals = 2
INVARIANTS
    OneOpenSignalPerKey
    OneTaskPerSignal
    SuppressionIsExplained
PROPERTIES
    StandingKeysAreHandled
