SPECIFICATION Spec
CONSTANTS
    Customers <- MCCustomers
    AllowList = {"km"}
    Digits <- MCDigits
    Data <- MCData
    Counts <- MCCounts
    Scopes <- MCScopes
    AtRisk = {1}
    Replies <- MCReplies
INVARIANTS
    NumbersComeFromTheData
CHECK_DEADLOCK FALSE
