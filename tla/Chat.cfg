SPECIFICATION Spec
CONSTANTS
    p1 = p1
    p2 = p2
    Posts = {p1, p2}
    Conversations = {c1, c2}
    None = none
    Customers <- MCCustomers
    AllowList = {"km"}
    Digits <- MCDigits
    Visible <- MCVisible
    Texts <- MCTexts
    Window = 2
    Tools = {"query_metric", "explain_signal", "create_task_draft",
             "propose_rule_change", "start_investigation"}
    MaxSteps <- MCMaxSteps
INVARIANTS
    CustomersWereNamed
    EffectsAreLogged
    CaptureFollowsTheMessage
    OnlySentenceStartersSurvive
SYMMETRY ConversationSymmetry
CHECK_DEADLOCK FALSE
