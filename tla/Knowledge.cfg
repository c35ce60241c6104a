SPECIFICATION Spec
CONSTANTS
    Customers = {c1}
    Nobody = Nobody
    Mentions = {m}
    NoMention = NoMention
    Ambiguous = {m}
    Slots = {s}
    Captures <- FewCaptures
    Requests = {r1}
    MaxRecords = 3
    MaxQuestions = 2
INVARIANTS
    OneActivePerSlot
    ChainsEnd
    ConsequentialIsConfirmed
    QuestionsStayOpen
