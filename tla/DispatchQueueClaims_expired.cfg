\* An actively producing second attempt is judged by the first one's query.
CONSTANTS
    d1 = d1
    d2 = d2
    q1 = q1
    q2 = q2
    q3 = q3
    None = None
    Dispatches <- MCOne
    Queries <- MCTwoQ
    NumLanes = 1
    Cap <- CapOne
    MaxAttempts = 3
    StartBudget = 3
    AttemptBound = 3
    Direct = {}
    AgentOutcomes = {"completed", "failed"}
    LookupMayFail = FALSE
SPECIFICATION Spec
PROPERTIES ActiveWorkNotExpired
