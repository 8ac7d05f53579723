\* One dispatch whose agents ask while the tick, closeouts and an answer run.
CONSTANTS
    d1 = d1
    d2 = d2
    q1 = q1
    q2 = q2
    q3 = q3
    c1 = c1
    c2 = c2
    a1 = a1
    a2 = a2
    None = None
    Nobody = Nobody
    Dispatches <- MCOne
    Queries <- MCTwoQ
    Questions <- MCQuestion
    Answerers <- MCOneA
    NumLanes = 1
    Cap <- CapOne
    MaxAttempts = 2
    StartBudget = 2
    AttemptBound = 2
    Direct = {}
    AgentOutcomes = {"completed"}
    LookupMayFail = FALSE
SPECIFICATION ClarificationSpec
SYMMETRY Symmetry
INVARIANTS ClarificationTypeOK PausedIsAnswerable OneTalkPerAttempt
PROPERTIES AttemptsMoveWithClaims ReopenedByHandlersUnderWay
