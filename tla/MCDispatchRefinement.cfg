\* Two dispatches, one of them also delivered off-process, for one slot.
CONSTANTS
    d1 = d1
    d2 = d2
    q1 = q1
    q2 = q2
    q3 = q3
    None = None
    Dispatches <- MCTwo
    Queries = {q1}
    NumLanes = 1
    Cap <- CapOne
    MaxAttempts = 2
    StartBudget = 2
    AttemptBound = 2
    Direct = {d1}
    AgentOutcomes = {"completed", "failed"}
    LookupMayFail = TRUE
SPECIFICATION Spec
INVARIANTS SlotsBounded 
PROPERTIES KeepsPromise
