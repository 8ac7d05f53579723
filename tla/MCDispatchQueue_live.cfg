\* One dispatch over two lanes with fallback between them, under the fairness of the
\* interval timer, whose agents end unfinished, hit the session limit or never end.
CONSTANTS
    d1 = d1
    d2 = d2
    q1 = q1
    q2 = q2
    q3 = q3
    None = None
    Dispatches <- MCOne
    Queries <- MCTwoQ
    NumLanes = 2
    Cap <- CapOne
    MaxAttempts = 2
    StartBudget = 2
    AttemptBound = 2
    Direct = {}
    AgentOutcomes = {"limited", "waiting"}
    LookupMayFail = FALSE
SPECIFICATION LiveSpec
PROPERTIES ClaimsResolve
