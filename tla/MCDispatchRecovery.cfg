\* Two dispatches of one work: a refire races the recovery of the first, and both
\* compete for the retries of a pass, the scripts may find that the work landed, and
\* callers deliver the first dispatch off-process.
CONSTANTS
    d1 = d1
    d2 = d2
    q1 = q1
    q2 = q2
    None = None
    Dispatches <- MCTwo
    Queries <- MCNone
    NumLanes = 1
    Cap <- CapOne
    MaxAttempts = 1
    StartBudget = 1
    AttemptBound = 1
    Direct <- MCOne
    AgentOutcomes = {"failed"}
    LookupMayFail = FALSE
    KeyOf <- SameKey
    MaxRecoveries = 1
    LinkedRetries = 1
    RetryBudget = 1
    Landed <- MCTwo
SPECIFICATION RecoveryLiveSpec
INVARIANTS RecoveryBounded OneActivePerKey
PROPERTIES DoneStays RevivalsCounted FailuresTriaged
