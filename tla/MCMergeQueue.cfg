\* Two requests, one of a higher rank, two drains and three attempts each.
CONSTANTS
    r1 = r1
    r2 = r2
    d1 = d1
    d2 = d2
    Nobody = Nobody
    Requests <- MCRequests
    Drains <- MCDrains
    Rank <- MCRank
    MaxAttempts = 3
SPECIFICATION LiveSpec
INVARIANTS MergeTypeOK PromotedOnce  FollowUpOnce
PROPERTIES RequestsResolve
