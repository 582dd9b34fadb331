\* Four overlapping requests, any of which may die.
SPECIFICATION Spec
CONSTANTS
    e1 = e1
    e2 = e2
    e3 = e3
    v1 = v1
    v2 = v2
    v3 = v3
    v4 = v4
    Free = Free
    Items = {e1, e2, e3}
    Confident <- Sure
    Asks <- MCAsks
    Requests = {v1, v2, v3, v4}
    BULK_APPROVE_MAX = 2
    MayFail = TRUE
    MaxId = 8
INVARIANTS
    TypeOK
    StatusIsLastDecision
    ConflictMeansDecided
    DoneMeansDecided
SYMMETRY
    Symmetric
CHECK_DEADLOCK FALSE
