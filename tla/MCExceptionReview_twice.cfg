\* Three overlapping requests.
SPECIFICATION Spec
CONSTANTS
    e1 = e1
    e2 = e2
    e3 = e3
    v1 = v1
    v2 = v2
    v3 = v3
    Free = Free
    Items = {e1, e2, e3}
    Confident <- Sure
    Asks <- MCAsks
    Requests = {v1, v2, v3}
    BULK_APPROVE_MAX = 2
    MayFail = FALSE
    MaxId = 6
INVARIANTS
    DecidedOnce
CHECK_DEADLOCK FALSE
