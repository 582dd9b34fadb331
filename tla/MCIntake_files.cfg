\* Four drops for three sources, and a task that is delivered twice.
SPECIFICATION Spec
CONSTANTS
    Content <- MCContent
    Deliveries = {1, 2}
    MaxDrops = 4
    Limit = 100
CHECK_DEADLOCK FALSE
INVARIANTS
    TypeOK
    TransformsCoverTables
    UnaskedIsUsable
    InsertedOnce
    BlockingIsConfirmed
