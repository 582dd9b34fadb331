SPECIFICATION
    FairSpec
CONSTANTS
    f1 = f1
    f2 = f2
    f3 = f3
    NoRun = NoRun
    c1 = c1
    c2 = c2
    w1 = w1
    w2 = w2
    Uploads = {f1, f2, f3}
    Runs <- Overlapping
    Clients = {c1, c2}
    Workers = {w1, w2}
    Exceptions = 2
    Guarded <- Overlapping
    TriageAnswers = {"valid", "invalid", "unavailable"}
    ExplainAnswers = {"valid", "invalid", "unavailable"}
    Frail <- Second
    MaxDeliveries = 1
    MaxCancels = 1
INVARIANTS
    TypeOK
    TrailIsStateMachine
    CompletedIsWhole
    StoredTriageIsWhole
    FilesBelongToTheirRun
PROPERTIES
    ImmutableOnceEnded
    EveryRunEnds
    EarlyCancelStops
