SPECIFICATION
    Spec
CONSTANTS
    f1 = f1
    f2 = f2
    f3 = f3
    NoRun = NoRun
    c1 = c1
    w1 = w1
    w2 = w2
    Uploads = {f1, f2, f3}
    Runs <- Rivals
    Clients = {c1}
    Workers = {w1, w2}
    Exceptions = 1
    Guarded <- First
    TriageAnswers = {"valid", "invalid", "unavailable"}
    ExplainAnswers = {"valid", "invalid", "unavailable"}
    Frail <- Rivals
    MaxDeliveries = 2
    MaxCancels = 1
VIEW
    WithoutTrail
SYMMETRY
    Symmetric
INVARIANTS
    FinishedHasResults
