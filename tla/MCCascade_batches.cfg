\* Batches with and without partial settlement, searches within and beyond every cap.
SPECIFICATION Spec
CONSTANTS
    Orders <- MCOrders
    Lines <- MCLines4
    Banks <- MCBanks3
    PayIds <- MCKeys
    Utrs <- MCKeys
    Batches <- MCBatches
    WindowDays = 5
    MaxCandidates = 3
    MaxSize = 2
INVARIANTS
    TypeOK
    WholeIsSound
    TiesAreKept
    LineBacksOneBank
    EvidenceTogether
    InferenceMarked
PROPERTIES
    T3MatchIsUnique
