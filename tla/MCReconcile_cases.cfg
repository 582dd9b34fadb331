\* Synthetic batches and uploads from loading to metrics.
SPECIFICATION ReconcileSpec
CONSTANTS
    Orders <- MCOrders
    Lines <- MCLines
    Banks <- MCBanks
    PayIds <- MCKeys
    Utrs <- MCKeys
    Batches <- MCBatches
    Cases <- MCCases
    WindowDays = 5
    MaxCandidates = 20
    MaxSize = 6
    Instruments = {"upi", "emi"}
    CardLimit = 2000000
    FeeTolerance = 2
    Tolerance = 1
    IncidentSpan = 2
    MaxIncidents = 3
    Plans <- MCPlans
INVARIANTS
    ReconcileTypeOK
    WholeIsCommitted
    CleanIsReconciled
    BaselineIsNoBetter
    MissedOnlyByInference
    FalseLinksAreInferred
    EveryAlarmHasCause
