\* A payment settled under two UTRs, each shared with another payment.
SPECIFICATION Spec
CONSTANTS
    Orders <- MCOrders3
    Lines <- MCLines4
    Banks <- MCBanks
    PayIds <- MCKeys3
    Utrs <- MCKeys
    Batches <- MCChainBatches
    WindowDays = 5
    MaxCandidates = 20
    MaxSize = 6
INVARIANTS
    NoSharedMember
