\* The code's caps; eight lines of one window.
SPECIFICATION Spec
CONSTANTS
    Orders <- MCNoOrders
    Lines <- MCEightLines
    Banks <- MCOneBank
    PayIds <- MCOneKey
    Utrs <- MCOneKey
    Batches <- MCGuessBatches
    WindowDays = 5
    MaxCandidates = 20
    MaxSize = 6
PROPERTIES
    RefusesRatherThanGuesses
