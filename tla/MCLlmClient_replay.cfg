\* A replay during and after two live runs, workers killed at any step.
SPECIFICATION Spec
CONSTANTS
    live1 = live1
    live2 = live2
    replay = replay
    first = first
    second = second
    Callers = {live1, live2, replay}
    Modes <- MCModes
    Items <- MCItems
    Texts <- MCTexts
    Tellings <- MCTellings
    Sound = {"a"}
    Stray = {"stray"}
    Prose = {first, second}
    MaxAttempts = 2
SYMMETRY Symmetric
CHECK_DEADLOCK FALSE
INVARIANTS
    TypeOK
    AnswersAreVouched
    ReplayRepeatsLive
    ReplayDiesOfTornEntry
