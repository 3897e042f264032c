SPECIFICATION RunSpec
CONSTANTS
    MaximumRound = 6
    RoundsInitial = 4
    Window = 3
    ThresholdNum = 1
    ThresholdDen = 20
    Losses <- MCLosses
INVARIANTS
    ReturnsDeclaredOutcome
    ResultIsReproducible
PROPERTIES
    TrainingReturns
CHECK_DEADLOCK TRUE
