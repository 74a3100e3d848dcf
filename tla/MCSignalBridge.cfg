CONSTANTS
    TrailingDD = 4
    MaxRisk = 2
    MaxContracts = 2
    BaseContracts = 1
    AddBuffer = 4
    DailyHalt = 2
    Quantities = {1, 3}
    Risks = {0, 1, 2, 3}
    TargetR = 2
    Swings <- MCSwings
    MaxOrders = 3
SPECIFICATION SignalSpec
INVARIANTS
    LossesBounded
    ExposureWithinMax
PROPERTIES
    HaltIsFinal
