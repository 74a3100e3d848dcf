CONSTANTS
    Tags = {fade}
    Polls = 1
    TrailingDD = 5
    MaxRisk = 2
    MaxContracts = 3
    BaseContracts = 1
    AddBuffer = 4
    DailyHalt = 2
    Fade = fade
    Risks = {1, 3}
    Results <- MCResults
    WorstLoss = 3
    MaxBars = 6
SPECIFICATION Spec
INVARIANTS
    FadeTypeOK
    EngineMatchesPosition
    PositionWithinGiveups
    RoutedLossesBounded
    ShutdownLeavesOnlyGiveups
PROPERTIES
    RoutedHaltIsFinal
    StopEnds
    BookSpec
