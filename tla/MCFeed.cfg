CONSTANTS
    Shapes <- MCShapes
    Horizon <- MCHorizon
    MaxBars <- MCMaxBars
    Steps = {2, 3}
    DayLen = 6
    AsiaEnd = 2
    LondonEnd = 3
    AmEnd = 4
    PmEnd = 5
    WindowLen = 2
    Cooldown = 3
    Thresholds = {60, 120}
    VolMultiple = 3
    Baselines = {0, 1}
    PullbackLen = 2
    BreakFrom = 2
    BreakLen = 2
    TwoTicks = 1
    SwingLen = 2
    ScratchAfter = 2
    GuardAt = 5
    Friction = 2
    SessStart = 2
    SessEnd = 5
    OrEnd = 3
    Buckets <- MCBuckets
    FadeFriction = 1
    HorizonBars = 2
    DriftFriction = 1
    DriftSession = "ASIA"
    MaxDraws = 2
    Quotes = {2, 5}
    Polls = 3
    Lags = {0, 2}
SPECIFICATION Spec
INVARIANTS
    BarsMatchResample
    LevelsMatchHistory
    ShocksMatchHistory
    ShockTradesBounded
    GapViewsAgree
    DriftWithinExcursion
PROPERTIES
    ShockTradesCausal
