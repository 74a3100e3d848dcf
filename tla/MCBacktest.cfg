CONSTANTS
    Prices = {4, 12, 16, 20, 28}
    Gaps = {1, 2}
    MaxZones = 2
    MaxDays = 1
    TrailSwing = 2
    StopPad = 8
    RiskFloor = 6
    TargetR = 2
    MaxHold = 3
    MaxHoldBars = 3
    MaxIdle = 2
SPECIFICATION Spec
INVARIANTS
    EnginesTypeOK
    RecordMatchesEngine
    HeldWithinMaxHold
PROPERTIES
    ContractSpec
    StopNeverLoosens
    NoEntryIntoSpentZone
