CONSTANTS
    MaxLevel = 3
    DefaultFloor = 1
    DefaultCeiling = 3
    DefaultMemory = 2
    ManualLevel = 3
    MemoryMode = "HYBRID"
    StartStyle = "STEPPED"
    Steps = 2
    StartModes <- Both
    Taps = {1, 2, 3, 4, 5, 7}
    Holds = {1, 2, 3, 4, 10}
    Faults = TRUE
SPECIFICATION HSpec
INVARIANTS TypeOK RampOnlyWhileHeld OffIsQuiet TimeoutHasItsNode OnShowsItsLevel
PROPERTIES OnlyRampsAreRemembered ReleaseLocksLevel
