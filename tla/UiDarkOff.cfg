CONSTANTS
    MaxLevel = 4
    DefaultFloor = 1
    DefaultCeiling = 4
    DefaultMemory = 2
    ManualLevel = 3
    MemoryMode = "AUTO"
    StartStyle = "STEPPED"
    Steps = 3
    StartModes <- Simple
    Taps = {1}
    Holds = {1}
    Faults = FALSE
SPECIFICATION HSpec
INVARIANT OffIsDark
