CONSTANTS
    MaxLevel = 6
    DefaultFloor = 1
    DefaultCeiling = 6
    DefaultMemory = 2
    ManualLevel = 3
    MemoryMode = "AUTO"
    StartStyle = "STEPPED"
    Steps = 2
    StartModes <- Advanced
    Taps = {1, 2, 3}
    Holds = {7}
    Faults = FALSE
SPECIFICATION HFairSpec
PROPERTY MenusExpire
