CONSTANTS
    MaxLevel = 6
    DefaultFloor = 1
    DefaultCeiling = 6
    DefaultMemory = 2
    ManualLevel = 3
    MemoryMode = "AUTO"
    StartStyle = "STEPPED"
    Steps = 3
    StartModes <- Advanced
    Taps = {1, 2, 3}
    Holds = {1, 2, 7}
    Faults = FALSE
SPECIFICATION HSpec
INVARIANTS SaneAtRest StrayRampStaysInOff
PROPERTY ReleaseLocksLevel
