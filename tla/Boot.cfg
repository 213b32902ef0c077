CONSTANTS
    DefaultFloor = 1
    DefaultCeiling = 255
    DefaultMode = 0
    DefaultLimit = 45
    Counts = {10}
    Voltages = {900, 4149}
SPECIFICATION FairSpec
INVARIANTS TypeOK LimitsOrdered AppliesWhatIsSaved FactoryResetForgets RecalibrationIsClose
PROPERTIES ImplementsSettings ComesUp
