CONSTANTS
    Depth = 4
    Readings <- Heat
SPECIFICATION FairSpec
PROPERTY TriggeredIsCarriedOut
