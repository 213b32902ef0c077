CONSTANTS
    NumEmitters = 3
    Full = 16
    OnLevels = {6, 13}
    Floor = 1
    Ceiling = 16
    Factors = {3, 16}
SPECIFICATION FairSpec
INVARIANTS BrighterIsBrighter SequentialInOrder
PROPERTY EmittersConverge
