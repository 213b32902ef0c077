CONSTANTS
    CountMod = 3
    MaxClicks = 4
    MaxPosted = 4
SPECIFICATION FairSpec
INVARIANTS PressHasItsTimer HoldsBracketed IInv
PROPERTIES ImplementsGestures EveryPressReported
