CONSTANTS
    TickMod = 16
    BlinkTicks = 6
    BlinkOn = 2
    SineTicks = 3
    SineSize = 8
SPECIFICATION FairSpec
PROPERTIES ShowsItsMode Blinks Breathes
