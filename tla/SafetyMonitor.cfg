CONSTANTS
    Depth = 4
    Readings <- Mixed
SPECIFICATION FairSpec
INVARIANTS TypeOK ShutdownOnce
PROPERTY QueuedShutdownIsCarriedOut
