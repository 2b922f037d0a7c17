CONSTANTS
    MaxSignals = 2
    MaxMessages = 1
    MaxFrames = 1
    EncodeQueue = 1
    Endless = TRUE
    Faults = TRUE
SPECIFICATION FairSpec
PROPERTIES
    StopEnds
    RequestServed
