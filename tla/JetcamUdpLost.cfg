CONSTANTS
    MaxSignals = 2
    MaxMessages = 1
    MaxFrames = 2
    EncodeQueue = 1
    Endless = FALSE
    Faults = FALSE
SPECIFICATION Spec
INVARIANT
    RequestNotLost
