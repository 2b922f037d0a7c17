CONSTANTS
    MaxSignals = 3
    MaxMessages = 1
    MaxFrames = 2
    EncodeQueue = 1
    Endless = FALSE
    Faults = TRUE
SPECIFICATION Spec
INVARIANTS
    
    ReleasedQuietly
    OnePhotoPerRequest
    TornIsReported
PROPERTY
    ImplementsService
