CONSTANTS
    SeqMod = 8
    MaxBuffers = 2
    MaxSensorFrames = 3
    MaxSignals = 1
    FirstSeq = 7
    FrameChunks = 2
    Spurious = TRUE
    Faults = FALSE
    OptionChoices <- MCEndless
SPECIFICATION FairSpec
PROPERTIES
    StopHonoured
    SilentSensorEnds
