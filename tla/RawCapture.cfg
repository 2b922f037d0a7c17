CONSTANTS
    SeqMod = 8
    MaxBuffers = 2
    MaxSensorFrames = 3
    MaxSignals = 2
    FirstSeq = 7
    FrameChunks = 2
    Spurious = TRUE
    Faults = TRUE
    OptionChoices <- MCCommandLines
SPECIFICATION Spec
INVARIANTS
    TypeOK
    BuffersAccounted
    SnapshotFaithful
    PassIsSound
    StopsInTime
    ExitMatchesResult
    ReleasedAtExit
PROPERTIES
    CallOrder
    CountsTruly
