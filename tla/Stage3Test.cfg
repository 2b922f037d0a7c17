CONSTANTS
    WriteFaults = TRUE
    MaxSessions = 2
SPECIFICATION Spec
INVARIANTS
    StreamShowsControl
    PassMeansBars
    PatternRestored
    BypassTakesLateSession
