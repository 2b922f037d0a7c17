CONSTANTS
    SnapshotSignal = FALSE
    CleanStart = FALSE
    Modes = 2
    MaxInterrupts = 2
SPECIFICATION FairTestSpec
INVARIANTS
    PassIsEarned
    NoServiceLeft
    AbandonedNeedsInterrupt
PROPERTY
    EndsUnlessIgnored
