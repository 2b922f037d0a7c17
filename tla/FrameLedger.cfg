CONSTANTS
    SeqMod = 12
    MaxFrames = 4
SPECIFICATION Spec
INVARIANTS
    LedgerAgrees
    CleanMeansContiguous
    RangeAccountsForFrames
CHECK_DEADLOCK FALSE
