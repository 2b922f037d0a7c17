CONSTANTS
    IntMax = 32767
    U32Max = 65535
    I64Max = 70000
    U64Max = 131071
    Numeral <- MCNumeral
    Texts <- MCTexts
    Fourccs <- MCFourccs
    MaxOptions = 3
SPECIFICATION Spec
INVARIANTS
    OptionsInRange
    LastWins
    RefusedForCause
    RateIsRequested
