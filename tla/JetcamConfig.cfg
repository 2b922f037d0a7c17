CONSTANTS
    Split <- MCSplit
    Ignored <- MCIgnored
    Files <- MCFiles
    Arguments <- MCArguments
    MaxArgs = 6
SPECIFICATION Spec
INVARIANTS
    AcceptedIsValid
    LastWins
    NothingWrongIgnored
