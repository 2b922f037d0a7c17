CONSTANTS
    MaxSignals = 3
    MaxMessages = 2
SPECIFICATION FairSpec
INVARIANTS
    ServedIsStopped
PROPERTIES
    ServiceEnds
    ImplementsService
