SPECIFICATION FairSpec
CONSTANTS
    Provider <- AllProviders
    MaxCancels = 2
    MaxStops = 2
INVARIANTS
    CreateInv
PROPERTIES
    KeepsCreateContract
    ForeignKept
    CallEnds
CHECK_DEADLOCK FALSE
