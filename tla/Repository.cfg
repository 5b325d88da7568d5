SPECIFICATION FairSpec
CONSTANTS
    Kind <- AllKinds
    Process <- MCProcess
    Stored <- MCStored
    Id <- MCId
    Op <- MCOp
    MaxCrashes = 1
INVARIANTS
    RepositoryInv
PROPERTIES
    KeepsAtomicStore
    UnreadableIsKept
    OperationsEnd
CHECK_DEADLOCK FALSE
