SPECIFICATION FairSpec
CONSTANTS
    Account <- MCAccount
    Ambient <- MCAmbient
    NoAccount <- MCNoAccount
    Pool <- TwoProviders
    Pin <- MCNoAccount
    MaxAttempts = 2
    MaxCancels = 1
    Kinds <- FailureKind
    Operator <- NoOperator
INVARIANTS
    HandoverInv
    AtMostOneLive
    LeaseReturned
    RejectedStaysOut
    WorkIsLocked
PROPERTIES
    KeepsContract
    Termination
CHECK_DEADLOCK FALSE
