SPECIFICATION FairRecoverySpec
CONSTANTS
    Account <- MCAccount
    Ambient <- MCAmbient
    NoAccount <- MCNoAccount
    Pool <- MCPool
    Pin <- MCNoAccount
    MaxAttempts = 1
    MaxCancels = 2
    Kinds = {"transient"}
    Operator <- OneOperator
    RetainsOnStop = TRUE
PROPERTY FlagsGetResolved
CHECK_DEADLOCK FALSE
