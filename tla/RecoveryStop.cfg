SPECIFICATION RecoverySpec
CONSTANTS
    Account <- PinnedAccount
    Ambient <- MCAmbient
    NoAccount <- MCNoAccount
    Pool <- PinnedPool
    Pin = "a1"
    MaxAttempts = 2
    MaxCancels = 0
    Kinds = {"transient"}
    Operator = {o1, o2}
    RetainsOnStop = TRUE
INVARIANTS
    StoppedMeansDown
    PinIsKept
CHECK_DEADLOCK FALSE
SYMMETRY Interchangeable
