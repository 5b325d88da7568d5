SPECIFICATION OverrunSpec
CONSTANTS
    Account <- MCAccount
    Ambient <- MCAmbient
    NoAccount <- MCNoAccount
    Pool <- MCPool
    Pin <- MCNoAccount
    MaxAttempts = 1
    MaxCancels = 1
    Kinds = {"transient"}
    Operator = {o1, o2}
    RetainsOnStop = TRUE
INVARIANTS
    NoOrphan
    PendingIsRecorded
    AbsentMeansGone
    WorkerInv
PROPERTIES
    OnlyOverrunsRevive
CHECK_DEADLOCK FALSE
SYMMETRY Interchangeable
