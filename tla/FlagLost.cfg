SPECIFICATION FairLiveSpec
CONSTANTS
    Account <- MCAccount
    Process <- TwoProcesses
    Task <- TwoTasks
    Home <- Apart
    Deployer = "t1"
    CleanupOnFailure = TRUE
    MaxWaits = 1
    MaxCrashes = 0
INVARIANT UnknownIsFlagged
