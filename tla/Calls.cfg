SPECIFICATION FairSpec
CONSTANTS
    Machines = {"transport", "readiness", "watchdog", "routing", "launch", "ownership"}
    Address = {"a", "b"}
    MaxRetries = 3
    MaxRedirects = 2
    Base = 4
    MaxDelay = 14
    Asked = {0, 6, 40}
    MaxMoves = 2
    Interval = 3
    RequestTimeout = 4
    Budget = {0, 10}
    InitialDelay = {0, 2}
    Needed = {0, 1, 2}
    MaxWaits = 2
    WaitTime = {1, 3}
    MaxLoops = 3
    MaxBusy = 1
    MaxFailed = 2
    Catalog <- Offers
    LiveOffers <- SomeLive
    Known <- Registered
    Gpu <- GpuModels
    Similar <- SimilarNames
    Requests <- SomeRequests
    MinVram = 24
    ProfileCount = 1
    Recommended <- RecommendedGpus
    LaunchInputs <- SomeLaunches
    None = None
    Unset = Unset
    DefaultPort = 8000
    FishPort = 8080
    MaxPort = 65535
    DefaultIdle = 6
    Account = {"a", "b"}
    Deployed = {"d", "e"}
    MaxKey = 2
    MaxChanges = 2
INVARIANTS
    RequestIsSafe
    
    NoStrayLoop
    RoutingIsSound
    LaunchIsSound
    OwnersAct
PROPERTIES
    RequestEnds
    StopSilences
    IdleIsStopped
CHECK_DEADLOCK FALSE
