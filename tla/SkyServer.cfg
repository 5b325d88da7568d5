SPECIFICATION FairSpec
CONSTANTS
    Worker <- MCWorker
    Home <- MCHome
    HomeOf <- MCHomeOf
    MaxCalls <- MCCalls
    MaxKills = 1
INVARIANTS
    ServerInv
PROPERTIES
    WorkersEnd
CHECK_DEADLOCK FALSE
