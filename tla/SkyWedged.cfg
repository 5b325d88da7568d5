SPECIFICATION Spec
CONSTANTS
    Worker <- MCWorker
    Home <- MCHome
    HomeOf <- MCHomeOf
    MaxCalls <- MCCalls
    MaxKills = 1
CHECK_DEADLOCK FALSE
INVARIANT AlwaysReusable
