SPECIFICATION FairMeterSpec
CONSTANTS
    Call <- TwoCalls
    IdleLimit = 2
    PersistInterval = 1
    MaxCancels = 2
    MaxFailures = 1
    MaxRestarts = 1
    MaxRefreshes = 1
INVARIANTS
    MeterInv
PROPERTIES
    NotUnderACall
    AbandonedIsStopped
