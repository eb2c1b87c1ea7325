CONSTANTS
    ZoneSize = 12
    ClassLimits <- Limits35
    MasterCount = 2
    PtrSizes = {1}
    HandleSizes = {1}
    Resizes = {1}
    Discardable = {}
    Slack = 2
    MaxLocks = 0
    MaxHolders = 2
    CallsAfter = 0
SPECIFICATION Spec
INVARIANT DataIsIntact
CHECK_DEADLOCK FALSE
