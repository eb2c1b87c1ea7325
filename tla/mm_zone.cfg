CONSTANTS
    ZoneSize = 12
    ClassLimits <- Limits35
    MasterCount = 2
    PtrSizes = {1}
    HandleSizes = {2}
    Resizes = {1, 3}
    Discardable = {0}
    Slack = 2
    MaxLocks = 1
    MaxHolders = 2
    CallsAfter = 1
SPECIFICATION Spec
INVARIANTS
    TypeOK
    ZoneIsTiled
    ListsAreExact
    EachBlockHasItsOwner
    CalmDataIsIntact
    OneHolder
    WalkEnds
PROPERTIES
    LockedHandleStays
    RefusalIsHonest
CHECK_DEADLOCK FALSE
