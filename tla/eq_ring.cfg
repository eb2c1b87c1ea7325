CONSTANTS
    Kinds <- AllKinds
    QueueSize = 3
    Masks <- SelectiveMasks
    Flushes <- FlushAllOrMouse
    IrqKinds = {}
    MaxPosts = 5
SPECIFICATION Spec
INVARIANTS
    TypeOK
    RingAgrees
    EachOnce
    OfferIsKept
    PostOrderIsKept
PROPERTY ImplementsStore
