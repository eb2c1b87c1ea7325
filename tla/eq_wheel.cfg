CONSTANTS
    Kinds <- AllKinds
    QueueSize = 3
    Masks <- EveryEvent
    Flushes = {}
    IrqKinds = {"update"}
    MaxPosts = 5
SPECIFICATION Spec
INVARIANT AcceptedIsQueued
