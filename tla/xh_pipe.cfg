SPECIFICATION Spec
CONSTANTS
    Keyboards = {"kbd"}
    Mice = {}
    SlotOf <- OwnSlots
    DiskSlot = "disk"
    RingSize = 3
    EventRingSize = 3
    Burst = 2
    HaltsCleared = 1
    Retries = 1
    Blocks = {"b1"}
    MaxCalls = 1
    MaxTimeouts = 1
INVARIANT PipeNeverDry
