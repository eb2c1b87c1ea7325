SPECIFICATION Spec
CONSTANTS
    Keyboards = {"kbd"}
    Mice = {"mouse"}
    SlotOf <- OneSlot
    DiskSlot = "disk"
    RingSize = 3
    EventRingSize = 2
    Burst = 1
    HaltsCleared = 1
    Retries = 1
    Blocks = {"b1"}
    MaxCalls = 1
    MaxTimeouts = 1
INVARIANTS TypeOK EventsAreFifo TransferInFlight CalmCallsAreRight
 
