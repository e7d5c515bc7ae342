SPECIFICATION Spec
CONSTANTS
    Events = {e1, e2}
    Relays = {r1, r2}
    LockTTL = 2
    BatchLimit = 2
    BackoffCap = 1
    MaxDelay = 1
    MaxStall = 1
    FaultLimit = 2
INVARIANTS
    LockHonoured
PROPERTIES
    DeliverySpec
    EventuallyPublished
