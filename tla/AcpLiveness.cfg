SPECIFICATION FairSpec
CONSTANTS
    Channels = {c1, c2}
    Agents = {a1}
    EventCount = 2
    Events <- MCEvents
    CreatedAt <- MCCreatedAt
    MaxPending = 2
    MaxBatch = 2
    MaxRetries = 1
    DedupMode = "Queue"
    Handling = "Steer"
    Timers = {"refresh"}
    TurnMayOutliveDeadline = TRUE
    MaxFaults = 2
    NoChannel = NoChannel
    NoEvent = NoEvent
INVARIANTS
    NoDuplicateDelivery
PROPERTIES
    EventuallySettled
