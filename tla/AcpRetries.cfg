SPECIFICATION Spec
CONSTANTS
    Channels = {c1}
    Agents = {a1}
    EventCount = 3
    Events <- MCEvents
    CreatedAt <- MCCreatedAt
    MaxPending = 2
    MaxBatch = 2
    MaxRetries = 1
    DedupMode = "Queue"
    Handling = "Queue"
    Timers = {"heartbeat", "refresh"}
    TurnMayOutliveDeadline = FALSE
    MaxFaults = 5
    NoChannel = NoChannel
    NoEvent = NoEvent
SYMMETRY Symmetric
INVARIANTS
    AttemptsBounded
