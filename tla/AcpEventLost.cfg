SPECIFICATION Spec
CONSTANTS
    Channels = {c1, c2}
    Agents = {a1}
    EventCount = 3
    Events <- MCEvents
    CreatedAt <- MCCreatedAt
    MaxPending = 2
    MaxBatch = 2
    MaxRetries = 1
    DedupMode = "Queue"
    Handling = "Steer"
    Timers = {"heartbeat", "refresh"}
    TurnMayOutliveDeadline = FALSE
    MaxFaults = 0
    NoChannel = NoChannel
    NoEvent = NoEvent
SYMMETRY Symmetric
INVARIANTS
    NoEventLost
