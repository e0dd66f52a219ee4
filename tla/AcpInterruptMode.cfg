SPECIFICATION Spec
CONSTANTS
    Channels = {c1, c2}
    Agents = {a1, a2}
    EventCount = 3
    Events <- MCEvents
    CreatedAt <- MCCreatedAt
    MaxPending = 2
    MaxBatch = 2
    MaxRetries = 1
    DedupMode = "Queue"
    Handling = "OwnerInterrupt"
    Timers = {"heartbeat", "refresh"}
    TurnMayOutliveDeadline = FALSE
    MaxFaults = 2
    NoChannel = NoChannel
    NoEvent = NoEvent
SYMMETRY Symmetric
INVARIANTS
    TypeOK
    SlotExclusive
    InFlightMatchesTasks
    OneTurnPerChannel
    CancelledNeverThrottled
    UnmergedEventsKept
