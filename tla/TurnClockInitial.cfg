SPECIFICATION ClockSpec
CONSTANTS
    MaxTurn = 14
    Buffer = 12
    Setup = 1
    Context = 1
    CleanupFloor = 2
    CancelGrace = 1
    WriteTimeout = 1
    Finalize = 5
    MetricTimeout = 1
    ResultLatency = 1
    AckLatency = 1
    InitialMessage = TRUE
    MaxClock = 27
INVARIANTS
    TurnEndsFirst
