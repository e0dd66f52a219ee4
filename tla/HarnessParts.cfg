SPECIFICATION Spec
CONSTANTS
    MaxTurn = 2
    Buffer = 12
    Setup = 1
    Context = 1
    CleanupFloor = 2
    CancelGrace = 1
    WriteTimeout = 1
    Finalize = 5
    MetricTimeout = 1
    ResultLatency = 1
    AckLatency = 1
    InitialMessage = TRUE
    MaxClock = 30
    Threshold = 3
    Window = 4
    Cooldown = 5
    MaxCircuitTime = 14
    InitialRetryDelay = 2
    MaxRetryDelay = 7
    MaxAttempts = 6
    Chans = {"ch"}
    Skew = 1
    Capacity = 1
    MaxPosts = 3
    MaxCommands = 3
    MaxDeaths = 1
    MaxRefusals = 1
    MaxDrops = 2
INVARIANTS
    TurnEndsFirst
    CrashLoopBounded
    OneWakeUnderway
    BackpressureLosesNothing
PROPERTIES
    NeverResurrected
    EventuallyReady
    EventuallyOnAir
CHECK_DEADLOCK FALSE
