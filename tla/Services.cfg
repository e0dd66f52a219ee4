SPECIFICATION Spec
CONSTANTS
    Pods = {"p", "q"}
    Connections = {c1, c2}
    MaxGeneration = 2
    Events = {"e1"}
    Matchers = {"m1"}
    Couriers = {"w1", "w2"}
    MaxMatches = 1
    MaxSends = 2
    MaxLeases = 2
    Schedulers = {"s1", "s2"}
    Interval = 2
    Period = 1
    MaxLag = 1
    MaxFaults = 1
    MaxScheduleTime = 14
    FencePods = {pod}
    Txs = {session}
    Pages = {page1}
    Floor = 1
    Margin = 1
    Staleness = 1
    ReadMaxAge = 1
    RingCapacity = 2
    Stamps = {0}
    MaxTime = 2
    MaxRows = 1
    MaxStates = 3
    MaxRestores = 1
INVARIANTS
    DrainedRegistryIsEmpty
    EndedRoomIsEmpty
    SentToApnsOnce
    OneRunPerBucket
    ScheduleKeepsUp
    RevokedOwnerNeverFires
    CoveredPagesComplete
    FreshPagesBounded
PROPERTIES
    LeaseEndsByItsEpoch
    NoWakeLostAtTheGate
CHECK_DEADLOCK FALSE
