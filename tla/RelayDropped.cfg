SPECIFICATION SubscriptionSpec
CONSTANTS
    Chans = {"ch"}
    Skew = 1
    Capacity = 1
    MaxPosts = 4
    MaxCommands = 2
    MaxDeaths = 1
    MaxRefusals = 0
    MaxDrops = 2
INVARIANTS
    DroppedIsReplayed
CHECK_DEADLOCK FALSE
