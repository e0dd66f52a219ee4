SPECIFICATION FenceSpec
CONSTANTS
    FencePods = {pod}
    Txs = {session}
    Pages = {page1}
    Floor = 1
    Margin = 1
    Staleness = 1
    ReadMaxAge = 1
    RingCapacity = 2
    Stamps = {0}
    MaxTime = 2
    MaxRows = 1
    MaxStates = 4
    MaxRestores = 1
INVARIANT NeverHoles
CHECK_DEADLOCK FALSE
