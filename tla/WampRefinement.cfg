SPECIFICATION DistinctFairSpec
CONSTANTS
    Calls = {c1, c2}
    Publishes = {}
    Rpcs = {r1}
    CorrIds = {i1, i2}
    NoCall = NoCall
    NoId = NoId
    ChannelCapacity = 1
    BackoffCap = 1
PROPERTIES
    KeepsPromiseFairly
    TasksReturn
    DeadLinkNoticed
    StopsOnSignal
