SPECIFICATION Spec
CONSTANTS
    Workers = {w1, w2}
    Clients = {c1}
    Requests = {r1}
    Manager = Manager
    Poison = Poison
    NoThread = NoThread
    NoItem = NoItem
    Threads <- MCThreads
    Items <- MCItems
    mMinThreads = 1
    mMaxThreads = 2
    mMinQueued = 1
    mMaxQueued = 1
    StatsEvery = 1
    CounterMod = 1
    KilledMod = 8
    SizeMod = 16
    MaxCurls = 1
    InitCurlMayFail = TRUE
    TornSizes = {}
INVARIANT MinimumThreads
