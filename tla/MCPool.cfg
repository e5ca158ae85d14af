SPECIFICATION Spec
CONSTANTS
    Workers = {w1, w2}
    Clients = {c1, c2}
    Requests = {r1, r2, r3}
    Manager = Manager
    Poison = Poison
    NoThread = NoThread
    NoItem = NoItem
    Threads <- MCThreads
    Items <- MCItems
    mMinThreads = 1
    mMaxThreads = 2
    mMinQueued = 1
    mMaxQueued = 1
    StatsEvery = 1
    CounterMod = 1
    KilledMod = 8
    SizeMod = 16
    MaxCurls = 1
    InitCurlMayFail = FALSE
    TornSizes = {0, 9}
SYMMETRY Symmetry
PROPERTY ImplementsService
INVARIANTS
    TypeOK
    PillsFirst
    KillAccounting
    MinimumKept
    ThreadsListed
    RequestsAccounted
