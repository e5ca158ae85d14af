SPECIFICATION CountersSpec
CONSTANTS
    Threads = {t1, t2}
    NoThread = NoThread
    Items = {i1}
    NoItem = NoItem
    CounterMod = 100
    TornSizes = {}
    MaxEvents = 3
INVARIANT CountersExact
