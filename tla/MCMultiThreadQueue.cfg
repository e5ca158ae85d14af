SPECIFICATION MCQueueSpec
CONSTANTS
    Threads = {t1, t2, t3}
    NoThread = NoThread
    Items = {i1}
    NoItem = NoItem
    CounterMod = 2
    TornSizes = {}
    DropSizes = {0, 1, 2}
    MaxQueue = 3
INVARIANTS
    QueueTypeOK
    NoLostWakeup
    QueueBounded
