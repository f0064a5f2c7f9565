\* Two goroutines race on five keys, with a map of four that evicts two at a time.
CONSTANTS
    Threads = {t1, t2}
    Keys = {k1, k2, k3, k4, k5}
    TTLs = {1, 2}
    MaxSize = 4
    SweepEvery = 1
    EvictDivisor = 2
    NoCall = NoCall
    MaxClock = 3
SPECIFICATION Spec
SYMMETRY Symmetry
INVARIANTS TypeOK LivePromiseRecorded SizeBounded OrderListsEntries
PROPERTIES ImplementsRegister EvictsOldestOnly
