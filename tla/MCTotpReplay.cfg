\* Two replicas share a store that may drop the promise of one code when it records the other.
CONSTANTS
    Goroutines = {g1, g2}
    Verifiers = {v1, v2}
    Keys = {1, 2}
    Period = 1
    Window = 1
    MaxDelay = 1
    TTL = 4
    MaxAttempts = 1
    Uint32Size = 3
    Full <- HoldsOne
    NoCall = NoCall
    NoJob = NoJob
    NoGrant = NoGrant
    MaxClock = 5
SPECIFICATION ReplaySpec
SYMMETRY Symmetry
INVARIANTS TypeOK OvershootBounded
PROPERTIES LockoutHolds AcceptedOnce AcceptedOncePerCode
