\* Two goroutines verify one token while auto-adjust is switched and reset.
CONSTANTS
    Threads = {t1, t2}
    Capacity = 2
    MinSamples = 2
    MinReport = 2
    MaxInt64 = 6
    EmaScale = 10
    NoOne = NoOne
    Drifts <- AllDrifts
    Window = 2
    BaseCounter = 3
    MaxCounter = 6
    NoMatch = NoMatch
SPECIFICATION Spec
SYMMETRY Symmetry
INVARIANTS CorrectionTowardsDrift NeverRejected
