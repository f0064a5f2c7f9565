\* One goroutine, with the thresholds and the precision of the code.
CONSTANTS
    Threads = {t1}
    Capacity = 64
    MinSamples = 16
    MinReport = 8
    MaxInt64 = 6
    EmaScale = 1000
    NoOne = NoOne
    Drifts <- AllDrifts
    Window = 3
    BaseCounter = 3
    MaxCounter = 6
    NoMatch = NoMatch
SPECIFICATION AdjustSpec
PROPERTY SettlesAtHalf
