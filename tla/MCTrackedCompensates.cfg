\* One goroutine and a token two periods ahead; the thresholds and the precision of the code.
CONSTANTS
    Threads = {t1}
    Capacity = 16
    MinSamples = 16
    MinReport = 8
    MaxInt64 = 6
    EmaScale = 1000
    NoOne = NoOne
    Drifts = {2}
    Window = 2
    BaseCounter = 2
    MaxCounter = 4
    NoMatch = NoMatch
SPECIFICATION AdjustSpec
PROPERTY Compensates
