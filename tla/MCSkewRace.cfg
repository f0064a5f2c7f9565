\* Two goroutines in Record, DisableAutoAdjust, EnableAutoAdjust and Reset.
CONSTANTS
    Threads = {t1, t2}
    Capacity = 3
    Samples <- Offsets
    Windows = {1, 2, 3}
    MaxInt64 = 2
    MinSamples = 2
    MinReport = 2
    EmaScale = 10
    NoOne = NoOne
SPECIFICATION Spec
SYMMETRY Symmetry
INVARIANTS TypeOK ReportIsOfLastSamples OffsetWithinSamples NoLostUpdate
