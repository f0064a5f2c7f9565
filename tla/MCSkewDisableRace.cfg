\* A Record in flight while another goroutine disables auto-adjust.
CONSTANTS
    Threads = {t1, t2}
    Capacity = 3
    Samples <- Offsets
    Windows = {1, 2, 3}
    MaxInt64 = 2
    MinSamples = 2
    MinReport = 2
    EmaScale = 10
    NoOne = NoOne
SPECIFICATION Spec
SYMMETRY Symmetry
INVARIANT DisabledOffsetIsZero
