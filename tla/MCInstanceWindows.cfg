\* Every call and batches of one goroutine, at both ends of the counters, with failing providers.
CONSTANTS
    Callers = {g1}
    Batches <- AllBatches
    Contexts = {"a"}
    Period = 1
    MaxWindow = 1
    MaxUint = 3
    Arguments <- AllArguments
SPECIFICATION Spec
INVARIANTS AcceptsOnlyTheWindow RejectsOnlyOutsideTheWindow
