\* Two goroutines and ClearSecret.
CONSTANTS
    Callers = {g1, g2}
    Batches <- SomeBatches
    Contexts = {"a"}
    Period = 2
    MaxWindow = 1
    MaxUint = 3
    Arguments <- AllArguments
SPECIFICATION Spec
INVARIANTS TypeOK GeneratesUnderTheKey
PROPERTIES RefusalIsFinal CallsReturn
