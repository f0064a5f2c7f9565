\* Two hosts, one instance, two steps of the clock.
SPECIFICATION Spec
CONSTANTS
    Hosts = {h1, h2}
    MCHost = h1
    Asks <- MCAsks
    MaxWindow = 1
    MaxUint = 7
    MaxTime = 3
    MaxCall = 2
    MaxContextFieldLen = 3
    WordBits = 10
    EqBytes <- WasmConstTimeEqBytes
    None = None
INVARIANTS
    AnswersOwnRequest
    AcceptedUntilExpiry
    ValidInItsContextOnly
    TrapsOnlyPastTheEnd
CHECK_DEADLOCK FALSE
