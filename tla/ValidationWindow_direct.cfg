CONSTANTS
    Opener = {o}
    Inspector = {}
    Direct = {d}
    Closer = {}
    Window = 1
    Retries = 0
    MaxFaults = 1
    MaxTime = 2
SPECIFICATION Spec
INVARIANTS
    OnlyKnownGaps
    SuccessMeansClosed
    AtMostOneWindowLong
\* Every script may have ended and the clock have reached its bound.
CHECK_DEADLOCK FALSE
