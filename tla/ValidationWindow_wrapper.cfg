CONSTANTS
    Opener = {}
    Inspector = {w}
    Direct = {}
    Closer = {k}
    Window = 1
    Retries = 1
    MaxFaults = 1
    MaxTime = 2
SPECIFICATION Spec
INVARIANTS
    TypeOK
    OnlyKnownGaps
    SuccessMeansClosed
PROPERTIES
    WindowEnds
\* Every script may have ended and the clock have reached its bound.
CHECK_DEADLOCK FALSE
