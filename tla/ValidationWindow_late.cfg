CONSTANTS
    Opener = {o}
    Inspector = {}
    Direct = {}
    Closer = {}
    Window = 1
    Retries = 0
    MaxFaults = 0
    MaxTime = 3
SPECIFICATION Spec
INVARIANTS
    LastsAtMostAWindow
\* Every script may have ended and the clock have reached its bound.
CHECK_DEADLOCK FALSE
