CONSTANTS
    Call = {c1, c2}
    Caller = {alice}
    Payload = {good, bad}
    Tool = {"cost"}
    Invalid = {bad}
    UnknownToken = UnknownToken
    Nothing = Nothing
    Limit = 1
    alice = alice
    good = good
SPECIFICATION Spec
INVARIANTS
    BothConsumed
SYMMETRY Symmetry
\* Every call may have returned.
CHECK_DEADLOCK FALSE
