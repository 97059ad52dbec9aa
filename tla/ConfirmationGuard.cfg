\* Three calls: one prepare and a replay or a mismatch, with restarts.
CONSTANTS
    Call = {c1, c2, c3}
    Caller = {alice, bob}
    Action = {telegram, trello}
    Payload = {small, other, large}
    Oversized = {large}
    UnknownToken = UnknownToken
    Nothing = Nothing
    Ttl = 1
    MaxTime = 2
SPECIFICATION Spec
SYMMETRY Symmetry
INVARIANTS
    TruthfulRefusal
PROPERTIES
    ImplementsContract
\* Every call may have been made.
CHECK_DEADLOCK FALSE
