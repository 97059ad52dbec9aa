\* Three calls race for the same confirmations: a prepare and two consumes, or
\* any other three, of two callers, one payload too large.
CONSTANTS
    Invocation = {i1, i2, i3}
    Caller = {alice, bob}
    Action = {telegram}
    Payload = {small, large}
    Oversized = {large}
    UnknownToken = UnknownToken
    Nothing = Nothing
    Ttl = 1
    LambdaTimeout = 1
    MaxTime = 2
SPECIFICATION Spec
SYMMETRY Symmetry
INVARIANTS
    ConfirmedAsIssued
    AtMostOneConfirmed
    TruthfulRefusal
    InductiveInv
PROPERTIES
    GoAheadNotLate
    RowsOnlyAge
    ImplementsContract
\* Every invocation may have returned: nothing more happens then.
CHECK_DEADLOCK FALSE
