\* Two previews and two executes, or any other four calls, of a write and of a
\* cost query; all but one are alice's, with the same arguments.
CONSTANTS
    Call = {c1, c2, c3, c4}
    Caller = {alice, bob}
    Payload = {good, other, bad}
    Tool = {"telegram", "cost"}
    Invalid = {bad}
    UnknownToken = UnknownToken
    Nothing = Nothing
    Limit = 1
    alice = alice
    good = good
SPECIFICATION Spec
INVARIANTS
    TypeOK
    OneRequestPerConfirmation
    RequestAsPreviewed
    RefusalHasNoEffect
    CountersTellTheTruth
    BillableWithinQuota
CONSTRAINT OneUnusual
SYMMETRY Symmetry
\* Every call may have returned.
CHECK_DEADLOCK FALSE
