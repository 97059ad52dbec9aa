\* What README.md says of the requests sent in one UTC month.
CONSTANTS
    Invocation = {i1, i2, i3}
    Limit = 2
    LambdaTimeout = 1
    Flight = 1
    TtlLag = 2
    MonthLength = 2
    MaxMonth = 1
    MaxTime = 4
SPECIFICATION LimiterSpec
SYMMETRY Symmetry
INVARIANTS
    AttemptsPerMonth
\* Every invocation may have returned.
CHECK_DEADLOCK FALSE
