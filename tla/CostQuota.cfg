\* Three queries over two months, two slots a month: exhausted quotas, slots
\* taken just before a month ends, rows dropped by TTL.
CONSTANTS
    Invocation = {i1, i2, i3}
    Limit = 2
    LambdaTimeout = 1
    Flight = 1
    TtlLag = 2
    MonthLength = 2
    MaxMonth = 1
    MaxTime = 4
SPECIFICATION LimiterSpec
SYMMETRY Symmetry
INVARIANTS
    TypeOK
    SlotsWithinLimit
    ExceededIsTrue
    SpendBounded
PROPERTIES
    BilledNearItsMonth
\* Every invocation may have returned.
CHECK_DEADLOCK FALSE
