CONSTANTS
    x = x
    y = y
    bad = bad
    None = None
    Unavailable = Unavailable
    StackCount = 2
    MaxPages = 3
    MaxResources = 3
    LogicalId = {x, y}
    Malformed = bad
    Page <- MCPage
    PageToken = {t1, t2, t3}
    MAX_COST_PERIODS = 2
    MAX_COST_GROUPS = 2
    Response <- MCResponse
    Limit = 2
    Answer <- MCAnswer
SPECIFICATION Spec
INVARIANTS
    TypeOK
    UnmarkedOmitsNothing
    StatusTells
    ErrorMeansNothingRead
    RequestsCounted
SYMMETRY Symmetry
\* The call ends.
CHECK_DEADLOCK FALSE
