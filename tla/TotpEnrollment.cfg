CONSTANTS
    Secret = {s1, s2, s3}
    OldSecret = old
    Mistyped = mistyped
    None = None
    MAX_VERIFY_ATTEMPTS = 2
    MaxLate = 2
SPECIFICATION Spec
INVARIANTS
    TypeOK
    FinishedMeansClosed
PROPERTY
    CompletedMeansEnrolled
\* The wrapper ends.
CHECK_DEADLOCK FALSE
