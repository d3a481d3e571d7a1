SPECIFICATION Spec
CONSTANTS
    Requests = {q1, q2, q3}
    None = None
    TtlRequested = 0
    TtlMin = 1
    TtlMax = 2
    CommitAttempts = 2
    RetryAttempts = 1
    TolerateReap = TRUE
    MaxClock = 2
    MaxBoots = 1
SYMMETRY RequestSymmetry
INVARIANTS OneRunPerKey AdoptionExplained
PROPERTY ReleasedByOwner
CHECK_DEADLOCK FALSE
