SPECIFICATION FairSpec
CONSTANTS
    Requests = {q1, q2}
    None = None
    TtlRequested = 9
    TtlMin = 1
    TtlMax = 1
    CommitAttempts = 2
    RetryAttempts = 2
    TolerateReap = TRUE
    MaxClock = 2
    MaxBoots = 1
PROPERTIES StrandedFinalized EveryRequestEnds
CHECK_DEADLOCK FALSE
