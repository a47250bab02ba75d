SPECIFICATION MCSpec
CONSTANTS
    None = None
    Observers = {1, 2}
    MaxEdits = 3
    MaxEvidence = 2
    MaxLosses = 1
    Worktrees = {"w1"}
    Viewers = {1, 2}
    MaxMutations = 2
    MaxReadMishaps = 1
    MaxCommit = 3
    MaxRevision = 2
    MaxAttempts = 3
    MaxTroubles = 2
    Requests = {1, 2}
    Limit = 1
    Ttl = 1
    MaxTime = 1
    MaxConsents = 2
    MaxContract = 2
    MaxTaskState = 2
    LogLines = 1
    MaxLines = 4
    MaxOpens = 2
    MaxFaults = 1
    LogicalRequests = {"read", "approve"}
    WriteRequests = {"approve"}
    Paired = {"approve"}
    Repo <- MCRepo
    Bucket <- MCBucket
    TotalCap = 2
    RepoCap = 1
    ProbeCap = 2
    MaxLeft = 1
    MaxRepublished = 1
    MaxMishaps = 1
INVARIANTS
    SnapshotsAreFresh
    UnknownNeverClean
    PreparationIsTrue
    ConsentIsKept
    StreamIsTrue
    LanesAreSafe
PROPERTIES
    ContractHolds
CHECK_DEADLOCK FALSE
