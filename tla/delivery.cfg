SPECIFICATION MCSpec
CONSTANTS
    Tasks = {1, 2, 3, 4}
    Reviews = {1, 4}
    MaxHead = 2
    MaxMerge = 2
    MaxBase = 2
    SyncOf <- MCSyncOf
    Fetchers = {"panel"}
    Actors = {"sync", "pr", "restore", "cleanup"}
    Branches = {"topic", "merged", "base"}
    Records = {1, 2, 3}
    Kind <- MCKind
    Branch <- MCBranch
    Frozen <- MCFrozen
    Locks <- MCLocks
    MaxOid = 2
    Foreign = Foreign
    Error = Error
    None = None
CHECK_DEADLOCK FALSE
INVARIANTS PublicationIsTrue MergeIsGated CleanupIsTrue AttemptsAreTrue
PROPERTIES SettledStays RemoteIsKept
