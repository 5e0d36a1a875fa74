SPECIFICATION FairSpec
CONSTANTS
    NumProjects = 1
    MaxRequests = 2
    MaxRevision = 0
    MaxCrashes = 1
    DeletionsFail = TRUE
    Triggers = {"git", "manual"}
    Commits = {c1}
    NoCommit = NoCommit
PROPERTIES
    SlotFreed
    RequestTakenUp
    PendingArchiveEnds
CHECK_DEADLOCK FALSE
