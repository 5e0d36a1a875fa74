SPECIFICATION Spec
CONSTANTS
    NumProjects = 1
    MaxRequests = 1
    MaxRevision = 0
    MaxCrashes = 1
    DeletionsFail = TRUE
    Triggers = {"manual"}
    Commits = {c1}
    NoCommit = NoCommit
PROPERTIES
    PendingArchiveNotDropped
CHECK_DEADLOCK FALSE
