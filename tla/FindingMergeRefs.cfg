SPECIFICATION FairSpec
CONSTANTS
    NumProjects = 1
    MaxRequests = 1
    MaxRevision = 0
    MaxCrashes = 1
    DeletionsFail = FALSE
    Triggers = {"manual"}
    Commits = {c1}
    NoCommit = NoCommit
PROPERTIES
    FinishedMergeRefDeleted
CHECK_DEADLOCK FALSE
