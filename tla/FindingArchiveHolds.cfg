SPECIFICATION SlowArchiveSpec
CONSTANTS
    NumProjects = 2
    MaxRequests = 2
    MaxRevision = 0
    MaxCrashes = 0
    DeletionsFail = TRUE
    Triggers = {"manual"}
    Commits = {c1}
    NoCommit = NoCommit
PROPERTIES
    ArchiveHoldsOnlyItsProject
CHECK_DEADLOCK FALSE
