SPECIFICATION Spec
CONSTANTS
    NumProjects = 1
    MaxRequests = 2
    MaxRevision = 0
    MaxCrashes = 3
    DeletionsFail = TRUE
    Triggers = {"git", "manual"}
    Commits = {c1, c2}
    NoCommit = NoCommit
SYMMETRY CommitSymmetry
INVARIANTS
    SlotOwned
    PendingArchiveDriven
    RunStartsOnce
    PreparedMergeKept
    TargetPublished
PROPERTIES
    FollowsQueue
    MergeMadeOnce
CHECK_DEADLOCK FALSE
