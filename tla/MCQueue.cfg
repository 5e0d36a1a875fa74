SPECIFICATION RoundRobinSpec
CONSTANTS
    NumProjects = 2
    MaxRequests = 2
    MaxRevision = 1
    Triggers = {"manual"}
    Commits = {c1, c2}
    NoCommit = NoCommit
SYMMETRY CommitSymmetry
INVARIANTS
    OldestFirst
    PendingSnapshotCurrent
    ResolvedIsPrepared
    BoundedBypass
CHECK_DEADLOCK FALSE
