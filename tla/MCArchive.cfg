SPECIFICATION FairSpec
CONSTANTS
    NumRuns = 2
    Bugs = {b1, b2}
    Linked = {b2}
    Histories <- MCHistories
    CloneUsers = 1
    ReviewersWait = TRUE
    MaxFailures = 1
    MaxForeign = 1
    MaxCrashes = 1
INVARIANTS
    MarkedReportPublished
    OnePullRequest
PROPERTIES
    KeepsContract
    ArchiveConverges
CHECK_DEADLOCK FALSE
