SPECIFICATION Spec
CONSTANTS
    NumRuns = 2
    Bugs = {b1}
    Linked = {}
    Histories <- MCReviews
    CloneUsers = 2
    ReviewersWait = FALSE
    MaxFailures = 1
    MaxForeign = 0
    MaxCrashes = 1
INVARIANTS
    BaselinePublished
CHECK_DEADLOCK FALSE
