SPECIFICATION RunWorkSpec
CONSTANTS
    Runs = {"r1", "r2"}
    Initializations = {"r1"}
    MaxPatch = 1
    MaxCrash = 1
    Ids = {"a1", "a2"}
    MaxCall = 1
    MaxDataLoss = 2
    MaxVersion = 2
    MaxLoss = 2
    Totals <- TextTotals
    PageSize = 1
    MaxReceipt = 2
    MaxPending = 2
    MaxFailure = 1
    Scenarios = {"s1", "s2"}
    Images = {"i1", "i2"}
    MaxPlan = 2
INVARIANTS
    RunWorkTypeOK
    CompletedAsTold
    DataCleanedAsTold
    EvidenceKept
    ReadsRecorded
    PassedAsReviewed
CHECK_DEADLOCK FALSE
