SPECIFICATION RunOrchestratorSpec
CONSTANTS
    Runs = {"r1", "r2"}
    Initializations = {"r1"}
    MaxPatch = 1
    MaxCrash = 1
INVARIANTS
    ReviewedExecutionIsFormal
    FailedIsNotInterrupted
    DoubtedIsNotPassed
CHECK_DEADLOCK FALSE
