SPECIFICATION LegacySpec
CONSTANTS
    Scanners = {"timer", "route"}
    MaxRequest = 2
    MaxLegacyCrash = 0
    MaxLegacyFailure = 1
INVARIANTS
    ArchivedMayGo
    RemovedIsUnused
CHECK_DEADLOCK FALSE
