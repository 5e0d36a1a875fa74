SPECIFICATION ReadinessSpec
CONSTANTS
    Calls = {"c1", "c2"}
    SecretKeys = {"gitToken"}
    MaxCheck = 2
    MaxChange = 1
INVARIANT ShownOkIsCurrent
CHECK_DEADLOCK FALSE
