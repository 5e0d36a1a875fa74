SPECIFICATION ReadinessSpec
CONSTANTS
    Calls = {"c1"}
    SecretKeys = {"gitToken", "testDataCleanupToken"}
    MaxCheck = 2
    MaxChange = 3
PROPERTY ActivatedWithChecked
CHECK_DEADLOCK FALSE
