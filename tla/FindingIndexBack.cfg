SPECIFICATION IndexSpec
CONSTANTS
    Paths = {"p1"}
    ScenarioIds = {"x"}
    Reports = {"r1"}
    Syncers = {"timer", "http"}
    MaxIndexCommit = 3
    MaxRewrite = 0
    MaxUnread = 0
PROPERTY IndexOnlyForward
CHECK_DEADLOCK FALSE
