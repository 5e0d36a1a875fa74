SPECIFICATION InstallationSpec
CONSTANTS
    Places = {"p1", "p2"}
    MaxPollerCommit = 3
    Testable = {3}
    MaxPollerFailure = 1
    MaxPollerChange = 1
    MaxPollerCrash = 1
    Keys <- ImageKeys
    Runs = {"r1"}
    MaxImage = 3
    MaxBoot = 2
    MaxLoss = 1
    Calls = {"c1", "c2"}
    SecretKeys = {"gitToken"}
    MaxCheck = 2
    MaxChange = 1
    Requests = {1}
    MaxCommit = 4
    MaxDelete = 1
    MaxFailure = 1
    MaxCrash = 1
    Paths = {"p1", "p2"}
    ScenarioIds = {"x", "y"}
    Reports = {"r1"}
    Syncers = {"timer", "http"}
    MaxIndexCommit = 2
    MaxRewrite = 1
    MaxUnread = 1
    Scanners = {"timer", "route"}
    MaxRequest = 2
    MaxLegacyCrash = 1
    MaxLegacyFailure = 1
    Dirs = {"d1"}
    MaxVersion = 2
    MaxDamage = 1
    Projects = {"a", "b"}
    ProjectKinds = {"test"}
    MaxHistory = 3
    MaxWrite = 1
INVARIANT PreparingIsOwned
CHECK_DEADLOCK FALSE
