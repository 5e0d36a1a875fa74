SPECIFICATION ConsoleSpec
CONSTANTS
    Projects = {"a", "b"}
    ProjectKinds = {"test", "readiness"}
    MaxHistory = 3
    MaxWrite = 1
INVARIANT SavedFromOwnProject
CHECK_DEADLOCK FALSE
