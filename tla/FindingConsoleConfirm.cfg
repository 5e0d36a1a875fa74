SPECIFICATION ConsoleSpec
CONSTANTS
    Projects = {"a", "b"}
    ProjectKinds = {"test", "readiness"}
    MaxHistory = 3
    MaxWrite = 1
INVARIANTS
    ConfirmedWhereOpened
    ConfirmedAsNamed
CHECK_DEADLOCK FALSE
