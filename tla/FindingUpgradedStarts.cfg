SPECIFICATION UpgradeSpec
CONSTANTS
    Dirs = {"d1"}
    MaxVersion = 2
    MaxDamage = 0
INVARIANT UpgradedStarts
CHECK_DEADLOCK FALSE
