CONSTANTS
    Names = {a}
    Calls = {c1}
    Configs <- MCConfigs
    AlertConfigs <- MCAlertConfigs
    MinUptimes = {67}
    Grain = 1
    AlertAfter = 10
    Statuses = {"up", "error"}
    Retention = 1
    PruneLimit = 1
    UptimeWindow = 1
    MaxClock = 1
    MaxId = 4
    AllowStdio = FALSE
    Faults = {}
SPECIFICATION Spec
PROPERTIES
    UptimeAlertNotMissed
