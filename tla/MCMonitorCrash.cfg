CONSTANTS
    Names = {a}
    Calls = {c1}
    Configs <- MCConfigs
    AlertConfigs <- MCAlertConfigs
    MinUptimes = {0}
    Grain = 1
    AlertAfter = 2
    Statuses = {"up", "error"}
    Retention = 1
    PruneLimit = 1
    UptimeWindow = 1
    MaxClock = 1
    MaxId = 4
    AllowStdio = FALSE
    Faults = {"crash"}
SPECIFICATION Spec
PROPERTIES
    AlertMeansRunAlways
