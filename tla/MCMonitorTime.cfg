CONSTANTS
    Names = {a}
    Calls = {c1, c2}
    Configs <- MCConfigs
    AlertConfigs <- MCAlertConfigs
    MinUptimes = {332, 670}
    Grain = 10
    AlertAfter = 2
    Statuses = {"up", "error"}
    Retention = 0
    PruneLimit = 1
    UptimeWindow = 1
    MaxClock = 2
    MaxId = 3
    AllowStdio = FALSE
    Faults = {"statement"}
SPECIFICATION Spec
PROPERTIES
    AlertMeansRun
    UptimeAlertNear
    EveryCallEnds
