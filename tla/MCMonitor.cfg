CONSTANTS
    Names = {a, b}
    Calls = {c1, c2}
    Configs <- MCStdioConfigs
    AlertConfigs <- MCAlertConfigs
    MinUptimes = {67}
    Grain = 1
    AlertAfter = 2
    Statuses = {"up", "error"}
    Retention = 1
    PruneLimit = 1
    UptimeWindow = 1
    MaxClock = 1
    MaxId = 3
    AllowStdio = FALSE
    Faults = {"crash", "statement"}
SYMMETRY Symmetry
SPECIFICATION Spec
PROPERTIES
    RegistrySpec
    UpMeansRecorded
    AlertMeansRun
