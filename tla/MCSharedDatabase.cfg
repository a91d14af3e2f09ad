CONSTANTS
    Names = {a}
    Configs = {c}
    AlertConfigs = {}
    Statuses = {"up", "down"}
    Retention = 1
    PruneLimit = 1
    MaxClock = 3
    MaxId = 3
    Processes = {p, q}
    RunIds = {1, 2}
    BuildKeys = {x}
    MaxFaults = 1
SPECIFICATION Spec
INVARIANTS
    AgreeUnlessRaced
    OpenMeansMigrated
PROPERTIES
    OpensEventually
