CONSTANTS
    Names = {a, b}
    Configs = {c}
    AlertConfigs = {t}
    Statuses = {"up", "down"}
    Retention = 1
    PruneLimit = 1
    MaxClock = 4
    MaxId = 4
SYMMETRY Symmetry
SPECIFICATION RegistrySpec
INVARIANTS
    ReferentialIntegrity
    LatestAgrees
    StreakAgrees
PROPERTIES
    LosesOldestFirst
    PruningKeepsUp
