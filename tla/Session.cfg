SPECIFICATION SessionFairSpec
CONSTANTS
    Configs <- MCConfigs
    Texts <- MCTexts
    Versions = {"tested", "too old"}
    MaxSetconfigs = 2
    MaxStarts = 2
    half_day = 3
    every_10_minutes = 2
    MaxRestarts = 2
    MaxLooks = 2
    Horizon = 9
    Nodes = {"a", "b", "c"}
    Hardcoded = {"a"}
    Seeded = {"b", "c"}
    Dead = {"b"}
    Channeled = {}
    max_unchanneled_connections = 1
    MaxLate = 1
    MaxTries = 2
    MaxEvents = 2
INVARIANTS AckedInEffect PublishedUsable 
PROPERTIES NodeReconnects
