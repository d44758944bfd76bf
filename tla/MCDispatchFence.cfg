\* A superseded episode is dispatched and starts the workload.
SPECIFICATION EngineSpec
CONSTANTS
    b1 = b1
    none = none
    Policies <- EnginePolicies
    Boots = {b1}
    NoBoot = none
    Deltas = {1}
    MaxU64 = 1
    TotalKind = "UNKNOWN"
    Total = 0
    FirstEpisodeId = 1
    EpisodeIdLimit = 3
    FirstMigrationId = 10
    MaxEpisodes = 2
VIEW View
PROPERTY DispatchIsFenced
