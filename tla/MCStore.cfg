\* Crash and reload between any two engine operations.
SPECIFICATION StoreSpec
CONSTANTS
    b1 = b1
    none = none
    Policies <- StorePolicies
    Boots = {b1}
    NoBoot = none
    Deltas = {1}
    MaxU64 = 1
    TotalKind = "KNOWN"
    Total = 1
    FirstEpisodeId = 1
    EpisodeIdLimit = 2
    FirstMigrationId = 10
    MaxEpisodes = 2
    MaxMissed = 1
VIEW StoreView
INVARIANTS
    DurableLifecycle
    OneTerminalWinner
PROPERTIES
    NoRollback
