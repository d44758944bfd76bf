\* After a reload a migration reuses the id of an earlier migration episode.
SPECIFICATION StoreSpec
CONSTANTS
    b1 = b1
    none = none
    Policies <- StorePolicies
    Boots = {b1}
    NoBoot = none
    Deltas = {1}
    MaxU64 = 1
    TotalKind = "UNKNOWN"
    Total = 0
    FirstEpisodeId = 1
    EpisodeIdLimit = 2
    FirstMigrationId = 10
    MaxEpisodes = 3
    MaxMissed = 0
VIEW StoreView
INVARIANT AuthorityAddressable
