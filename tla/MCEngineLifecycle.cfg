\* The workload behind the engine: two episodes, overflow of the progress counter.
SPECIFICATION EngineSpec
CONSTANTS
    b1 = b1
    none = none
    Policies <- EnginePolicies
    Boots = {b1}
    NoBoot = none
    Deltas = {2}
    MaxU64 = 3
    TotalKind = "UNKNOWN"
    Total = 0
    FirstEpisodeId = 1
    EpisodeIdLimit = 3
    FirstMigrationId = 2
    MaxEpisodes = 2
VIEW View
INVARIANTS
    TypeOK
    GenerationCountsEpisodes
    SoleAuthority
    ProgressLineage
    AuthorityAddressable
    NeverHalfway
    OneTerminalWinner
PROPERTIES
    ProgressMonotonic
    SupersededFrozen
    RestartBudget
    TerminalIsFinal
    CompletionByAuthority
