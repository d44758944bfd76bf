\* Three workers in turn run a job of five units, with crashes, timeouts and a cancel.
SPECIFICATION CoordinatorSpec
CONSTANTS
    SocketBuffer = 2
    Units = 5
    Chunk = 2
    Policies <- CoordinatorPolicies
    Boots = {1, 2, 3}
    NoBoot = 0
    MaxU64 = 7
    Total = 0
    FirstEpisodeId = 1
    EpisodeIdLimit = 4
    FirstMigrationId = 10
    MaxEpisodes = 3
CHECK_DEADLOCK FALSE
INVARIANTS
    CoordinatorTypeOK
    WorkConserved
PROPERTIES
    ImplementsDurableJob
    JobEnds
    AcceptedCancelWins
    CancelHeard
