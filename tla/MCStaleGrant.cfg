\* A contract that moved on is still satisfied by the old grant.
SPECIFICATION AdmissionSpec
CONSTANTS
    b1 = b1
    none = none
    MaxDependencies = 1
    MaxObserved = 1
    Requirements <- MCRequirements
    MaxContractGeneration = 2
    Policies <- AdmissionPolicies
    Boots = {b1}
    NoBoot = none
    Deltas = {}
    MaxU64 = 0
    TotalKind = "UNKNOWN"
    Total = 0
    FirstEpisodeId = 1
    EpisodeIdLimit = 2
    FirstMigrationId = 10
    MaxEpisodes = 1
VIEW AdmissionView
INVARIANT StaleGrantDoesNotBind
