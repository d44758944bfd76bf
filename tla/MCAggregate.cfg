\* Every public operation of Workload, free transitions included, against a known total.
SPECIFICATION Spec
CONSTANTS
    b1 = b1
    none = none
    Policies <- AggregatePolicies
    Boots = {b1}
    NoBoot = none
    Deltas = {1, 3}
    MaxU64 = 3
    TotalKind = "KNOWN"
    Total = 2
    FirstEpisodeId = 1
    EpisodeIdLimit = 2
    FirstMigrationId = 10
    MaxEpisodes = 1
VIEW View
INVARIANTS
    ProgressBounded
PROPERTIES
    ProgressMonotonic
    TerminalIsFinal
