\* Dependencies, contract and broker in full, over an episode that is suspended and resumed.
SPECIFICATION AdmissionSpec
CONSTANTS
    b1 = b1
    none = none
    MaxDependencies = 1
    MaxObserved = 1
    Requirements <- MCRequirements
    MaxContractGeneration = 2
    Policies <- AdmissionPolicies
    Boots = {b1}
    NoBoot = none
    Deltas = {}
    MaxU64 = 0
    TotalKind = "UNKNOWN"
    Total = 0
    FirstEpisodeId = 1
    EpisodeIdLimit = 3
    FirstMigrationId = 10
    MaxEpisodes = 2
CONSTRAINT Followed
VIEW AdmissionView
INVARIANTS
    AdmissionTypeOK
    OfferAnswersContract
    BrokerServes
PROPERTIES
    ImplementsWorkload
    GateHonoured
    DelayedReportsIgnored
    TighteningNeverUnblocks
