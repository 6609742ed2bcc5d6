SPECIFICATION Spec
CONSTANTS
    GivenMints <- SmallMints
    FeeOptions = {"f1"}
    CriteriaOptions <- SomeCriteria
    MaxEntries = 2
    PerfListSizes = {428810}
    LegacyMaintainers <- TwoMaintainers
    Budget <- SmallBudget
    OwnerKeys = {"A", "B", "C"}
    Founders <- TwoFounders
    FirstThreshold = 2
    Thresholds = {1}
    Candidates = {"C"}
    MaxOwners = 3
    Maintainers = {"m1", "m2"}
    Votes = {"v1", "v2"}
    Running <- SmallRunning
    MaxProposals = 2
    MigrationArguments <- SomeArguments
    VaultSize = 2
INVARIANTS
    OwnersCanDecide
    InstanceIsUsable
    SetupSucceeds
PROPERTIES
    ChangesAreApproved
    ShownIsCurrent
CHECK_DEADLOCK FALSE
