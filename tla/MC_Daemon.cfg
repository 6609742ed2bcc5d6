SPECIFICATION FairSpec
CONSTANTS
    SLICE_LENGTH = 2
    PAUSE_LENGTH = 1
    EpochLength = 8
    end_of_epoch_threshold = 40
    stake_time = "OnlyNearEpochEnd"
    MINIMUM_STAKE_ACCOUNT_BALANCE = 1
    MAXIMUM_UNSTAKE_ACCOUNTS = 2
    UNBALANCE_THRESHOLD <- OneTenth
    Maintainers = {"m1", "m2"}
    Reliable = "m1"
    FirstList <- TwoMaintainers
    FirstPools <- TwoPools
    PollInterval = 3
    MaxBackoff = 1
    Expiry = 3
    DepositAmounts = {2}
    Inputs = 1
    Faults = 1
INVARIANTS
    TransactionsAreSound
    DueMakesProgress
PROPERTIES
    AwakeForDuty
    OnlyOneSucceeds
    ActiveKeepsItsStake
    PendingIsRemoved
    ClosedVoteIsDropped
