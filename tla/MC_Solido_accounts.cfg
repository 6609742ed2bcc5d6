SPECIFICATION Spec
CONSTANTS
    Votes = {v1}
    Rent = 1
    MINIMUM_STAKE_ACCOUNT_BALANCE = 2
    MAXIMUM_UNSTAKE_ACCOUNTS = 2
    WithdrawFraction = 10
    WithdrawConstant = 3
    Distributions <- TwoDistributions
    DepositAmounts = {4}
    StSolAmounts = {3}
    StakeAmounts = {1, 2, 3, 4, 5}
    Rewards = {0, 1}
    DonationAmounts = {1}
    MaxLate = 1
    TotalSol = 5
    MaxEpoch = 2
    MaxSeed = 2
INVARIANTS
    BalancesAreSound
    AccountsInRangeAreUsable
    NothingIsStranded
    UnstakeBalanceFits
PROPERTIES
    ImplementsPool
    ImplementsBooks
