SPECIFICATION RoundSpec
CONSTANTS
    N = 3
    MINIMUM_STAKE_ACCOUNT_BALANCE = 2
    MAXIMUM_UNSTAKE_ACCOUNTS = 1
    WithdrawFraction = 10
    WithdrawConstant = 20
    UNBALANCE_THRESHOLD <- OneQuarter
    Amounts = {1, 16}
    MaxInputs = 4
INVARIANTS
    InstructionsAreSound
    BalancedAtRest
PROPERTIES
    ComesToRest
