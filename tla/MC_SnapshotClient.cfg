SPECIFICATION ClientSpec
CONSTANTS
    Root = "solido"
    References <- StakeAccountsComeAndGo
    InfoAddress <- InfoMoves
    NoAddress = "none"
    RpcLimits = {2, 4}
    UsizeMax = 99
    MaxErrors = 1
INVARIANTS
    CallsAreSound
    TornOnlyIfTooLarge
PROPERTIES
    EverySnapshotEnds
    SettlesWithTheChain
