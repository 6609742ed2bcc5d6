SPECIFICATION Spec
CONSTANTS
    Votes = {v1}
    Amounts = {0, 1, 2, 3}
    MAXIMUM_UNSTAKE_ACCOUNTS = 2
    TotalSol = 4
    MaxSeed = 3
INVARIANTS
    BooksInv
    RemovableHasNoBalance
PROPERTY
    PendingRemovalIsIrreversible
