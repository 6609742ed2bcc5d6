SPECIFICATION Spec
CONSTANTS
    Amounts = {0, 1, 2, 3, 5}
    Distributions <- SomeDistributions
    MaxManaged = 12
    MaxEpoch = 3
INVARIANTS
    TypeOK
    SupplyIsCovered
    StSolNeverWorthless
PROPERTY
    PriceNeverDrops
