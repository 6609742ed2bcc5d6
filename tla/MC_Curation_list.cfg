SPECIFICATION Spec
SYMMETRY Symmetry
CONSTANTS
    Votes = {v1, v2, v3}
    Commissions = {0}
    Rates = {}
    KeyHead <- Heads
    CriteriaOptions <- OnlyLenient
    max_validators = 3
    MaxEpoch = 0
    MaxRequests = 2
INVARIANTS
    ListsAreSound
PROPERTIES
    OnlyTheNamedValidator
    RemovalIsOrderly
