SPECIFICATION Spec
SYMMETRY Symmetry
CONSTANTS
    Votes = {v1, v2}
    Commissions = {0, 2}
    Rates = {1}
    KeyHead <- Heads
    CriteriaOptions <- LenientAndStrict
    max_validators = 3
    MaxEpoch = 1
    MaxRequests = 0
INVARIANTS
    ListsAreSound
PROPERTIES
    CaughtUntilNextEpoch
