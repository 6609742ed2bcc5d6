SPECIFICATION Spec
CONSTANTS
    Votes = {v1, v2}
    Commissions = {0}
    Rates = {1}
    KeyHead <- Heads
    CriteriaOptions <- OnlyLenient
    max_validators = 2
    MaxEpoch = 1
    MaxRequests = 1
PROPERTIES
    PerfsAreSeparate
