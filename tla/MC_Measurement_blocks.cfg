SPECIFICATION Spec
CONSTANTS
    RangeMax = 255
    SlotsPerEpoch = 3
INVARIANT
    RateIsInRange
CHECK_DEADLOCK FALSE
