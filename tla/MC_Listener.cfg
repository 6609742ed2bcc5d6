SPECIFICATION Spec
CONSTANTS
    Prices <- SomePrices
    SlotsPerEpoch = 2
    QUERY_SLOT_OFFSET = 1
    ThirtyDays = 2
    MaxLag = 1
    MaxSlot = 5
    MaxTime = 4
    MaxCrashes = 1
INVARIANTS
    IntervalsAreSound
PROPERTIES
    PastAnswersAreFinal
    AnsweredAgain
