SPECIFICATION Spec
CONSTANTS
    TrendMove = 5
    ChopRange = 2
    PinProximity = 1
    ChopPrices = 2
    StrikeStep = 100
    Mids <- MCMids
    WindowSize = 3
    MaxQuotes = 4
INVARIANTS
    KnownTagIsCurrent
    FirstQuoteIsJudged
    HighPricesArePinned
CHECK_DEADLOCK FALSE
