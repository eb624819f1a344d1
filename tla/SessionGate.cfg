SPECIFICATION Spec
CONSTANTS
    Minute = 2
    Day = 24
    Close = 16
    Blackout = 3
    MaxQuoteAge = 1
    MaxChainAge = 2
    AgeCap = 3
    Horizon = 32
INVARIANTS
    TypeOK
    BlackoutLagBounded
CHECK_DEADLOCK FALSE
