SPECIFICATION Spec
CONSTANTS
    Profiles <- DirectProfile
    RegimeTags <- OneRegimeTag
    BlockedRegimes <- NoRegimeBlocked
    MaxIntents = 1
    OrderQty = 1
INVARIANTS
    FlatHoldsNothing
CHECK_DEADLOCK FALSE
