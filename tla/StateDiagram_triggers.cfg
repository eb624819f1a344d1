SPECIFICATION Spec
CONSTANTS
    Profiles <- DirectProfile
    RegimeTags <- OneRegimeTag
    BlockedRegimes <- NoRegimeBlocked
    MaxIntents = 2
    OrderQty = 1
INVARIANTS
    TriggersArmedInPosition
CHECK_DEADLOCK FALSE
