SPECIFICATION FairSpec
CONSTANTS
    Profiles <- DirectProfile
    RegimeTags <- OneRegimeTag
    BlockedRegimes <- NoRegimeBlocked
    MaxIntents = 1
    OrderQty = 1
PROPERTIES
    FlattenHonoured
CHECK_DEADLOCK FALSE
