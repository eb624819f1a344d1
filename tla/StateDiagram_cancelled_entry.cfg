SPECIFICATION FairSpec
CONSTANTS
    Profiles <- DirectProfile
    RegimeTags <- OneRegimeTag
    BlockedRegimes <- NoRegimeBlocked
    MaxIntents = 1
    OrderQty = 1
PROPERTIES
    CancelledEntryEndsFlat
CHECK_DEADLOCK FALSE
