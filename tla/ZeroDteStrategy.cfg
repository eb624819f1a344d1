SPECIFICATION Spec
CONSTANTS
    Profiles <- MCProfiles
    RegimeTags <- MCRegimeTags
    BlockedRegimes <- MCBlockedRegimes
    MaxIntents = 2
    OrderQty = 2
INVARIANTS
    TypeOK
    PositionManageable
    AwaitingExactlyPending
    OrdersFollowEntry
    SentInTurn
    FillsBookedForward
    ShortByOneExitAtMost
PROPERTIES
    NoOrderSentTwice
    DirectEntryGated
    ImplementsLifecycle
CHECK_DEADLOCK FALSE
