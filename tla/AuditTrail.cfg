SPECIFICATION Spec
CONSTANTS
    Profiles <- MCProfiles
    MaxIntents = 1
    MaxFaults = 1
    MaxLives = 2
    MaxRequests = 1
INVARIANTS
    TypeOK
    LossBounded
    OrdersAnnounced
    StrandedOnlyByFailure
    OutcomesAddUp
PROPERTIES
    ImplementsAuditLog
CHECK_DEADLOCK FALSE
