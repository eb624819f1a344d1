SPECIFICATION FairSpec
CONSTANTS
    Strategies = {s1, s2, s3}
    Ids = {1, 2, 3}
    Instruments = {i1, i2}
    Edges = {1}
    Policy <- TwoPlaces
    Interval = 2
    None = None
INVARIANTS
    BufferIsWhatIsAwaited
    BoundedWait
    TradedWasApproved
    NoneWaitingAfterStop
PROPERTIES
    VerdictIsFinal
    ImplementsLifecycle
    EveryIntentAnswered
CHECK_DEADLOCK FALSE
