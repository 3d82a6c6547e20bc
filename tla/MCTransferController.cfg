SPECIFICATION FairSpec
CONSTANTS
    Workers = {w1, w2}
    Jobs = {j1}
    Limit = 2
    None = None
INVARIANTS
    OwnedOnce
    CancelHolds
    QueuedIsWanted
    InertUntilSaved
    LastEventCurrent
    SavedCatchesUp
PROPERTIES
    StopReturns
    ImplementsLifecycle
