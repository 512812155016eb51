\* The messages and the clock run out, so the system stops.
SPECIFICATION ExpirySpec
CONSTANTS
    Workers = {w1, w2}
    None = None
    Nobody = Nobody
    Lease = 4
    Interval = 1
    Lag = 1
    MaxTime = 6
    MaxTokens = 3
CHECK_DEADLOCK FALSE
INVARIANTS
    TypeOK
    PendingExclusion
PROPERTIES
    ImplementsMutex
    PendingEnds
