\* Two workers, three attempts; a lease that is refused and the shortest one; store
\* calls that may take longer than this lease leaves beside a request.
CONSTANTS
    Workers = {w1, w2}
    Leases = {3, 10}
    NotifyTimeout = 5
    MaxAttempts = 3
    Poll = 1
    StoreTime = 6
    MaxJitter = 1
    MaxSkew = 1
SPECIFICATION Spec
SYMMETRY MCSymmetry
CHECK_DEADLOCK FALSE
INVARIANT OneSenderAtATime
INVARIANT BackoffIsKept
INVARIANT SettledInTime
