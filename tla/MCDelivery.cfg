\* Two relays and a consumer; the event and a poison message compete for a stream
\* of one message.  No symmetry, for liveness.
SPECIFICATION FairSpec
CONSTANTS
    Alerts = {a1}
    Poison = {p1}
    Relays = {r1, r2}
    Consumers = {c1}
    LeaseIds = {l1, l2}
    Copies = {1}
    BatchSize = 1
    StreamCapacity = 1
    MaxAckPending = 1
    None = None
CHECK_DEADLOCK FALSE
INVARIANT TypeOK
INVARIANT NoAlertLost
INVARIANT AppliedOnce
PROPERTY LiveLeaseIsRespected
PROPERTY EveryAlertIsApplied
