\* An incident with two steps, claimed in batches by two workers.  No symmetry,
\* for liveness.
SPECIFICATION FairSpec
CONSTANTS
    Incidents = {i1}
    Steps = {0, 1}
    Workers = {w1, w2}
    MaxAttempts <- MCMaxAttempts
    BatchSize = 2
    AlertSeverities = {"info", "critical"}
CHECK_DEADLOCK FALSE
INVARIANT LeasesAreSound
INVARIANT SentByItsHolder
INVARIANT OnePayloadPerKey
INVARIANT ClosedIncidentIsQuiet
INVARIANT OutcomeRecordedOnce
PROPERTY KeepsContract
PROPERTY EveryRowSettles
