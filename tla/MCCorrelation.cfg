\* Three alerts in any order of time, two correlators at once, one operator.
CONSTANTS
    Alerts = {a1, a2, a3}
    Ids = {i1, i2, i3}
    Workers = {w1, w2}
    Operators = {o1}
    Fingerprints = {f1, f2}
    Times <- MCTimes
    AlertSeverities = {"warning", "critical"}
    Window = 1
    None = None
SPECIFICATION Spec
SYMMETRY MCSymmetry
CHECK_DEADLOCK FALSE
INVARIANT AlertCountedOnce
INVARIANT AggregatesAreExact
INVARIANT HistoryIsComplete
INVARIANT NoGapBeyondWindow
INVARIANT NoNeedlessSplit
INVARIANT VersionVouchesForState
PROPERTY CorrelationIsAtomic
