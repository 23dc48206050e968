\* The order of a timeline, as the API and the tool describe it.
CONSTANTS
    i1 = i1
    i2 = i2
    t1 = t1
    t2 = t2
    Tenants = {t1, t2}
    Incidents = {i1, i2}
    Owner <- MCOwner
    Writers = {w1, w2}
    Callers = {c1}
    Limit = 2
    EvidenceWindow = 1
    MaxEntries = 3
    MaxTime = 1
SPECIFICATION Spec
SYMMETRY MCSymmetry
CHECK_DEADLOCK FALSE
INVARIANT TimelineIsChronological
