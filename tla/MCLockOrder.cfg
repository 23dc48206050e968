\* Three transactions at once on an incident with two steps, and a second tenant
\* for seeds that exchange keys; no symmetry, for liveness.
CONSTANTS
    t1 = t1
    a1 = a1
    i1 = i1
    e1 = e1
    e2 = e2
    Processes = {p1, p2, p3}
    TenantIds = {t1, t2}
    KeyEntries = {k1, k2}
    Alerts = {a1}
    IncidentRows = {i1}
    EscalationRows = {e1, e2}
    TenantOf <- MCTenantOf
    IncidentOf <- MCIncidentOf
SPECIFICATION LockSpec
INVARIANT CyclesAlternate
PROPERTY OthersGetOn
