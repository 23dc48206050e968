\* Two tenants, two keys, two seeds at once, two incidents.
CONSTANTS
    Slugs = {s1, s2}
    ApiKeys = {k1, k2}
    Targets = {u1, u2}
    Seeders = {p1, p2}
    Incidents = {i1, i2}
    None = None
SPECIFICATION Spec
SYMMETRY MCSymmetry
CHECK_DEADLOCK FALSE
INVARIANT OneTenantPerKey
INVARIANT PolicyIsWhole
