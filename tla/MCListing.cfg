\* Three incidents on pages of one; no symmetry, for liveness.
CONSTANTS
    Incidents = {i1, i2, i3}
    Limit = 1
    MaxTime = 2
    MaxTouch = 3
    None = None
SPECIFICATION ListingSpec
CHECK_DEADLOCK FALSE
INVARIANT PagesAreExact
PROPERTY TraversalEnds
