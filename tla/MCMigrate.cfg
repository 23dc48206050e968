\* Two runs at once, of builds with one or two files: the first creates
\* relations, the second does not.  No symmetry, for liveness.
CONSTANTS
    Last = 2
    Creates = {1}
    Processes = {p1, p2}
    Checksums = {c1, c2}
    Missing = Missing
    Null = Null
SPECIFICATION Spec
CHECK_DEADLOCK FALSE
INVARIANT LedgerIsTrue
INVARIANT SuccessIsVerified
PROPERTY EveryRunSucceeds
