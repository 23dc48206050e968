\* Two requests with any of 89 contents: up to three labels, two of whose names
\* differ in case only.
CONSTANTS
    Blank = Blank
    cpu = cpu
    CPU = CPU
    disk = disk
    long = long
    HEX = HEX
    Texts <- MCTexts
    Normal <- MCNormal
    Oversized = {long}
    MaxLabels = 3
    Inputs <- MCInputs
    Alerts = {a1, a2}
SPECIFICATION FingerprintSpec
CHECK_DEADLOCK FALSE
INVARIANT FingerprintIsStable
INVARIANT RefusalIsStable
