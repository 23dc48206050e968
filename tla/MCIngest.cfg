\* Two handlers, two tenants, one key: every way of sending a request again.
CONSTANTS
    Tenants = {t1, t2}
    Keys = {k1}
    Contents = {x, bad}
    Invalid = {bad}
    AlertIds = {i1, i2}
    Handlers = {h1, h2}
    MaxTime = 1
    MaxAnswers = 2
    None = None
SPECIFICATION Spec
SYMMETRY MCSymmetry
CHECK_DEADLOCK FALSE
INVARIANT OneAlertPerKey
INVARIANT EventPerAlert
INVARIANT ReceiptIsTrue
INVARIANT RetryIsRecognised
