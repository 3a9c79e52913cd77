\* A 429 after an informational rate limit event.
SPECIFICATION Spec
CONSTANTS
    Runs = {r1}
    NoRun = NoRun
    SessionIds = {a, b}
    NoSession = NoSession
    a = a
    b = b
    r1 = r1
    r2 = r2
    Lines <- AllLines
    MaxLines = 3
    MaxPipe = 1
INVARIANTS
    BareRejectionIsRetryable
CHECK_DEADLOCK FALSE
