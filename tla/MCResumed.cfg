\* A resumed run whose output names no session.
SPECIFICATION Spec
CONSTANTS
    Runs = {r1}
    NoRun = NoRun
    SessionIds = {a, b}
    NoSession = NoSession
    a = a
    b = b
    r1 = r1
    r2 = r2
    Lines <- FewLines
    MaxLines = 2
    MaxPipe = 1
INVARIANTS
    ResumedSessionIsReported
CHECK_DEADLOCK FALSE
