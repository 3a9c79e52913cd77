\* One turn from any pending record, any stream of up to three lines read.  A turn
\* that has ended is over.
SPECIFICATION TurnSpec
CONSTANTS
    Runs = {r1}
    NoRun = NoRun
    SessionIds = {a, b}
    NoSession = NoSession
    Unused = Unused
    Deleted = Deleted
    NotTold = NotTold
    a = a
    b = b
    r1 = r1
    r2 = r2
    Lines <- AllLines
    MaxLines = 3
    MaxPipe = 1
    MaxSeq = 1
INVARIANTS
    NoChildLeft
    InterruptionsAreNamed
    AdviceIsAdmitted
    RejectedTurnsWait
PROPERTIES
    TurnEndsAsOutcome
CHECK_DEADLOCK FALSE
