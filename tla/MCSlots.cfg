\* Two threads in one process and one in another, one fault.
SPECIFICATION Spec
CONSTANTS
    SessionIds = {a, b}
    NoSession = NoSession
    Unused = Unused
    Deleted = Deleted
    Reviews = {r}
    Servers = {s1, s2}
    Threads = {t1, t2, t3}
    s1 = s1
    s2 = s2
    t1 = t1
    t2 = t2
    t3 = t3
    Host <- TwoPlusOne
    NoReview = NoReview
    NoOwner = NoOwner
    MaxSequence = 1
    MaxFaults = 1
SYMMETRY Slots
INVARIANTS
    TypeOK
    OneOwner
    PendingHasWorker
    StoppedMeansNoWorker
    DrainedHasNoWorker
    LocksMatchRequests
