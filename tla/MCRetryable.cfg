\* A poll reports a stopped quota retry that cannot be retried.
SPECIFICATION Spec
CONSTANTS
    SessionIds = {a}
    NoSession = NoSession
    Unused = Unused
    Deleted = Deleted
    Reviews = {r}
    Servers = {s1, s2}
    Threads = {t1, t2}
    s1 = s1
    s2 = s2
    t1 = t1
    t2 = t2
    t3 = t3
    Host <- OneEach
    NoReview = NoReview
    NoOwner = NoOwner
    MaxSequence = 1
    MaxFaults = 1
INVARIANTS
    RetryableIsAdmitted
