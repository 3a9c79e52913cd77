\* A poll answers pending although nothing runs.
SPECIFICATION Spec
CONSTANTS
    SessionIds = {a}
    NoSession = NoSession
    Unused = Unused
    Deleted = Deleted
    Reviews = {r}
    Servers = {s1, s2}
    Threads = {t1, t2, t3}
    s1 = s1
    s2 = s2
    t1 = t1
    t2 = t2
    t3 = t3
    Host <- TwoPlusOne
    NoReview = NoReview
    NoOwner = NoOwner
    MaxSequence = 0
    MaxFaults = 1
PROPERTIES
    PendingAnswerMeansActive
