\* Two processes with one thread each, one review, two answers, two faults.
SPECIFICATION Spec
CONSTANTS
    SessionIds = {a, b}
    NoSession = NoSession
    Unused = Unused
    Deleted = Deleted
    Reviews = {r}
    Servers = {s1, s2}
    Threads = {t1, t2}
    s1 = s1
    s2 = s2
    t1 = t1
    t2 = t2
    t3 = t3
    Host <- OneEach
    NoReview = NoReview
    NoOwner = NoOwner
    MaxSequence = 2
    MaxFaults = 2
SYMMETRY Processes
INVARIANTS
    CopiesCurrent
    RecordsWellFormed
PROPERTIES
    LifecycleSpec
    ClosedIsFinal
    DeletedIsGone
    SessionIsKept
    SequenceCountsAnswers
    BlockedOperationIsKept
