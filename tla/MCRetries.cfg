\* Two clients, three ticks to the second, two rejections, one answer; a plain
\* file and a sensitive one, two commits, two prompts.  A review may be closed.
SPECIFICATION RetriesSpec
CONSTANTS
    SessionIds = {a}
    Session = a
    NoSession = NoSession
    Unused = Unused
    Deleted = Deleted
    Clients = {c1, c2}
    Second = 3
    NoTime = NoTime
    NotTold = NotTold
    MaxClock = 7
    MaxRejections = 2
    MaxAnswers = 1
    Files = {plain, secret}
    InScope = {plain, secret}
    Sensitive = {secret}
    Contents = {old}
    NoFile = NoFile
    NoCommit = NoCommit
    MaxCommits = 2
    MaxTurns = 2
SYMMETRY Interchangeable
INVARIANTS
    WaitIsCurrent
    WaitIsExact
    LaterRangeIsRecorded
    NothingMissed
    FailedTurnIsUndone
PROPERTIES
    EmptyIsEmpty
CHECK_DEADLOCK FALSE
