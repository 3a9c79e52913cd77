\* Three callers of the store without faults; every limit up to 4 and every diff
\* up to 7 bytes; streams of up to 8 bytes; one request.  A diff, a stream and a
\* request that have ended are over.
SPECIFICATION WaitsSpec
CONSTANTS
    Ids = {i}
    Values = {v}
    NoRecord = NoRecord
    NoRequest = NoRequest
    Nothing = Nothing
    Callers = {c1, c2, c3}
    Processes = {p1, p2}
    c1 = c1
    c2 = c2
    c3 = c3
    p1 = p1
    p2 = p2
    Process <- TwoPlusOne
    NoCaller = NoCaller
    Torn = Torn
    MaxFaults = 0
    Settings <- SmallSettings
    DefaultLimit = 2
    Sizes <- SmallSizes
    PipeSize = 3
    ChunkSize = 2
    OutputSettings <- FourBits
    DefaultOutputLimit = 4
    FirstBuffer = 2
    MaxToken = 5
    Outputs <- SmallOutputs
    MaxInt = 7
    Requests = {r1}
INVARIANTS
    DiffIsExact
    OutputIsExact
    AnswerIsLast
PROPERTIES
    CallsEnd
    CallReturns
    AnswerComes
CHECK_DEADLOCK FALSE
