\* Two runs share the client.  Calls that returned are over.
SPECIFICATION FairSpec
CONSTANTS
    Runs = {r1, r2}
    NoRun = NoRun
    SessionIds = {a, b}
    NoSession = NoSession
    a = a
    b = b
    r1 = r1
    r2 = r2
    Lines <- OneLine
    MaxLines = 1
    MaxPipe = 1
PROPERTIES
    RunsEnd
CHECK_DEADLOCK FALSE
