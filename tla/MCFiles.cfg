\* Two processes, two reviews, one record, two faults; three agents, each of
\* which may hold a lease file of its own while the path names a fourth.
SPECIFICATION FilesSpec
CONSTANTS
    Ids = {i, j}
    Values = {v}
    NoRecord = NoRecord
    NoRequest = NoRequest
    Nothing = Nothing
    Callers = {c1, c2}
    Processes = {p1, p2}
    c1 = c1
    c2 = c2
    p1 = p1
    p2 = p2
    Process <- OneEach
    NoCaller = NoCaller
    Torn = Torn
    MaxFaults = 2
    Agents = {a, b, c}
    Files = {f1, f2, f3, f4}
    NoFile = NoFile
    NoOwner = NoOwner
SYMMETRY Renamings
INVARIANTS
    NothingTorn
    WorkersAlone
PROPERTIES
    MapSpec
    LeaseSpec
    ServiceSeesLease
