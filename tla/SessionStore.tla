---------------------------- MODULE SessionStore ----------------------------
(***************************************************************************)
(* JSONStore: sessions.json as goroutines of several processes use it.     *)
(* Every method takes the mutex of its process, then the advisory lock of  *)
(* the store, and looks at its context only once it has both.  It loads    *)
(* the whole file; a write saves the whole map to a temporary file, syncs  *)
(* it, renames it over sessions.json and syncs the directory.              *)
(*                                                                         *)
(* The faults are the ones the code is written against: a step that        *)
(* reports an error, a process killed between any two steps (the kernel    *)
(* drops its locks and the next process finds the file as it is), and a    *)
(* power loss, after which the path names one of the files in durable.  A  *)
(* file whose data were not synced before its rename may come back torn.   *)
(***************************************************************************)
EXTENDS StoreCalls, Naturals

CONSTANTS
    Callers,    \* goroutines that call the store, one call at a time
    Processes,
    Process,    \* the process of each caller
    NoCaller,
    Torn,       \* a file that does not parse
    MaxFaults   \* bound: failing steps, killed processes and power losses

ASSUME StoreAssumption ==
    /\ Process \in [Callers -> Processes]
    /\ NoCaller \notin Callers
    /\ Torn \notin Contents
    /\ MaxFaults \in Nat

VARIABLES
    mutex,    \* JSONStore.mu of each process
    flock,    \* the callers that hold .sessions.lock, shared or exclusive
    disk,     \* the file sessions.json names
    durable,  \* the files it may name after a power loss
    pc,       \* where each caller is
    request,  \* the call it is serving
    data,     \* the map in its hand: loaded, and changed by a write
    tmp,      \* its temporary file
    answer,   \* what its call will return
    faults

storeVars == <<mutex, flock, disk, durable, pc, request, data, tmp, answer, faults>>

StoreInit ==
    /\ mutex = [p \in Processes |-> NoCaller]
    /\ flock = {}
    /\ disk = Empty
    /\ durable = {Empty}
    /\ pc = [c \in Callers |-> "idle"]
    /\ request = [c \in Callers |-> NoRequest]
    /\ data = [c \in Callers |-> Nothing]
    /\ tmp = [c \in Callers |-> "none"]
    /\ answer = [c \in Callers |-> "none"]
    /\ faults = 0

Step(c, from, to) == pc[c] = from /\ pc' = [pc EXCEPT ![c] = to]

Reading(c) == request[c] # NoRequest /\ ~Writes(request[c])

Strike == faults < MaxFaults /\ faults' = faults + 1

\* The call ends with an error and leaves no temporary file behind.
Give(c, to) ==
    /\ pc' = [pc EXCEPT ![c] = to]
    /\ answer' = [answer EXCEPT ![c] = "error"]
    /\ data' = [data EXCEPT ![c] = Nothing]
    /\ tmp' = [tmp EXCEPT ![c] = "none"]

-----------------------------------------------------------------------------
Call(c, q) ==
    /\ Step(c, "idle", "mutex")
    /\ request' = [request EXCEPT ![c] = q]
    /\ UNCHANGED <<mutex, flock, disk, durable, data, tmp, answer, faults>>

LockMutex(c) ==
    /\ Step(c, "mutex", "flock")
    /\ mutex[Process[c]] = NoCaller
    /\ mutex' = [mutex EXCEPT ![Process[c]] = c]
    /\ UNCHANGED <<flock, disk, durable, request, data, tmp, answer, faults>>

\* A writer asks for the lock alone, a reader shares it with readers.
LockFile(c) ==
    /\ Step(c, "flock", "load")
    /\ \A d \in flock : Reading(c) /\ Reading(d)
    /\ flock' = flock \cup {c}
    /\ UNCHANGED <<mutex, disk, durable, request, data, tmp, answer, faults>>

LockFileFails(c) ==
    /\ pc[c] = "flock"
    /\ Strike
    /\ Give(c, "unlock")
    /\ UNCHANGED <<mutex, flock, disk, durable, request>>

\* Mutant of Refuse: the call gives its locks back and starts over.
RefuseStartsOver(c) ==
    /\ Step(c, "load", "mutex")
    /\ flock' = flock \ {c}
    /\ mutex' = [mutex EXCEPT ![Process[c]] = NoCaller]
    /\ UNCHANGED <<disk, durable, request, data, tmp, answer, faults>>

\* The context of the call has ended by the time it holds both locks.
Refuse(c) ==
    /\ pc[c] = "load"
    /\ Give(c, "release")
    /\ UNCHANGED <<mutex, flock, disk, durable, request, faults>>

\* load, and the search for the identifier.
Load(c) ==
    /\ pc[c] = "load"
    /\ disk # Torn
    /\ data' = [data EXCEPT ![c] = After(request[c], disk)]
    /\ IF Writes(request[c]) /\ Answer(request[c], disk) = "ok"
       THEN Step(c, "load", "save") /\ UNCHANGED answer
       ELSE /\ Step(c, "load", "release")
            /\ answer' = [answer EXCEPT ![c] = Answer(request[c], disk)]
    /\ UNCHANGED <<mutex, flock, disk, durable, request, tmp, faults>>

\* The file cannot be read, or does not parse.
LoadFails(c) ==
    /\ pc[c] = "load"
    /\ Strike
    /\ Give(c, "release")
    /\ UNCHANGED <<mutex, flock, disk, durable, request>>

-----------------------------------------------------------------------------
(* save *)

WriteTemp(c) ==
    /\ Step(c, "save", "sync")
    /\ tmp' = [tmp EXCEPT ![c] = "written"]
    /\ UNCHANGED <<mutex, flock, disk, durable, request, data, answer, faults>>

\* Mutant of SyncTemp: the file is closed without being synced.
SyncTempSkipped(c) ==
    /\ Step(c, "sync", "rename")
    /\ UNCHANGED <<mutex, flock, disk, durable, request, data, tmp, answer, faults>>

SyncTemp(c) ==
    /\ Step(c, "sync", "rename")
    /\ tmp' = [tmp EXCEPT ![c] = "synced"]
    /\ UNCHANGED <<mutex, flock, disk, durable, request, data, answer, faults>>

\* From here on readers and writers find the new file.  Which of the two a
\* power loss leaves is open until the directory is synced.
Rename(c) ==
    /\ Step(c, "rename", "syncdir")
    /\ disk' = data[c]
    /\ durable' = durable \cup {data[c]}
                          \cup (IF tmp[c] = "synced" THEN {} ELSE {Torn})
    /\ tmp' = [tmp EXCEPT ![c] = "none"]
    /\ answer' = [answer EXCEPT ![c] = "ok"]
    /\ UNCHANGED <<mutex, flock, request, data, faults>>

\* Mutant of SaveFails: a failing sync of the directory is reported too.
SaveFailsLate(c) ==
    /\ pc[c] \in {"save", "sync", "rename", "syncdir"}
    /\ Strike
    /\ Give(c, "release")
    /\ UNCHANGED <<mutex, flock, disk, durable, request>>

SaveFails(c) ==
    /\ pc[c] \in {"save", "sync", "rename"}
    /\ Strike
    /\ Give(c, "release")
    /\ UNCHANGED <<mutex, flock, disk, durable, request>>

SyncDir(c) ==
    /\ Step(c, "syncdir", "release")
    /\ durable' = {disk}
    /\ UNCHANGED <<mutex, flock, disk, request, data, tmp, answer, faults>>

\* Opening or syncing the directory fails, which save ignores.
SyncDirFails(c) ==
    /\ Step(c, "syncdir", "release")
    /\ Strike
    /\ UNCHANGED <<mutex, flock, disk, durable, request, data, tmp, answer>>

-----------------------------------------------------------------------------
ReleaseFile(c) ==
    /\ Step(c, "release", "unlock")
    /\ flock' = flock \ {c}
    /\ UNCHANGED <<mutex, disk, durable, request, data, tmp, answer, faults>>

\* The calls of D are over.
Forget(D) ==
    /\ pc' = [c \in Callers |-> IF c \in D THEN "idle" ELSE pc[c]]
    /\ request' = [c \in Callers |-> IF c \in D THEN NoRequest ELSE request[c]]
    /\ data' = [c \in Callers |-> IF c \in D THEN Nothing ELSE data[c]]
    /\ tmp' = [c \in Callers |-> IF c \in D THEN "none" ELSE tmp[c]]
    /\ answer' = [c \in Callers |-> IF c \in D THEN "none" ELSE answer[c]]

\* The deferred Unlock, and the return.
Return(c) ==
    /\ pc[c] = "unlock"
    /\ Forget({c})
    /\ mutex' = [mutex EXCEPT ![Process[c]] = NoCaller]
    /\ UNCHANGED <<flock, disk, durable, faults>>

\* The callers of D are gone, and the kernel drops what they held.
Drop(D) ==
    /\ Forget(D)
    /\ mutex' = [p \in Processes |-> IF mutex[p] \in D THEN NoCaller ELSE mutex[p]]
    /\ flock' = flock \ D

\* A process is killed, and started again.
Crash(p) ==
    /\ Strike
    /\ Drop({c \in Callers : Process[c] = p})
    /\ UNCHANGED <<disk, durable>>

PowerLoss ==
    /\ Strike
    /\ disk' \in durable
    /\ durable' = {disk'}
    /\ Drop(Callers)

-----------------------------------------------------------------------------
\* What a caller that holds the locks it needs does next.
Proceed(c) ==
    \/ Load(c) \/ LoadFails(c) \/ Refuse(c)
    \/ WriteTemp(c) \/ SyncTemp(c) \/ Rename(c) \/ SaveFails(c)
    \/ SyncDir(c) \/ SyncDirFails(c)
    \/ ReleaseFile(c) \/ Return(c)

Serve(c) == LockMutex(c) \/ LockFile(c) \/ LockFileFails(c) \/ Proceed(c)

StoreNext ==
    \/ \E c \in Callers : (\E q \in Request : Call(c, q)) \/ Serve(c)
    \/ \E p \in Processes : Crash(p)
    \/ PowerLoss

StoreSpec == StoreInit /\ [][StoreNext]_storeVars

\* A goroutine runs, the Go mutex hands itself to a goroutine that has waited
\* long, and the kernel wakes the waiters of a file lock that is dropped.
StoreFairness ==
    \A c \in Callers :
       /\ WF_storeVars(Proceed(c))
       /\ SF_storeVars(LockMutex(c))
       /\ SF_storeVars(LockFile(c))

-----------------------------------------------------------------------------
Points == {"idle", "mutex", "flock", "load", "save", "sync", "rename",
           "syncdir", "release", "unlock"}

\* Every variable keeps to the values its step in JSONStore gives it.
StoreTypeOK ==
    /\ mutex \in [Processes -> Callers \cup {NoCaller}]
    /\ flock \subseteq Callers
    /\ disk \in Contents \cup {Torn}
    /\ durable \subseteq Contents \cup {Torn}
    /\ pc \in [Callers -> Points]
    /\ request \in [Callers -> Request \cup {NoRequest}]
    /\ data \in [Callers -> Contents \cup {Nothing}]
    /\ tmp \in [Callers -> {"none", "written", "synced"}]
    /\ answer \in [Callers -> Answers \cup {"none"}]
    /\ faults \in 0..MaxFaults

\* The atomic writes of the README: neither the file readers find nor any file
\* a power loss can leave is torn, whatever step of save was interrupted.
NothingTorn == Torn \notin durable \cup {disk}

\* No lost update: what a writer of one process is about to rename over the
\* file still is its own change of the file that is there, whatever the others
\* have renamed since the writer was called.
SavesAreCurrent ==
    \A c \in Callers :
       pc[c] \in {"save", "sync", "rename"} => data[c] = After(request[c], disk)

\* The store as its callers know it.  A call takes effect when it renames, or
\* when it loads if it writes nothing; a call that fails has had no effect, so
\* trying it again is safe.
MapView == INSTANCE SessionMap WITH
    map <- disk,
    fallback <- durable,
    view <- [c \in Callers |-> IF answer[c] = "none" THEN Nothing ELSE data[c]]

MapSpec == MapView!Spec

\* Every call returns, though neither wait looks at the context: provided that
\* from some time on nobody reads, for the kernel lets readers that overlap
\* keep a writer waiting for the file lock.
CallsEnd ==
    <>[](\A c \in Callers : ~Reading(c)) =>
        \A c \in Callers : pc[c] # "idle" ~> pc[c] = "idle"
=============================================================================
