------------------------- MODULE SessionStoreProofs -------------------------
(***************************************************************************)
(* What the session store promises, for any number of callers, processes,  *)
(* reviews and faults: files are whole, no update is lost, and every call  *)
(* acts at one instant.  The argument rests on one fact, WritersAlone: a   *)
(* writer that holds the file lock holds it alone, so the file it loaded   *)
(* is still there when it renames.                                         *)
(***************************************************************************)
EXTENDS SessionStore, TLAPS

\* The points of a call that holds the file lock, and those of a save.
Locked == {"load", "save", "sync", "rename", "syncdir", "release"}
Saving == {"save", "sync", "rename"}
Answered == {"syncdir", "release", "unlock"}

\* A caller has a request exactly while it is not idle, and an answer once its
\* call has been decided.
CallsFollowPoints ==
    \A c \in Callers :
       /\ pc[c] = "idle" <=> request[c] = NoRequest
       /\ answer[c] # "none" <=> pc[c] \in Answered
       /\ pc[c] \in Saving => Writes(request[c])

LockFollowsPoints == \A c \in Callers : c \in flock <=> pc[c] \in Locked

WritersAlone ==
    \A c, d \in flock : c # d => ~Writes(request[c])

\* A save is the change of the file that is there, and only a synced file is
\* renamed.
SavesFollowFile ==
    \A c \in Callers :
       /\ pc[c] \in Saving => /\ data[c] = After(request[c], disk)
                              /\ Answer(request[c], disk) = "ok"
       /\ pc[c] = "rename" => tmp[c] = "synced"

FilesWhole == disk \in durable /\ Torn \notin durable

IInv ==
    /\ StoreTypeOK
    /\ CallsFollowPoints
    /\ LockFollowsPoints
    /\ WritersAlone
    /\ SavesFollowFile
    /\ FilesWhole

-----------------------------------------------------------------------------
\* A call has one of the answers, and leaves a map (Create, Update, Delete).
LEMMA CallsTyped ==
    ASSUME NEW q \in Request, NEW m \in Contents
    PROVE  /\ Answer(q, m) \in Answers \ {"error"}
           /\ After(q, m) \in Contents
BY DEF Answer, After, Writes, Request, Contents, Answers, WriteOps, ReadOps

\* A call that is refused, or only reads, changes nothing.
LEMMA CallsUnchanged ==
    ASSUME NEW q, NEW m, ~(Writes(q) /\ Answer(q, m) = "ok")
    PROVE  After(q, m) = m
BY DEF After

LEMMA Apart == /\ NoRequest \notin Request
               /\ Nothing \notin Contents
               /\ Torn \notin Contents
               /\ Empty \in Contents
BY CallsAssumption, StoreAssumption
   DEF Request, Contents, WriteOps, ReadOps, Empty

LEMMA InitKept == StoreInit => IInv
<1> SUFFICES ASSUME StoreInit PROVE IInv
  OBVIOUS
<1> USE DEF StoreInit
<1>1. StoreTypeOK
  BY Apart, StoreAssumption DEF StoreTypeOK, Points, Answers
<1>2. CallsFollowPoints /\ LockFollowsPoints /\ WritersAlone
  BY DEF CallsFollowPoints, LockFollowsPoints, WritersAlone, Answered, Saving, Locked
<1>3. SavesFollowFile /\ FilesWhole
  BY Apart DEF SavesFollowFile, FilesWhole, Saving
<1>4. QED
  BY <1>1, <1>2, <1>3 DEF IInv

-----------------------------------------------------------------------------
\* A call that was given up with an error: nothing of the file changes.
LEMMA GiveKept ==
    ASSUME IInv, NEW c \in Callers, NEW to \in {"unlock", "release"}, Give(c, to),
           pc[c] \in Saving \cup {"flock", "load"},
           to = "release" <=> c \in flock,
           faults' \in 0..MaxFaults,
           UNCHANGED <<mutex, flock, disk, durable, request>>
    PROVE  IInv'
<1> USE DEF IInv, StoreTypeOK, Give
<1>1. StoreTypeOK'
  BY DEF Points, Answers, Saving
<1>2. CallsFollowPoints'
  BY DEF CallsFollowPoints, Answered, Saving
<1>3. LockFollowsPoints' /\ WritersAlone'
  BY DEF LockFollowsPoints, WritersAlone, Locked, Saving
<1>4. SavesFollowFile' /\ FilesWhole'
  BY DEF SavesFollowFile, FilesWhole, Saving
<1>5. QED
  BY <1>1, <1>2, <1>3, <1>4 DEF IInv

\* Callers that return or die: their calls are over, the rest is as before.
LEMMA ForgetKept ==
    ASSUME IInv, NEW D \in SUBSET Callers, Forget(D), faults' \in 0..MaxFaults,
           flock' = flock \ D, mutex' \in [Processes -> Callers \cup {NoCaller}],
           \/ UNCHANGED <<disk, durable>>
           \/ D = Callers /\ disk' \in durable /\ durable' = {disk'}
    PROVE  IInv'
<1> USE DEF IInv, StoreTypeOK, Forget
<1>1. StoreTypeOK'
  BY DEF Points, FilesWhole
<1>2. CallsFollowPoints'
  BY Apart DEF CallsFollowPoints, Answered, Saving
<1>3. LockFollowsPoints' /\ WritersAlone'
  BY DEF LockFollowsPoints, WritersAlone, Locked
<1>4. SavesFollowFile' /\ FilesWhole'
  BY DEF SavesFollowFile, FilesWhole, Saving
<1>5. QED
  BY <1>1, <1>2, <1>3, <1>4 DEF IInv

LEMMA NextKept == IInv /\ [StoreNext]_storeVars => IInv'
<1> SUFFICES ASSUME IInv, [StoreNext]_storeVars
             PROVE  IInv'
  OBVIOUS
<1> USE StoreAssumption DEF IInv, StoreTypeOK
<1>1. CASE UNCHANGED storeVars
  BY <1>1 DEF storeVars, CallsFollowPoints, LockFollowsPoints, WritersAlone,
              SavesFollowFile, FilesWhole
<1>2. ASSUME NEW c \in Callers, NEW q \in Request, Call(c, q)
      PROVE  IInv'
  <2> USE <1>2 DEF Call, Step
  <2>1. StoreTypeOK'
    BY DEF Points
  <2>2. CallsFollowPoints'
    BY Apart DEF CallsFollowPoints, Answered, Saving
  <2>3. LockFollowsPoints' /\ WritersAlone'
    BY DEF LockFollowsPoints, WritersAlone, Locked
  <2>4. SavesFollowFile' /\ FilesWhole'
    BY DEF SavesFollowFile, FilesWhole, Saving
  <2>5. QED BY <2>1, <2>2, <2>3, <2>4
<1>3. ASSUME NEW c \in Callers, LockMutex(c)
      PROVE  IInv'
  <2> USE <1>3 DEF LockMutex, Step
  <2>1. StoreTypeOK'
    BY DEF Points
  <2>2. CallsFollowPoints' /\ LockFollowsPoints' /\ WritersAlone'
    BY DEF CallsFollowPoints, LockFollowsPoints, WritersAlone, Answered, Saving, Locked
  <2>3. SavesFollowFile' /\ FilesWhole'
    BY DEF SavesFollowFile, FilesWhole, Saving
  <2>4. QED BY <2>1, <2>2, <2>3
<1>4. ASSUME NEW c \in Callers, LockFile(c)
      PROVE  IInv'
  <2> USE <1>4 DEF LockFile, Step
  <2>1. StoreTypeOK'
    BY DEF Points
  <2>2. CallsFollowPoints' /\ LockFollowsPoints'
    BY DEF CallsFollowPoints, LockFollowsPoints, Answered, Saving, Locked
  <2>3. WritersAlone'
    BY DEF WritersAlone, Reading
  <2>4. SavesFollowFile' /\ FilesWhole'
    BY DEF SavesFollowFile, FilesWhole, Saving
  <2>5. QED BY <2>1, <2>2, <2>3, <2>4
<1>5. ASSUME NEW c \in Callers, LockFileFails(c) \/ Refuse(c) \/ LoadFails(c) \/ SaveFails(c)
      PROVE  IInv'
  <2>1. faults' \in 0..MaxFaults
    BY <1>5 DEF LockFileFails, Refuse, LoadFails, SaveFails, Strike
  <2>2. c \in flock <=> pc[c] \in Locked
    BY DEF LockFollowsPoints
  <2>3. CASE LockFileFails(c)
    BY <2>1, <2>2, <2>3, GiveKept DEF LockFileFails, Locked
  <2>4. CASE Refuse(c) \/ LoadFails(c)
    BY <2>1, <2>2, <2>4, GiveKept DEF Refuse, LoadFails, Locked
  <2>5. CASE SaveFails(c)
    BY <2>1, <2>2, <2>5, GiveKept DEF SaveFails, Locked, Saving
  <2>6. QED BY <1>5, <2>3, <2>4, <2>5
<1>6. ASSUME NEW c \in Callers, Load(c)
      PROVE  IInv'
  <2> DEFINE q == request[c]
  <2>1. q \in Request /\ disk \in Contents /\ c \in flock
    BY <1>6 DEF Load, CallsFollowPoints, LockFollowsPoints, Locked
  <2>2. After(q, disk) \in Contents /\ Answer(q, disk) \in Answers /\ "none" \notin Answers
    BY <2>1, CallsTyped DEF Answers
  <2> HIDE DEF q
  <2> USE <1>6 DEF Load, Step
  <2>3. StoreTypeOK'
    BY <2>2 DEF Points, q
  <2>4. CallsFollowPoints'
    BY <2>2 DEF CallsFollowPoints, Answered, Saving, q
  <2>5. LockFollowsPoints' /\ WritersAlone'
    BY DEF LockFollowsPoints, WritersAlone, Locked
  <2>6. SavesFollowFile' /\ FilesWhole'
    BY DEF SavesFollowFile, FilesWhole, Saving, q
  <2>7. QED BY <2>3, <2>4, <2>5, <2>6
<1>7. ASSUME NEW c \in Callers, WriteTemp(c) \/ SyncTemp(c)
      PROVE  IInv'
  <2> USE <1>7 DEF WriteTemp, SyncTemp, Step
  <2>1. StoreTypeOK'
    BY DEF Points
  <2>2. CallsFollowPoints'
    BY DEF CallsFollowPoints, Answered, Saving
  <2>3. LockFollowsPoints' /\ WritersAlone'
    BY DEF LockFollowsPoints, WritersAlone, Locked
  <2>4. SavesFollowFile' /\ FilesWhole'
    BY DEF SavesFollowFile, FilesWhole, Saving
  <2>5. QED BY <2>1, <2>2, <2>3, <2>4
<1>8. ASSUME NEW c \in Callers, Rename(c)
      PROVE  IInv'
  <2>1. /\ c \in flock /\ Writes(request[c]) /\ tmp[c] = "synced"
        /\ data[c] = After(request[c], disk)
        /\ request[c] \in Request
    BY <1>8 DEF Rename, Step, LockFollowsPoints, CallsFollowPoints, SavesFollowFile,
                Locked, Saving
  <2>2. data[c] \in Contents
    <3>1. disk \in Contents BY DEF FilesWhole
    <3>2. QED BY <2>1, <3>1, CallsTyped
  <2>3. \A d \in Callers : d # c => pc[d] \notin Saving
    BY <2>1 DEF WritersAlone, LockFollowsPoints, Locked, Saving
  <2> USE <1>8, <2>1, <2>2, <2>3 DEF Rename, Step
  <2>4. StoreTypeOK'
    BY DEF Points, Answers
  <2>5. CallsFollowPoints'
    BY DEF CallsFollowPoints, Answered, Saving
  <2>6. LockFollowsPoints' /\ WritersAlone'
    BY DEF LockFollowsPoints, WritersAlone, Locked
  <2>7. SavesFollowFile'
    BY DEF SavesFollowFile, Saving
  <2>8. FilesWhole'
    BY Apart DEF FilesWhole
  <2>9. QED BY <2>4, <2>5, <2>6, <2>7, <2>8
<1>9. ASSUME NEW c \in Callers, SyncDir(c) \/ SyncDirFails(c) \/ ReleaseFile(c)
      PROVE  IInv'
  <2> USE <1>9 DEF SyncDir, SyncDirFails, ReleaseFile, Step, Strike
  <2>1. StoreTypeOK'
    BY DEF Points
  <2>2. CallsFollowPoints'
    BY DEF CallsFollowPoints, Answered, Saving
  <2>3. LockFollowsPoints' /\ WritersAlone'
    BY DEF LockFollowsPoints, WritersAlone, Locked
  <2>4. SavesFollowFile' /\ FilesWhole'
    BY DEF SavesFollowFile, FilesWhole, Saving
  <2>5. QED BY <2>1, <2>2, <2>3, <2>4
<1>10. ASSUME NEW c \in Callers, Return(c)
       PROVE  IInv'
  <2>1. flock' = flock \ {c} /\ mutex' \in [Processes -> Callers \cup {NoCaller}]
    BY <1>10 DEF Return, LockFollowsPoints, Locked
  <2>2. QED BY <1>10, <2>1, ForgetKept DEF Return
<1>11. ASSUME NEW p \in Processes, Crash(p)
       PROVE  IInv'
  <2>1. faults' \in 0..MaxFaults
    BY <1>11 DEF Crash, Strike
  <2>2. QED BY <1>11, <2>1, ForgetKept DEF Crash, Drop
<1>12. ASSUME PowerLoss
       PROVE  IInv'
  <2>1. faults' \in 0..MaxFaults
    BY <1>12 DEF PowerLoss, Strike
  <2>2. QED BY <1>12, <2>1, ForgetKept DEF PowerLoss, Drop
<1>13. QED
  BY <1>1, <1>2, <1>3, <1>4, <1>5, <1>6, <1>7, <1>8, <1>9, <1>10, <1>11, <1>12
     DEF StoreNext, Serve, Proceed

\* The inductive invariant holds of every behaviour of the store.
THEOREM Invariant == StoreSpec => []IInv
BY InitKept, NextKept, PTL DEF StoreSpec

-----------------------------------------------------------------------------
\* Every variable of JSONStore's model keeps its type.
THEOREM StoreTyped == StoreSpec => []StoreTypeOK
<1>1. IInv => StoreTypeOK
  BY DEF IInv
<1>2. QED BY <1>1, Invariant, PTL

\* The atomic writes of the README: save never leaves, and a power loss never
\* brings back, a file that does not parse.
THEOREM NeverTorn == StoreSpec => []NothingTorn
<1>1. IInv => NothingTorn
  BY DEF IInv, FilesWhole, NothingTorn
<1>2. QED BY <1>1, Invariant, PTL

\* No lost update: what save is about to rename is the change of the file that
\* is there.
THEOREM NoLostUpdate == StoreSpec => []SavesAreCurrent
<1>1. IInv => SavesAreCurrent
  BY DEF IInv, SavesFollowFile, SavesAreCurrent, Saving
<1>2. QED BY <1>1, Invariant, PTL

-----------------------------------------------------------------------------
(* The refinement: every step of the store is a step of the map, or none.  *)

\* Both modules speak of the same calls.
LEMMA SameCalls ==
    /\ Request = MapView!Request
    /\ \A q, m : Answer(q, m) = MapView!Answer(q, m) /\ After(q, m) = MapView!After(q, m)
BY DEF Request, MapView!Request, WriteOps, MapView!WriteOps, ReadOps, MapView!ReadOps,
       Answer, MapView!Answer, After, MapView!After, Writes, MapView!Writes

LEMMA MapInit == StoreInit => MapView!Init
BY DEF StoreInit, MapView!Init, Empty, MapView!Empty

\* What the map's callers see of a step that takes no decision for caller c.
LEMMA MapStutter ==
    ASSUME UNCHANGED <<disk, durable, request, answer>>,
           \A c \in Callers : answer[c] # "none" => data'[c] = data[c]
    PROVE  UNCHANGED MapView!vars
BY DEF MapView!vars

LEMMA MapFails ==
    ASSUME IInv, NEW c \in Callers, NEW to, Give(c, to), pc[c] \notin Answered,
           pc[c] # "idle", UNCHANGED <<disk, durable, request>>
    PROVE  MapView!Fail(c)
<1>1. request[c] # NoRequest /\ answer[c] = "none"
  BY DEF IInv, CallsFollowPoints
<1>2. /\ answer' = [answer EXCEPT ![c] = "error"]
      /\ data' = [data EXCEPT ![c] = Nothing]
      /\ answer \in [Callers -> Answers \cup {"none"}]
      /\ data \in [Callers -> Contents \cup {Nothing}]
  BY DEF Give, IInv, StoreTypeOK
<1>3. QED
  BY <1>1, <1>2 DEF MapView!Fail, MapView!Waiting

LEMMA MapDrop ==
    ASSUME NEW D \in SUBSET Callers, Forget(D)
    PROVE  MapView!Drop(D)
BY DEF Forget, MapView!Drop

\* The instant of a call: it loads and is decided, or it renames.
LEMMA MapServes ==
    ASSUME IInv, NEW c \in Callers, pc[c] \in {"load", "rename"},
           answer' = [answer EXCEPT ![c] = Answer(request[c], disk)],
           Answer(request[c], disk) # "none",
           data' = [data EXCEPT ![c] = After(request[c], disk)],
           disk' = After(request[c], disk),
           durable' = durable \cup {disk'},
           UNCHANGED request
    PROVE  MapView!Serve(c)
<1>1. request[c] # NoRequest /\ answer[c] = "none"
  BY DEF IInv, CallsFollowPoints, Answered
<1>2. /\ answer \in [Callers -> Answers \cup {"none"}]
      /\ data \in [Callers -> Contents \cup {Nothing}]
  BY DEF IInv, StoreTypeOK
<1>3. QED
  BY <1>1, <1>2, SameCalls DEF MapView!Serve, MapView!Waiting

LEMMA MapNext == IInv /\ [StoreNext]_storeVars => [MapView!Next]_(MapView!vars)
<1> SUFFICES ASSUME IInv, [StoreNext]_storeVars
             PROVE  [MapView!Next]_(MapView!vars)
  OBVIOUS
<1>1. CASE UNCHANGED storeVars
  BY <1>1, MapStutter DEF storeVars
<1>2. ASSUME NEW c \in Callers, NEW q \in Request, Call(c, q)
      PROVE  MapView!Next
  <2>1. request[c] = NoRequest
    BY <1>2 DEF Call, Step, IInv, CallsFollowPoints
  <2>2. MapView!Call(c, q)
    BY <1>2, <2>1 DEF Call, MapView!Call
  <2>3. QED BY <2>2, SameCalls DEF MapView!Next
<1>3. ASSUME NEW c \in Callers,
             LockMutex(c) \/ LockFile(c) \/ WriteTemp(c) \/ SyncTemp(c) \/ ReleaseFile(c)
      PROVE  UNCHANGED MapView!vars
  BY <1>3, MapStutter DEF LockMutex, LockFile, WriteTemp, SyncTemp, ReleaseFile
<1>4. ASSUME NEW c \in Callers, LockFileFails(c) \/ Refuse(c) \/ LoadFails(c) \/ SaveFails(c)
      PROVE  MapView!Next
  <2>1. MapView!Fail(c)
    BY <1>4, MapFails DEF LockFileFails, Refuse, LoadFails, SaveFails, Answered
  <2>2. QED BY <2>1 DEF MapView!Next
<1>5. ASSUME NEW c \in Callers, Load(c)
      PROVE  [MapView!Next]_(MapView!vars)
  <2>1. CASE Writes(request[c]) /\ Answer(request[c], disk) = "ok"
    <3>1. answer[c] = "none" /\ data \in [Callers -> Contents \cup {Nothing}]
      BY <1>5 DEF Load, IInv, CallsFollowPoints, StoreTypeOK, Answered
    <3>2. QED BY <1>5, <2>1, <3>1, MapStutter DEF Load
  <2>2. CASE ~(Writes(request[c]) /\ Answer(request[c], disk) = "ok")
    <3>1. After(request[c], disk) = disk
      BY <2>2, CallsUnchanged
    <3>2. request[c] \in Request /\ disk \in Contents /\ disk \in durable
      BY <1>5 DEF Load, IInv, CallsFollowPoints, StoreTypeOK, FilesWhole
    <3>3. Answer(request[c], disk) # "none"
      BY <3>2, CallsTyped DEF Answers
    <3>4. MapView!Serve(c)
      BY <1>5, <2>2, <3>1, <3>2, <3>3, MapServes DEF Load
    <3>5. QED BY <3>4 DEF MapView!Next
  <2>3. QED BY <2>1, <2>2
<1>6. ASSUME NEW c \in Callers, Rename(c)
      PROVE  MapView!Next
  <2>1. /\ data[c] = After(request[c], disk)
        /\ Answer(request[c], disk) = "ok"
        /\ tmp[c] = "synced"
        /\ data \in [Callers -> Contents \cup {Nothing}]
    BY <1>6 DEF Rename, Step, IInv, SavesFollowFile, Saving, StoreTypeOK
  <2>2. MapView!Serve(c)
    BY <1>6, <2>1, MapServes DEF Rename, Step
  <2>3. QED BY <2>2 DEF MapView!Next
<1>7. ASSUME NEW c \in Callers, SyncDir(c)
      PROVE  MapView!Next
  BY <1>7 DEF SyncDir, MapView!Next, MapView!Settle
<1>8. ASSUME NEW c \in Callers, SyncDirFails(c)
      PROVE  UNCHANGED MapView!vars
  BY <1>8, MapStutter DEF SyncDirFails
<1>9. ASSUME NEW c \in Callers, Return(c)
      PROVE  MapView!Next
  <2>1. answer[c] # "none"
    BY <1>9 DEF Return, IInv, CallsFollowPoints, Answered
  <2>2. MapView!Return(c)
    BY <1>9, <2>1, MapDrop DEF Return, MapView!Return
  <2>3. QED BY <2>2 DEF MapView!Next
<1>10. ASSUME NEW p \in Processes, Crash(p)
       PROVE  MapView!Next
  BY <1>10, MapDrop DEF Crash, Drop, MapView!Crash, MapView!Next
<1>11. ASSUME PowerLoss
       PROVE  MapView!Next
  BY <1>11, MapDrop DEF PowerLoss, Drop, MapView!PowerLoss, MapView!Next
<1>12. QED
  BY <1>1, <1>2, <1>3, <1>4, <1>5, <1>6, <1>7, <1>8, <1>9, <1>10, <1>11
     DEF StoreNext, Serve, Proceed

\* JSONStore implements the atomic map the review service relies on.
THEOREM StoreIsMap == StoreSpec => MapSpec
BY MapInit, MapNext, Invariant, PTL DEF StoreSpec, MapSpec, MapView!Spec

-----------------------------------------------------------------------------
(* What the service relies on when it works on one review while others     *)
(* work on theirs.                                                         *)

\* The record of a review changes only by a write of that very review: nobody
\* who saves the whole file takes a record of another review back, adds one that
\* is there already, or brings a deleted one back with an update.
WritesStayApart ==
    [][\A i \in Ids : disk'[i] # disk[i] =>
          \/ PowerLoss
          \/ \E c \in Callers :
                /\ Rename(c)
                /\ Writes(request[c]) /\ request[c].id = i
                /\ request[c].op = "create" <=> disk[i] = NoRecord]_storeVars

\* Only a rename or a power loss changes the file.
LEMMA FileChanges ==
    ASSUME [StoreNext]_storeVars, ~PowerLoss, \A c \in Callers : ~Rename(c)
    PROVE  disk' = disk
<1>1. ASSUME NEW c \in Callers, NEW q \in Request, Call(c, q) PROVE disk' = disk
  BY <1>1 DEF Call
<1>2. ASSUME NEW c \in Callers, Serve(c) PROVE disk' = disk
  BY <1>2 DEF Serve, Proceed, LockMutex, LockFile, LockFileFails, Load, LoadFails, Refuse,
     WriteTemp, SyncTemp, SaveFails, SyncDir, SyncDirFails, ReleaseFile, Return
<1>3. ASSUME NEW p \in Processes, Crash(p) PROVE disk' = disk
  BY <1>3 DEF Crash
<1>4. QED
  BY <1>1, <1>2, <1>3 DEF StoreNext, storeVars

\* save writes the whole file, and changes one record of it.
THEOREM OthersAreKept == StoreSpec => WritesStayApart
<1>1. ASSUME IInv, [StoreNext]_storeVars, NEW i \in Ids, disk'[i] # disk[i], ~PowerLoss
      PROVE  \E c \in Callers : /\ Rename(c)
                                /\ Writes(request[c]) /\ request[c].id = i
                                /\ request[c].op = "create" <=> disk[i] = NoRecord
  <2>1. PICK c \in Callers : Rename(c)
    BY <1>1, FileChanges
  <2>2. /\ disk' = After(request[c], disk) /\ Answer(request[c], disk) = "ok"
        /\ Writes(request[c])
    BY <1>1, <2>1 DEF Rename, Step, IInv, SavesFollowFile, CallsFollowPoints, Saving
  <2>3. disk \in Contents
    BY <1>1 DEF IInv, StoreTypeOK, FilesWhole
  <2>4. request[c].id = i
    BY <1>1, <2>2, <2>3 DEF After, Contents
  <2>5. request[c].op = "create" <=> disk[i] = NoRecord
    BY <2>2, <2>4 DEF Answer, Writes, WriteOps
  <2>6. QED
    BY <2>1, <2>2, <2>4, <2>5
<1>2. IInv /\ [StoreNext]_storeVars =>
         [\A i \in Ids : disk'[i] # disk[i] =>
            \/ PowerLoss
            \/ \E c \in Callers :
                  /\ Rename(c)
                  /\ Writes(request[c]) /\ request[c].id = i
                  /\ request[c].op = "create" <=> disk[i] = NoRecord]_storeVars
  BY <1>1
<1>3. QED
  BY <1>2, Invariant, PTL DEF StoreSpec, WritesStayApart

-----------------------------------------------------------------------------
(* What a power loss may undo.                                             *)

\* As long as no step has failed and no process died, a power loss leaves the
\* file as it is, or undoes the one write whose caller has no answer yet.
OpenWriteAtRisk ==
    faults = 0 =>
       \/ durable = {disk}
       \/ \E c \in Callers, before \in Contents :
             /\ pc[c] = "syncdir"
             /\ durable = {before, disk} /\ disk = After(request[c], before)

LEMMA RiskKept ==
    IInv /\ OpenWriteAtRisk /\ [StoreNext]_storeVars => OpenWriteAtRisk'
<1> SUFFICES ASSUME IInv, OpenWriteAtRisk, [StoreNext]_storeVars, faults' = 0
             PROVE  \/ durable' = {disk'}
                    \/ \E c \in Callers, before \in Contents :
                          /\ pc'[c] = "syncdir"
                          /\ durable' = {before, disk'}
                          /\ disk' = After(request'[c], before)
  BY DEF OpenWriteAtRisk
<1>1. faults = 0 /\ ~ (faults' = faults + 1)
  <2>1. faults \in Nat
    BY StoreAssumption DEF IInv, StoreTypeOK
  <2>2. faults' \in {faults, faults + 1}
    <3>1. ASSUME NEW c \in Callers, Serve(c) PROVE faults' \in {faults, faults + 1}
      BY <3>1 DEF Serve, Proceed, LockMutex, LockFile, LockFileFails, Load, LoadFails, Refuse,
         WriteTemp, SyncTemp, Rename, SaveFails, SyncDir, SyncDirFails, ReleaseFile, Return,
         Strike
    <3>2. QED
      BY <3>1 DEF StoreNext, Call, Crash, PowerLoss, Strike, storeVars
  <2>3. QED
    BY <2>1, <2>2
<1>2. pc \in [Callers -> Points] /\ disk \in Contents
  BY DEF IInv, StoreTypeOK, FilesWhole
<1>3. ASSUME UNCHANGED <<disk, durable, request>>,
             \A c \in Callers : pc[c] = "syncdir" => pc'[c] = "syncdir"
      PROVE  \/ durable' = {disk'}
             \/ \E c \in Callers, before \in Contents :
                   /\ pc'[c] = "syncdir"
                   /\ durable' = {before, disk'}
                   /\ disk' = After(request'[c], before)
  BY <1>1, <1>3 DEF OpenWriteAtRisk
<1>4. CASE UNCHANGED storeVars
  BY <1>3, <1>4 DEF storeVars
<1>5. ASSUME NEW c \in Callers, NEW q \in Request, Call(c, q)
      PROVE  \/ durable' = {disk'}
             \/ \E d \in Callers, before \in Contents :
                   /\ pc'[d] = "syncdir"
                   /\ durable' = {before, disk'}
                   /\ disk' = After(request'[d], before)
  BY <1>1, <1>2, <1>5 DEF Call, Step, OpenWriteAtRisk
<1>6. ASSUME NEW c \in Callers,
             \/ LockMutex(c) \/ LockFile(c) \/ LockFileFails(c) \/ Load(c) \/ LoadFails(c)
             \/ Refuse(c) \/ WriteTemp(c) \/ SyncTemp(c) \/ SaveFails(c) \/ ReleaseFile(c)
      PROVE  UNCHANGED <<disk, durable, request>>
             /\ \A d \in Callers : pc[d] = "syncdir" => pc'[d] = "syncdir"
  BY <1>2, <1>6 DEF LockMutex, LockFile, LockFileFails, Load, LoadFails, Refuse,
     WriteTemp, SyncTemp, SaveFails, ReleaseFile, Step, Give
<1>7. ASSUME NEW c \in Callers, Rename(c)
      PROVE  \E before \in Contents :
                /\ pc'[c] = "syncdir"
                /\ durable' = {before, disk'}
                /\ disk' = After(request'[c], before)
  <2>1. /\ disk' = data[c] /\ data[c] = After(request[c], disk) /\ tmp[c] = "synced"
        /\ request' = request /\ Writes(request[c]) /\ c \in flock /\ pc[c] = "rename"
    BY <1>7 DEF Rename, Step, IInv, SavesFollowFile, CallsFollowPoints, LockFollowsPoints,
       Saving, Locked
  <2>2. \A d \in Callers : pc[d] # "syncdir"
    BY <2>1 DEF IInv, WritersAlone, LockFollowsPoints, Locked
  <2>3. durable = {disk}
    BY <1>1, <2>2 DEF OpenWriteAtRisk
  <2>4. durable' = {disk, disk'} /\ pc'[c] = "syncdir"
    BY <1>2, <1>7, <2>1, <2>3 DEF Rename, Step
  <2>5. QED
    BY <1>2, <2>1, <2>4
<1>8. ASSUME NEW c \in Callers, SyncDir(c) PROVE durable' = {disk'}
  BY <1>8 DEF SyncDir
<1>9. ASSUME NEW c \in Callers, SyncDirFails(c) PROVE FALSE
  BY <1>1, <1>9 DEF SyncDirFails, Strike
<1>10. ASSUME NEW c \in Callers, Return(c)
       PROVE  \/ durable' = {disk'}
              \/ \E d \in Callers, before \in Contents :
                    /\ pc'[d] = "syncdir"
                    /\ durable' = {before, disk'}
                    /\ disk' = After(request'[d], before)
  <2>1. /\ UNCHANGED <<disk, durable>>
        /\ \A d \in Callers : pc[d] = "syncdir" => pc'[d] = pc[d] /\ request'[d] = request[d]
    BY <1>10 DEF Return, Forget
  <2>2. QED
    BY <1>1, <2>1 DEF OpenWriteAtRisk
<1>11. ASSUME NEW p \in Processes, Crash(p) PROVE FALSE
  BY <1>1, <1>11 DEF Crash, Strike
<1>12. CASE PowerLoss
  BY <1>12 DEF PowerLoss
<1>13. QED
  BY <1>3, <1>4, <1>5, <1>6, <1>7, <1>8, <1>9, <1>10, <1>11, <1>12
     DEF StoreNext, Serve, Proceed

\* An acknowledged write survives a power loss, unless a step of the store had
\* failed (the sync of the directory, whose error save ignores) or a process died
\* in the middle of one.
THEOREM AcknowledgedWritesLast == StoreSpec => []OpenWriteAtRisk
<1>1. StoreInit => OpenWriteAtRisk
  BY DEF StoreInit, OpenWriteAtRisk
<1>2. QED
  BY <1>1, RiskKept, Invariant, PTL DEF StoreSpec

-----------------------------------------------------------------------------
(* Nobody waits for ever on somebody who waits for him, and no call runs    *)
(* for ever.  The wait for the file lock is made under the mutex, which no  *)
(* holder of the file lock asks for.                                        *)

\* From its Lock to its Unlock, and only then, a call has the mutex of its
\* process.
Inside == {"flock", "unlock"} \cup Locked

MutexFollowsPoints ==
    /\ \A c \in Callers : pc[c] \in Inside <=> mutex[Process[c]] = c
    /\ \A p \in Processes : mutex[p] # NoCaller => Process[mutex[p]] = p

LEMMA MutexKept ==
    IInv /\ MutexFollowsPoints /\ [StoreNext]_storeVars => MutexFollowsPoints'
<1> SUFFICES ASSUME IInv, MutexFollowsPoints, [StoreNext]_storeVars
             PROVE  MutexFollowsPoints'
  OBVIOUS
<1>1. /\ pc \in [Callers -> Points]
      /\ mutex \in [Processes -> Callers \cup {NoCaller}]
      /\ Process \in [Callers -> Processes] /\ NoCaller \notin Callers
  BY StoreAssumption DEF IInv, StoreTypeOK
<1>2. ASSUME UNCHANGED mutex,
             \A c \in Callers : pc'[c] \in Inside <=> pc[c] \in Inside
      PROVE  MutexFollowsPoints'
  BY <1>2 DEF MutexFollowsPoints
<1>3. CASE UNCHANGED storeVars
  BY <1>2, <1>3 DEF storeVars
<1>4. ASSUME NEW c \in Callers, NEW q \in Request, Call(c, q) PROVE MutexFollowsPoints'
  BY <1>1, <1>2, <1>4 DEF Call, Step, Inside, Locked
<1>5. ASSUME NEW c \in Callers, LockMutex(c) PROVE MutexFollowsPoints'
  BY <1>1, <1>5 DEF LockMutex, Step, Inside, Locked, MutexFollowsPoints
<1>6. ASSUME NEW c \in Callers,
             \/ LockFile(c) \/ LockFileFails(c) \/ Load(c) \/ LoadFails(c)
             \/ Refuse(c) \/ WriteTemp(c) \/ SyncTemp(c) \/ Rename(c) \/ SaveFails(c)
             \/ SyncDir(c) \/ SyncDirFails(c) \/ ReleaseFile(c)
      PROVE  MutexFollowsPoints'
  <2>1. /\ UNCHANGED mutex
        /\ pc[c] \in Inside
        /\ \E to \in Inside : pc' = [pc EXCEPT ![c] = to]
    BY <1>6 DEF LockFile, LockFileFails, Load, LoadFails, Refuse, WriteTemp, SyncTemp,
       Rename, SaveFails, SyncDir, SyncDirFails, ReleaseFile, Step, Give, Inside, Locked
  <2>2. QED
    BY <1>1, <1>2, <2>1
<1>7. ASSUME NEW c \in Callers, Return(c) PROVE MutexFollowsPoints'
  BY <1>1, <1>7 DEF Return, Forget, Inside, Locked, MutexFollowsPoints
<1>8. ASSUME NEW D \in SUBSET Callers, Drop(D) PROVE MutexFollowsPoints'
  BY <1>1, <1>8 DEF Drop, Forget, Inside, Locked, MutexFollowsPoints
<1>9. ASSUME NEW p \in Processes, Crash(p) PROVE MutexFollowsPoints'
  BY <1>8, <1>9 DEF Crash
<1>10. CASE PowerLoss
  BY <1>8, <1>10 DEF PowerLoss
<1>11. QED
  BY <1>3, <1>4, <1>5, <1>6, <1>7, <1>9, <1>10 DEF StoreNext, Serve, Proceed

\* The guard of one of the steps of c holds.
CanGo(c) ==
    \/ pc[c] = "mutex" /\ mutex[Process[c]] = NoCaller
    \/ pc[c] = "flock" /\ \A d \in flock : Reading(c) /\ Reading(d)
    \/ pc[c] \in Locked \cup {"unlock"}

\* Whoever is inside a call goes on, or waits for a call that goes on: the one
\* with the mutex of its process, or one with the file lock.
NobodyIsStuck ==
    \A c \in Callers : pc[c] # "idle" =>
        \E d \in {c, mutex[Process[c]]} \cup flock : d \in Callers /\ CanGo(d)

\* The two locks of the store, whatever calls, deaths and failing steps come
\* between them, never make a circle.
THEOREM StoreNeverStuck == StoreSpec => []NobodyIsStuck
<1>1. StoreInit => MutexFollowsPoints
  BY StoreAssumption DEF StoreInit, MutexFollowsPoints, Inside, Locked
<1>2. ASSUME IInv, MutexFollowsPoints, NEW c \in Callers, pc[c] # "idle"
      PROVE  \E d \in {c, mutex[Process[c]]} \cup flock : d \in Callers /\ CanGo(d)
  <2>1. /\ pc \in [Callers -> Points] /\ flock \subseteq Callers
        /\ mutex \in [Processes -> Callers \cup {NoCaller}]
        /\ Process \in [Callers -> Processes] /\ NoCaller \notin Callers
    BY <1>2, StoreAssumption DEF IInv, StoreTypeOK
  <2>2. CASE flock # {}
    BY <1>2, <2>1, <2>2 DEF IInv, LockFollowsPoints, CanGo
  <2>3. CASE flock = {} /\ pc[c] = "mutex" /\ mutex[Process[c]] # NoCaller
    <3>1. PICK m \in Callers : m = mutex[Process[c]]
      BY <2>1, <2>3
    <3>2. Process[m] = Process[c]
      BY <1>2, <2>1, <2>3, <3>1 DEF MutexFollowsPoints
    <3>3. pc[m] \in Inside
      BY <1>2, <3>1, <3>2 DEF MutexFollowsPoints
    <3>4. CanGo(m)
      BY <2>3, <3>3 DEF CanGo, Inside
    <3>5. QED
      BY <3>1, <3>4
  <2>4. CASE flock = {} /\ ~(pc[c] = "mutex" /\ mutex[Process[c]] # NoCaller)
    BY <1>2, <2>1, <2>4 DEF CanGo, Points, Locked
  <2>5. QED
    BY <2>2, <2>3, <2>4
<1>3. IInv /\ MutexFollowsPoints => NobodyIsStuck
  BY <1>2 DEF NobodyIsStuck
<1>4. QED
  BY <1>1, <1>3, MutexKept, Invariant, PTL DEF StoreSpec

\* How far a caller is from the end of its call.
Ahead ==
    [mutex |-> 9, flock |-> 8, load |-> 7, save |-> 6, sync |-> 5, rename |-> 4,
     syncdir |-> 3, release |-> 2, unlock |-> 1, idle |-> 0]

\* No call goes back: it makes at most nine steps, a killed or a failing one
\* fewer, and only a new request starts another.
CallsGoForward ==
    [][\A c \in Callers :
          \/ pc'[c] = pc[c]
          \/ pc[c] = "idle" /\ pc'[c] = "mutex"
          \/ Ahead[pc'[c]] < Ahead[pc[c]]]_storeVars

\* A call of the store is over after a bounded number of steps of its own.
THEOREM StoreCallsGoForward == StoreSpec => CallsGoForward
<1>1. ASSUME IInv, [StoreNext]_storeVars, NEW c \in Callers,
             pc'[c] # pc[c], ~(pc[c] = "idle" /\ pc'[c] = "mutex")
      PROVE  Ahead[pc'[c]] < Ahead[pc[c]]
  <2>1. pc \in [Callers -> Points]
    BY <1>1 DEF IInv, StoreTypeOK
  <2>2. ASSUME pc'[c] = "idle" PROVE Ahead[pc'[c]] < Ahead[pc[c]]
    BY <1>1, <2>1, <2>2 DEF Ahead, Points
  <2>3. ASSUME NEW d \in Callers, NEW q \in Request, Call(d, q)
        PROVE  FALSE
    BY <1>1, <2>1, <2>3 DEF Call, Step
  <2>4. ASSUME NEW d \in Callers,
               LockMutex(d) \/ LockFile(d) \/ LockFileFails(d) \/ LoadFails(d) \/ Refuse(d)
        PROVE  Ahead[pc'[c]] < Ahead[pc[c]]
    BY <1>1, <2>1, <2>4 DEF LockMutex, LockFile, LockFileFails, LoadFails, Refuse, Step, Give,
       Ahead, Points
  <2>5. ASSUME NEW d \in Callers, Load(d) PROVE Ahead[pc'[c]] < Ahead[pc[c]]
    BY <1>1, <2>1, <2>5 DEF Load, Step, Ahead, Points
  <2>6. ASSUME NEW d \in Callers, WriteTemp(d) \/ SyncTemp(d) \/ Rename(d)
        PROVE  Ahead[pc'[c]] < Ahead[pc[c]]
    BY <1>1, <2>1, <2>6 DEF WriteTemp, SyncTemp, Rename, Step, Ahead, Points
  <2>7. ASSUME NEW d \in Callers,
               SaveFails(d) \/ SyncDir(d) \/ SyncDirFails(d) \/ ReleaseFile(d)
        PROVE  Ahead[pc'[c]] < Ahead[pc[c]]
    BY <1>1, <2>1, <2>7 DEF SaveFails, SyncDir, SyncDirFails, ReleaseFile, Step, Give,
       Ahead, Points
  <2>8. ASSUME NEW d \in Callers, Return(d) PROVE Ahead[pc'[c]] < Ahead[pc[c]]
    BY <1>1, <2>2, <2>8 DEF Return, Forget
  <2>9. ASSUME \/ \E p \in Processes : Crash(p)
               \/ PowerLoss
        PROVE  Ahead[pc'[c]] < Ahead[pc[c]]
    BY <1>1, <2>2, <2>9 DEF Crash, PowerLoss, Drop, Forget
  <2>10. QED
    BY <1>1, <2>3, <2>4, <2>5, <2>6, <2>7, <2>8, <2>9
       DEF StoreNext, Serve, Proceed, storeVars
<1>2. IInv /\ [StoreNext]_storeVars =>
         [\A c \in Callers :
             \/ pc'[c] = pc[c]
             \/ pc[c] = "idle" /\ pc'[c] = "mutex"
             \/ Ahead[pc'[c]] < Ahead[pc[c]]]_storeVars
  BY <1>1
<1>3. QED
  BY <1>2, Invariant, PTL DEF StoreSpec, CallsGoForward
=============================================================================
