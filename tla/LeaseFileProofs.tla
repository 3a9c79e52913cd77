--------------------------- MODULE LeaseFileProofs --------------------------
(***************************************************************************)
(* The lease of one review, for any number of agents and files.  The path  *)
(* is removed only after the record was deleted, so while there is a       *)
(* record every open file of the review is the one the path names, and its *)
(* lock excludes.                                                          *)
(***************************************************************************)
EXTENDS LeaseFile, Naturals, TLAPS

\* The points at which an agent has the lease file open, and holds its lock.
HasFile == {"flock", "get", "work", "remove", "release"}
HasLock == {"get", "work", "remove", "release"}

FilesFollowPoints == \A a \in Agents : opened[a] # NoFile <=> place[a] \in HasFile

\* A lock is held on the file its holder has open, from Lock to CloseFile.
LocksFollowPoints ==
    /\ \A a \in Agents : place[a] \in HasLock => holder[opened[a]] = a
    /\ \A f \in Files : holder[f] # NoOwner =>
          opened[holder[f]] = f /\ place[holder[f]] \in HasLock

\* A file the path no longer names is that of a deleted review.
OldFilesAreDeleted ==
    \A a \in Agents : opened[a] \notin {NoFile, linked} => record = "deleted"

\* What an agent that works has found, and what a remover has done.
WorkHasRecord ==
    \A a \in Agents :
       /\ place[a] = "work" =>
             /\ record # "deleted"
             /\ tool[a] # "start" => record = "present"
       /\ place[a] = "remove" => record = "deleted"

IInv ==
    /\ LeaseFileTypeOK
    /\ FilesFollowPoints
    /\ LocksFollowPoints
    /\ OldFilesAreDeleted
    /\ WorkHasRecord

-----------------------------------------------------------------------------
LEMMA OwnersTyped == /\ NoFile \notin Files
                     /\ NoOwner \notin Agents
BY LeaseAssumption

\* While there is a record, or is to be one, whoever holds a lock of the review
\* is its owner, and holds it alone.
LEMMA LockersOwn ==
    ASSUME IInv, record # "deleted", NEW a \in Agents, place[a] \in HasLock
    PROVE  /\ Owner = a /\ linked = opened[a] /\ linked \in Files
           /\ \A b \in Agents : place[b] \in HasLock => a = b
<1>1. \A b \in Agents : place[b] \in HasLock =>
         opened[b] \in Files /\ opened[b] = linked /\ holder[linked] = b
  BY OwnersTyped DEF IInv, LeaseFileTypeOK, FilesFollowPoints, LocksFollowPoints,
                     OldFilesAreDeleted, HasLock, HasFile
<1>2. QED BY <1>1, OwnersTyped DEF Owner

LEMMA InitKept == LeaseFileInit => IInv
BY OwnersTyped
   DEF LeaseFileInit, IInv, LeaseFileTypeOK, FilesFollowPoints, LocksFollowPoints, OldFilesAreDeleted,
       WorkHasRecord, HasFile, HasLock, Places, Tools

\* An agent closes its file and is idle again: it was refused, has released or
\* has died.
LEMMA CloseKept ==
    ASSUME IInv, NEW a \in Agents, place' = [place EXCEPT ![a] = "idle"], CloseFile(a),
           UNCHANGED <<record, linked, tool>>
    PROVE  IInv'
<1> USE DEF IInv, LeaseFileTypeOK, CloseFile
<1>1. LeaseFileTypeOK'
  BY DEF Places
<1>2. FilesFollowPoints'
  BY DEF FilesFollowPoints, HasFile
<1>3. LocksFollowPoints'
  BY OwnersTyped DEF FilesFollowPoints, LocksFollowPoints, HasLock, HasFile
<1>4. OldFilesAreDeleted' /\ WorkHasRecord'
  BY DEF OldFilesAreDeleted, WorkHasRecord
<1>5. QED
  BY <1>1, <1>2, <1>3, <1>4

\* An agent that holds a lock goes from one step to the next.
LEMMA MoveKept ==
    ASSUME IInv, NEW a \in Agents, NEW to \in HasLock, place[a] \in HasLock,
           place' = [place EXCEPT ![a] = to],
           to = "work" => /\ record # "deleted"
                          /\ tool[a] # "start" => record = "present",
           to = "remove" => record' = "deleted",
           \/ record' = record
           \/ record' = "deleted" /\ record # "deleted" /\ to = "remove",
           \/ linked' = linked
           \/ linked' = NoFile /\ record = "deleted",
           UNCHANGED <<opened, holder, tool>>
    PROVE  IInv'
<1> USE DEF IInv, LeaseFileTypeOK
<1>1. LeaseFileTypeOK'
  BY DEF Places, HasLock
<1>2. FilesFollowPoints' /\ LocksFollowPoints'
  BY DEF FilesFollowPoints, LocksFollowPoints, HasLock, HasFile
<1>3. OldFilesAreDeleted'
  BY DEF OldFilesAreDeleted
<1>4. WorkHasRecord'
  <2>1. CASE record' = record
    BY <2>1 DEF WorkHasRecord, HasLock
  <2>2. CASE record' = "deleted" /\ record # "deleted" /\ to = "remove"
    BY <2>2, LockersOwn DEF WorkHasRecord, HasLock
  <2>3. QED BY <2>1, <2>2
<1>5. QED
  BY <1>1, <1>2, <1>3, <1>4

LEMMA NextKept == IInv /\ [LeaseFileNext]_leaseFileVars => IInv'
<1> SUFFICES ASSUME IInv, [LeaseFileNext]_leaseFileVars
             PROVE  IInv'
  OBVIOUS
<1>1. CASE UNCHANGED leaseFileVars
  BY <1>1 DEF leaseFileVars, IInv, LeaseFileTypeOK, FilesFollowPoints, LocksFollowPoints,
              OldFilesAreDeleted, WorkHasRecord
<1>2. ASSUME NEW a \in Agents, NEW t \in Tools, Begin(a, t)
      PROVE  IInv'
  BY <1>2 DEF Begin, Move, IInv, LeaseFileTypeOK, FilesFollowPoints, LocksFollowPoints,
              OldFilesAreDeleted, WorkHasRecord, HasFile, HasLock, Places
<1>3. ASSUME NEW a \in Agents, Open(a)
      PROVE  IInv'
  <2> USE DEF IInv, LeaseFileTypeOK
  <2>1. PICK f \in Files :
           /\ f = linked \/ (linked = NoFile /\ \A b \in Agents : opened[b] # f)
           /\ opened' = [opened EXCEPT ![a] = f]
           /\ linked' = f
    BY <1>3 DEF Open
  <2> USE <1>3, <2>1 DEF Open, Move
  <2>2. LeaseFileTypeOK'
    BY DEF Places
  <2>3. FilesFollowPoints'
    BY OwnersTyped DEF FilesFollowPoints, HasFile
  <2>4. LocksFollowPoints'
    BY DEF LocksFollowPoints, HasLock
  <2>5. OldFilesAreDeleted' /\ WorkHasRecord'
    BY OwnersTyped DEF OldFilesAreDeleted, WorkHasRecord
  <2>6. QED BY <2>2, <2>3, <2>4, <2>5
<1>4. ASSUME NEW a \in Agents, Lock(a)
      PROVE  IInv'
  <2>1. opened[a] \in Files
    BY <1>4, OwnersTyped DEF Lock, Move, IInv, LeaseFileTypeOK, FilesFollowPoints, HasFile
  <2> USE <1>4, <2>1, OwnersTyped DEF Lock, Move, IInv, LeaseFileTypeOK
  <2>2. LeaseFileTypeOK'
    BY DEF Places
  <2>3. FilesFollowPoints' /\ LocksFollowPoints'
    BY DEF FilesFollowPoints, LocksFollowPoints, HasLock, HasFile
  <2>4. OldFilesAreDeleted' /\ WorkHasRecord'
    BY DEF OldFilesAreDeleted, WorkHasRecord
  <2>5. QED BY <2>2, <2>3, <2>4
<1>5. ASSUME NEW a \in Agents, LockBusy(a) \/ Release(a) \/ Die(a)
      PROVE  IInv'
  BY <1>5, CloseKept DEF LockBusy, Release, Die, Move
<1>6. ASSUME NEW a \in Agents, Get(a)
      PROVE  IInv'
  BY <1>6, MoveKept DEF Get, Move, HasLock
<1>7. ASSUME NEW a \in Agents, Create(a)
      PROVE  IInv'
  <2>1. \A b \in Agents : b # a => place[b] \notin {"work", "remove"}
    BY <1>7, LockersOwn DEF Create, HasLock
  <2>2. QED
    BY <1>7, <2>1 DEF Create, IInv, LeaseFileTypeOK, FilesFollowPoints, LocksFollowPoints,
                OldFilesAreDeleted, WorkHasRecord
<1>8. ASSUME NEW a \in Agents, Delete(a)
      PROVE  IInv'
  <2>1. record # "deleted"
    BY <1>8 DEF Delete, Move, IInv, WorkHasRecord
  <2>2. QED BY <1>8, <2>1, MoveKept DEF Delete, Move, HasLock
<1>9. ASSUME NEW a \in Agents, Remove(a) \/ RemoveFails(a) \/ Finish(a)
      PROVE  IInv'
  <2>1. place[a] = "remove" => record = "deleted"
    BY DEF IInv, WorkHasRecord
  <2>2. QED BY <1>9, <2>1, MoveKept DEF Remove, RemoveFails, Finish, Move, HasLock
<1>10. QED
  BY <1>1, <1>2, <1>3, <1>4, <1>5, <1>6, <1>7, <1>8, <1>9 DEF LeaseFileNext

\* The inductive invariant holds of every behaviour of the lease.
THEOREM Invariant == LeaseFileSpec => []IInv
BY InitKept, NextKept, PTL DEF LeaseFileSpec

-----------------------------------------------------------------------------
\* Every variable of the lease's model keeps its type.
THEOREM LeaseTyped == LeaseFileSpec => []LeaseFileTypeOK
<1>1. IInv => LeaseFileTypeOK
  BY DEF IInv
<1>2. QED BY <1>1, Invariant, PTL

\* Whoever found the record under its lock works on it alone, and it stays.
THEOREM WorkIsExclusive == LeaseFileSpec => []WorkersAlone
<1>1. IInv => WorkersAlone
  <2> SUFFICES ASSUME IInv, NEW a \in Agents, NEW b \in Agents, place[a] = "work",
                      place[b] \in {"work", "remove"} \/ record = "deleted"
               PROVE  a = b
    BY DEF WorkersAlone
  <2>1. record # "deleted"
    BY DEF IInv, WorkHasRecord
  <2>2. QED BY <2>1, LockersOwn DEF HasLock
<1>2. QED BY <1>1, Invariant, PTL

\* A lock is the lease, or the review is deleted (TakeLease of ReviewService).
THEOREM LocksAreLeases == LeaseFileSpec => LockTakesLease
<1>1. IInv /\ [LeaseFileNext]_leaseFileVars =>
         [\A a \in Agents :
             place[a] = "flock" /\ place'[a] = "get" =>
                \/ Owner = NoOwner /\ Owner' = a
                \/ record = "deleted" /\ Owner' = Owner]_leaseFileVars
  <2> SUFFICES ASSUME IInv, [LeaseFileNext]_leaseFileVars, NEW a \in Agents,
                      place[a] = "flock", place'[a] = "get"
               PROVE  \/ Owner = NoOwner /\ Owner' = a
                      \/ record = "deleted" /\ Owner' = Owner
    OBVIOUS
  <2>1. Lock(a)
    BY DEF leaseFileVars, LeaseFileNext, Begin, Open, LockBusy, Get, Create, Delete, Remove, RemoveFails,
           Finish, Release, Die, Move, Lock, IInv, LeaseFileTypeOK
  <2>2. opened[a] \in Files /\ opened[a] # NoFile
    BY OwnersTyped DEF IInv, LeaseFileTypeOK, FilesFollowPoints, HasFile
  <2>3. CASE opened[a] = linked
    BY <2>1, <2>2, <2>3 DEF Lock, Owner, IInv, LeaseFileTypeOK
  <2>4. CASE opened[a] # linked
    BY <2>1, <2>2, <2>4 DEF Lock, Owner, IInv, LeaseFileTypeOK, OldFilesAreDeleted
  <2>5. QED BY <2>3, <2>4
<1>2. QED BY <1>1, Invariant, PTL DEF LeaseFileSpec, LockTakesLease

\* A busy lock has an owner, or the review is deleted (MeetsBusy of ReviewService).
THEOREM BusyIsOwned == LeaseFileSpec => BusyHasOwner
<1>1. IInv /\ [LeaseFileNext]_leaseFileVars =>
         [\A a \in Agents : LockBusy(a) => Owner # NoOwner \/ record = "deleted"]_leaseFileVars
  BY OwnersTyped DEF LockBusy, Move, Owner, IInv, LeaseFileTypeOK, FilesFollowPoints, HasFile,
                     OldFilesAreDeleted
<1>2. QED BY <1>1, Invariant, PTL DEF LeaseFileSpec, BusyHasOwner

\* The lease file behaves as ReviewService assumes of a lease.
THEOREM ServiceIsRight == LeaseFileSpec => ServiceSeesLease
BY LocksAreLeases, BusyIsOwned DEF ServiceSeesLease

-----------------------------------------------------------------------------
\* Closing a file frees the lease if its holder was the owner, and only then.
LEMMA CloseFrees ==
    ASSUME IInv, NEW a \in Agents, CloseFile(a), UNCHANGED <<record, linked>>
    PROVE  LeaseView!Free \/ UNCHANGED LeaseView!vars
BY OwnersTyped DEF CloseFile, Owner, IInv, LeaseFileTypeOK, LeaseView!Free, LeaseView!vars

\* A step that leaves the record, the path and the locks alone is none of the lease.
LEMMA LeaseStutter ==
    ASSUME UNCHANGED <<record, linked, holder>>
    PROVE  UNCHANGED LeaseView!vars
BY DEF Owner, LeaseView!vars

LEMMA LeaseNext == IInv /\ [LeaseFileNext]_leaseFileVars => [LeaseView!Next]_(LeaseView!vars)
<1> SUFFICES ASSUME IInv, [LeaseFileNext]_leaseFileVars
             PROVE  [LeaseView!Next]_(LeaseView!vars)
  OBVIOUS
<1>1. CASE UNCHANGED leaseFileVars
  BY <1>1, LeaseStutter DEF leaseFileVars
<1>2. ASSUME NEW a \in Agents,
             (\E t \in Tools : Begin(a, t)) \/ Get(a) \/ RemoveFails(a) \/ Finish(a)
      PROVE  UNCHANGED LeaseView!vars
  BY <1>2, LeaseStutter DEF Begin, Get, RemoveFails, Finish
<1>3. ASSUME NEW a \in Agents, Open(a)
      PROVE  UNCHANGED LeaseView!vars
  <2>1. PICK f \in Files :
           /\ f = linked \/ (linked = NoFile /\ \A b \in Agents : opened[b] # f)
           /\ linked' = f
    BY <1>3 DEF Open
  <2>2. linked = NoFile => holder[f] = NoOwner
    BY <2>1, OwnersTyped DEF IInv, LeaseFileTypeOK, LocksFollowPoints
  <2>3. Owner' = Owner
    BY <1>3, <2>1, <2>2, OwnersTyped DEF Open, Owner
  <2>4. QED BY <1>3, <2>3 DEF Open, LeaseView!vars
<1>4. ASSUME NEW a \in Agents, Lock(a)
      PROVE  [LeaseView!Next]_(LeaseView!vars)
  <2>1. opened[a] \in Files
    BY <1>4, OwnersTyped DEF Lock, Move, IInv, LeaseFileTypeOK, FilesFollowPoints, HasFile
  <2>2. CASE opened[a] = linked
    <3>1. LeaseView!Take(a)
      BY <1>4, <2>1, <2>2, OwnersTyped DEF Lock, Owner, IInv, LeaseFileTypeOK, LeaseView!Take
    <3>2. QED BY <3>1 DEF LeaseView!Next
  <2>3. CASE opened[a] # linked
    BY <1>4, <2>1, <2>3 DEF Lock, Owner, IInv, LeaseFileTypeOK, LeaseView!vars
  <2>4. QED BY <2>2, <2>3
<1>5. ASSUME NEW a \in Agents, LockBusy(a) \/ Release(a) \/ Die(a)
      PROVE  [LeaseView!Next]_(LeaseView!vars)
  BY <1>5, CloseFrees DEF LockBusy, Release, Die, LeaseView!Next
<1>6. ASSUME NEW a \in Agents, Create(a)
      PROVE  LeaseView!Next
  <2>1. Owner = a
    BY <1>6, LockersOwn DEF Create, HasLock
  <2>2. Owner' = Owner
    BY <1>6 DEF Create, Owner
  <2>3. QED BY <1>6, <2>1, <2>2 DEF Create, LeaseView!Create, LeaseView!Next
<1>7. ASSUME NEW a \in Agents, Delete(a)
      PROVE  LeaseView!Next
  <2>1. record = "present"
    BY <1>7 DEF Delete, Move, IInv, WorkHasRecord
  <2>2. Owner = a
    BY <1>7, <2>1, LockersOwn DEF Delete, Move, HasLock
  <2>3. Owner' = Owner
    BY <1>7 DEF Delete, Owner
  <2>4. QED BY <1>7, <2>1, <2>2, <2>3 DEF Delete, LeaseView!Delete, LeaseView!Next
<1>8. ASSUME NEW a \in Agents, Remove(a)
      PROVE  [LeaseView!Next]_(LeaseView!vars)
  <2>1. Owner' = NoOwner
    BY <1>8 DEF Remove, Owner
  <2>2. QED BY <1>8, <2>1 DEF Remove, LeaseView!Free, LeaseView!Next, LeaseView!vars
<1>9. QED
  BY <1>1, <1>2, <1>3, <1>4, <1>5, <1>6, <1>7, <1>8 DEF LeaseFileNext

\* The lease files of a review implement one lease.
THEOREM FilesAreLease == LeaseFileSpec => LeaseSpec
<1>1. LeaseFileInit => LeaseView!Init
  BY DEF LeaseFileInit, LeaseView!Init, Owner
<1>2. QED BY <1>1, LeaseNext, Invariant, PTL DEF LeaseFileSpec, LeaseSpec, LeaseView!Spec

-----------------------------------------------------------------------------
\* A lock of the review is held by an agent that is between its Lock and its
\* CloseFile, and by no one who has returned, failed or died.
NoLockLeftBehind ==
    \A f \in Files : holder[f] # NoOwner =>
       /\ opened[holder[f]] = f
       /\ place[holder[f]] \in {"get", "work", "remove", "release"}

\* The other way round, a review nobody works on is not busy.
NobodyMeetsBusy ==
    (\A a \in Agents : place[a] \in {"idle", "open", "flock"}) =>
       \A f \in Files : holder[f] = NoOwner

\* A review is not left busy by a request that failed or a process that died,
\* whatever became of its file.
THEOREM LocksEndWithTheirAgents == LeaseFileSpec => [](NoLockLeftBehind /\ NobodyMeetsBusy)
<1>1. IInv => NoLockLeftBehind
  BY DEF IInv, LocksFollowPoints, NoLockLeftBehind, HasLock
<1>2. IInv => NobodyMeetsBusy
  BY DEF IInv, LeaseFileTypeOK, LocksFollowPoints, HasLock, NobodyMeetsBusy
<1>3. QED BY <1>1, <1>2, Invariant, PTL

\* How far an agent is from being done with the lease.
Ahead ==
    [open |-> 6, flock |-> 5, get |-> 4, work |-> 3, remove |-> 2, release |-> 1, idle |-> 0]

\* Getting, using and giving up a lease takes at most six steps, and there is
\* no way back: the open is not repeated when the path has changed meanwhile.
LeasesGoForward ==
    [][\A a \in Agents :
          \/ place'[a] = place[a]
          \/ place[a] = "idle" /\ place'[a] = "open"
          \/ Ahead[place'[a]] < Ahead[place[a]]]_leaseFileVars

\* Whoever asked for the lease is done with it after six steps of its own.
THEOREM LeasesEnd == LeaseFileSpec => LeasesGoForward
<1>1. ASSUME IInv, [LeaseFileNext]_leaseFileVars, NEW a \in Agents,
             place'[a] # place[a], ~(place[a] = "idle" /\ place'[a] = "open")
      PROVE  Ahead[place'[a]] < Ahead[place[a]]
  <2>1. place[a] \in Places
    BY <1>1 DEF IInv, LeaseFileTypeOK
  <2>2. ASSUME NEW b \in Agents, (\E t \in Tools : Begin(b, t)) \/ Create(b)
        PROVE  FALSE
    BY <1>1, <2>2 DEF IInv, LeaseFileTypeOK, Begin, Create, Move
  <2>3. ASSUME NEW b \in Agents, Open(b) \/ Lock(b) \/ LockBusy(b) \/ Get(b)
        PROVE  Ahead[place'[a]] < Ahead[place[a]]
    BY <1>1, <2>3 DEF IInv, LeaseFileTypeOK, Open, Lock, LockBusy, Get, Move, Ahead
  <2>4. ASSUME NEW b \in Agents,
               Delete(b) \/ Remove(b) \/ RemoveFails(b) \/ Finish(b) \/ Release(b) \/ Die(b)
        PROVE  Ahead[place'[a]] < Ahead[place[a]]
    BY <1>1, <2>1, <2>4 DEF IInv, LeaseFileTypeOK, Delete, Remove, RemoveFails, Finish,
       Release, Die, Move, Ahead, Places
  <2>5. QED
    BY <1>1, <2>2, <2>3, <2>4 DEF LeaseFileNext, leaseFileVars
<1>2. IInv /\ [LeaseFileNext]_leaseFileVars =>
         [\A a \in Agents :
            \/ place'[a] = place[a]
            \/ place[a] = "idle" /\ place'[a] = "open"
            \/ Ahead[place'[a]] < Ahead[place[a]]]_leaseFileVars
  BY <1>1
<1>3. QED BY <1>2, Invariant, PTL DEF LeaseFileSpec, LeasesGoForward
=============================================================================
