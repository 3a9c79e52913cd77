------------------------------ MODULE LeaseFile -----------------------------
(***************************************************************************)
(* The lease of one review at the level of files.  AcquireReviewLease      *)
(* opens the path, creating the file if there is none, and then locks what *)
(* it has opened without waiting; close_review removes the path once it    *)
(* has deleted the record.  Between an open and its lock the path may come *)
(* to name another file, or none, so two agents can hold locks of          *)
(* different files of one review.                                          *)
(*                                                                         *)
(* An agent is a request, a worker or a scan of any process: a flock is    *)
(* held by an open file, so two opens of one process exclude each other    *)
(* like those of two.  The in-process lock is left out (polls and scans do *)
(* not take it).                                                           *)
(***************************************************************************)
CONSTANTS
    Agents,
    Files,     \* file objects (inodes), used again once nothing refers to them
    NoFile,
    NoOwner    \* a file nobody has locked

ASSUME LeaseAssumption ==
    /\ NoFile \notin Files
    /\ NoOwner \notin Agents

\* start_review; a continuation, retry, close, poll or scan; close_review with
\* delete_claude_session.
Tools == {"start", "use", "delete"}

VARIABLES
    record,   \* the record of the review: unused, present or deleted
    linked,   \* the file the path of the lease names
    opened,   \* the file each agent has open
    holder,   \* the agent that holds the lock of each file
    place,
    tool

leaseFileVars == <<record, linked, opened, holder, place, tool>>

LeaseFileInit ==
    /\ record = "unused"
    /\ linked = NoFile
    /\ opened = [a \in Agents |-> NoFile]
    /\ holder = [f \in Files |-> NoOwner]
    /\ place = [a \in Agents |-> "idle"]
    /\ tool = [a \in Agents |-> "use"]

Move(a, from, to) == place[a] = from /\ place' = [place EXCEPT ![a] = to]

\* Closing a file drops the lock that was taken on it.
CloseFile(a) ==
    /\ opened' = [opened EXCEPT ![a] = NoFile]
    /\ holder' = [f \in Files |-> IF holder[f] = a THEN NoOwner ELSE holder[f]]

-----------------------------------------------------------------------------
\* A fresh identifier is known to nobody else, the others to everyone.
Begin(a, t) ==
    /\ Move(a, "idle", "open")
    /\ IF t = "start"
       THEN record = "unused" /\ \A b \in Agents : place[b] = "idle"
       ELSE record # "unused"
    /\ tool' = [tool EXCEPT ![a] = t]
    /\ UNCHANGED <<record, linked, opened, holder>>

\* open with O_CREATE
Open(a) ==
    /\ Move(a, "open", "flock")
    /\ \E f \in Files :
          /\ f = linked \/ (linked = NoFile /\ \A b \in Agents : opened[b] # f)
          /\ opened' = [opened EXCEPT ![a] = f]
          /\ linked' = f
    /\ UNCHANGED <<record, holder, tool>>

\* Mutant of Lock: the lock is shared.
LockShared(a) ==
    /\ Move(a, "flock", "get")
    /\ holder' = [holder EXCEPT ![opened[a]] = a]
    /\ UNCHANGED <<record, linked, opened, tool>>

Lock(a) ==
    /\ Move(a, "flock", "get")
    /\ holder[opened[a]] = NoOwner
    /\ holder' = [holder EXCEPT ![opened[a]] = a]
    /\ UNCHANGED <<record, linked, opened, tool>>

\* ErrLeaseBusy
LockBusy(a) ==
    /\ Move(a, "flock", "idle")
    /\ holder[opened[a]] # NoOwner
    /\ CloseFile(a)
    /\ UNCHANGED <<record, linked, tool>>

\* Mutant of Get: the record read before the lease is trusted.
GetTrusting(a) ==
    /\ Move(a, "get", "work")
    /\ UNCHANGED <<record, linked, opened, holder, tool>>

\* The read under the lease; without a record there is nothing to work on.
Get(a) ==
    /\ IF record = (IF tool[a] = "start" THEN "unused" ELSE "present")
       THEN Move(a, "get", "work")
       ELSE Move(a, "get", "release")
    /\ UNCHANGED <<record, linked, opened, holder, tool>>

Create(a) ==
    /\ place[a] = "work" /\ tool[a] = "start" /\ record = "unused"
    /\ record' = "present"
    /\ UNCHANGED <<linked, opened, holder, place, tool>>

Delete(a) ==
    /\ Move(a, "work", "remove")
    /\ tool[a] = "delete"
    /\ record' = "deleted"
    /\ UNCHANGED <<linked, opened, holder, tool>>

\* RemoveReviewLeaseFile removes the path, whatever it names by now.
Remove(a) ==
    /\ Move(a, "remove", "release")
    /\ linked' = NoFile
    /\ UNCHANGED <<record, opened, holder, tool>>

\* Its error is logged and the file stays.
RemoveFails(a) ==
    /\ Move(a, "remove", "release")
    /\ UNCHANGED <<record, linked, opened, holder, tool>>

\* The work ends, or any error return ends it.
Finish(a) ==
    /\ Move(a, "work", "release")
    /\ UNCHANGED <<record, linked, opened, holder, tool>>

\* Mutant of Release: every release tidies the lease file away.
ReleaseRemoves(a) ==
    /\ Move(a, "release", "idle")
    /\ CloseFile(a)
    /\ linked' = NoFile
    /\ UNCHANGED <<record, tool>>

Release(a) ==
    /\ Move(a, "release", "idle")
    /\ CloseFile(a)
    /\ UNCHANGED <<record, linked, tool>>

\* The process of a dies; the lease file stays where it is.
Die(a) ==
    /\ place[a] # "idle"
    /\ place' = [place EXCEPT ![a] = "idle"]
    /\ CloseFile(a)
    /\ UNCHANGED <<record, linked, tool>>

LeaseFileNext ==
    \E a \in Agents :
       \/ \E t \in Tools : Begin(a, t)
       \/ Open(a) \/ Lock(a) \/ LockBusy(a) \/ Get(a)
       \/ Create(a) \/ Delete(a) \/ Remove(a) \/ RemoveFails(a)
       \/ Finish(a) \/ Release(a) \/ Die(a)

LeaseFileSpec == LeaseFileInit /\ [][LeaseFileNext]_leaseFileVars

-----------------------------------------------------------------------------
Places == {"idle", "open", "flock", "get", "work", "remove", "release"}

\* Every variable keeps to the values AcquireReviewLease and its callers give it.
LeaseFileTypeOK ==
    /\ record \in {"unused", "present", "deleted"}
    /\ linked \in Files \cup {NoFile}
    /\ opened \in [Agents -> Files \cup {NoFile}]
    /\ holder \in [Files -> Agents \cup {NoOwner}]
    /\ place \in [Agents -> Places]
    /\ tool \in [Agents -> Tools]

\* Whoever found the record under its lock may rely on it until it releases:
\* no other agent works on the review, and none deletes it, although the lock
\* may be that of a file the path no longer names.
WorkersAlone ==
    \A a, b \in Agents :
       place[a] = "work" /\ (place[b] \in {"work", "remove"} \/ record = "deleted") => a = b

\* The owner the review service knows: the holder of the file the path names.
Owner == IF linked = NoFile THEN NoOwner ELSE holder[linked]

LeaseView == INSTANCE Lease WITH owner <- Owner

LeaseSpec == LeaseView!Spec

\* TakeLease of ReviewService: a lock that does not make its holder the owner
\* is one of a deleted review.
LockTakesLease ==
    [][\A a \in Agents :
          place[a] = "flock" /\ place'[a] = "get" =>
             \/ Owner = NoOwner /\ Owner' = a
             \/ record = "deleted" /\ Owner' = Owner]_leaseFileVars

\* LeaseBusy, AnswerPending and ScanSkip of ReviewService: nobody meets a busy
\* lock of a review without an owner, unless the review is deleted.
BusyHasOwner ==
    [][\A a \in Agents : LockBusy(a) => Owner # NoOwner \/ record = "deleted"]_leaseFileVars

\* Both together: what ReviewService takes for granted of the lease when it is
\* got and when it is busy.
ServiceSeesLease == LockTakesLease /\ BusyHasOwner
=============================================================================
