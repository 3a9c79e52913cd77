-------------------------------- MODULE Lease -------------------------------
(***************************************************************************)
(* What a lease promises of one review: it has at most one owner, it       *)
(* changes hands only through being free, and the record is created and    *)
(* deleted by the owner alone.                                             *)
(***************************************************************************)
CONSTANTS Agents, NoOwner

VARIABLES record, owner

vars == <<record, owner>>

Init == record = "unused" /\ owner = NoOwner

Take(a) == owner = NoOwner /\ owner' = a /\ UNCHANGED record

\* The owner releases the lease or dies, or removes the lease of a deleted review.
Free == owner # NoOwner /\ owner' = NoOwner /\ UNCHANGED record

Create(a) == owner = a /\ record = "unused" /\ record' = "present" /\ UNCHANGED owner

Delete(a) == owner = a /\ record = "present" /\ record' = "deleted" /\ UNCHANGED owner

Next == Free \/ \E a \in Agents : Take(a) \/ Create(a) \/ Delete(a)

Spec == Init /\ [][Next]_vars
=============================================================================
