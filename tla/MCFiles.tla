------------------------------- MODULE MCFiles ------------------------------
(***************************************************************************)
(* The files of the data directory for TLC: sessions.json and the lease of *)
(* a review.  The two share no state, so every behaviour of both together  *)
(* is one of each, and one moves here only while the other is at rest.     *)
(***************************************************************************)
EXTENDS SessionStore, LeaseFile, TLC

CONSTANTS c1, c2, p1, p2

\* One goroutine in each of two processes.
OneEach == (c1 :> p1) @@ (c2 :> p2)

FilesInit == StoreInit /\ LeaseFileInit

FilesNext ==
    \/ StoreNext /\ LeaseFileInit /\ UNCHANGED leaseFileVars
    \/ LeaseFileNext /\ StoreInit /\ UNCHANGED storeVars

FilesSpec == FilesInit /\ [][FilesNext]_<<storeVars, leaseFileVars>>

\* Identifiers, records and agents are interchangeable, and so are two processes with one goroutine each.
Renamings ==
    Permutations(Ids) \cup Permutations(Values)
      \cup {(p1 :> p2) @@ (p2 :> p1) @@ (c1 :> c2) @@ (c2 :> c1)}
      \cup Permutations(Agents)
=============================================================================
