-------------------------- MODULE MCReviewService ---------------------------
(***************************************************************************)
(* Instances of ReviewService for TLC.                                     *)
(***************************************************************************)
EXTENDS ReviewService, TLC

CONSTANTS s1, s2, t1, t2, t3

\* Two threads in one process, one in another.
TwoPlusOne == (t1 :> s1) @@ (t2 :> s1) @@ (t3 :> s2)

\* One thread in each process.
OneEach == (t1 :> s1) @@ (t2 :> s2)

\* Claude's conversations are interchangeable; so are two processes with one
\* thread each, and the two threads of one process.
Sessions == Permutations(SessionIds)

Processes == Sessions \cup {(s1 :> s2) @@ (s2 :> s1) @@ (t1 :> t2) @@ (t2 :> t1)}

Slots == Sessions \cup Permutations({t1, t2})
=============================================================================
