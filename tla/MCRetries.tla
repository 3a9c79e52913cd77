------------------------------ MODULE MCRetries -----------------------------
(***************************************************************************)
(* What a review carries from one turn to the next besides its state, for  *)
(* TLC: the reset time that blocks it and the commit it is compared with.  *)
(* Each is followed over every sequence of turns while the other is at     *)
(* rest, for neither depends on the other.                                 *)
(***************************************************************************)
EXTENDS QuotaRetry, ReviewRange, TLC

RangeAtRest == RangeInit /\ index = {} /\ ~legacy

RetriesInit == QuotaInit /\ RangeInit

RetriesNext ==
    \/ QuotaNext /\ RangeAtRest /\ UNCHANGED rangeVars
    \/ RangeNext /\ QuotaInit /\ UNCHANGED quotaVars

RetriesSpec == RetriesInit /\ [][RetriesNext]_<<quotaVars, rangeVars>>

Interchangeable == Permutations(Clients)
=============================================================================
