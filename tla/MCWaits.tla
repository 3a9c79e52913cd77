------------------------------- MODULE MCWaits ------------------------------
(***************************************************************************)
(* The places where a request waits for what it does not control, for TLC: *)
(* the mutex and the lock of the store, a git that prints a diff, a stream *)
(* of Claude's, the reporter of progress.  They share no state, so each    *)
(* moves only while the others are at rest.                                *)
(***************************************************************************)
EXTENDS SessionStore, DiffLimit, StreamLimit, Progress, TLC

CONSTANTS c1, c2, c3, p1, p2

\* Two goroutines of one process, and one of another.
TwoPlusOne == (c1 :> p1) @@ (c2 :> p1) @@ (c3 :> p2)

\* Limits of a diff: not set, the smallest ones, one a chunk does not divide.
SmallSettings == {-1, 0, 1, 3, 4}
SmallSizes == 0..7

\* Limits of a stream in integers of four bits: below, between and above the two
\* sizes of the buffer, and the largest one.
FourBits == {-1, 0, 1, 2, 3, 5, 6, 7}
SmallOutputs == 0..8

DiffAtRest == DiffInit /\ maxDiffBytes = 0 /\ size = 0

StreamAtRest == StreamInit /\ maxBytes = 0 /\ output = 0

WaitsInit ==
    /\ StoreInit /\ DiffInit /\ StreamInit /\ ProgressInit
    /\ DiffAtRest \/ StreamAtRest

WaitsNext ==
    \/ /\ StoreNext /\ DiffAtRest /\ StreamAtRest /\ ProgressInit
       /\ UNCHANGED <<diffVars, streamVars, progressVars>>
    \/ /\ DiffNext /\ StoreInit /\ StreamAtRest /\ ProgressInit
       /\ UNCHANGED <<storeVars, streamVars, progressVars>>
    \/ /\ StreamNext /\ StoreInit /\ DiffAtRest /\ ProgressInit
       /\ UNCHANGED <<storeVars, diffVars, progressVars>>
    \/ /\ ProgressNext /\ StoreInit /\ DiffAtRest /\ StreamAtRest
       /\ UNCHANGED <<storeVars, diffVars, streamVars>>

WaitsSpec ==
    /\ WaitsInit /\ [][WaitsNext]_<<storeVars, diffVars, streamVars, progressVars>>
    /\ StoreFairness /\ DiffFairness /\ ProgressFairness
=============================================================================
