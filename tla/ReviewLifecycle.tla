--------------------------- MODULE ReviewLifecycle --------------------------
(***************************************************************************)
(* What the relay promises about its reviews, whatever the number of       *)
(* server processes, requests and pollers: each review has at most one     *)
(* worker, only a review without a worker may be given one, closed,        *)
(* deleted or declared stopped, and every change of a record starts from   *)
(* the record as it is stored at that moment.  ReviewService implements    *)
(* this with locks, leases, snapshots and separate reads and writes.       *)
(***************************************************************************)
EXTENDS ReviewRecord

CONSTANT Reviews      \* review identifiers

VARIABLES
    store,            \* the record of each review
    running           \* the reviews a live request or worker is running

vars == <<store, running>>

\* The store has a record for r.
Stored(r) == store[r] \in Record

Init ==
    /\ store = [r \in Reviews |-> Unused]
    /\ running = {}

\* Replace the record of r.
Put(r, new) == store' = [store EXCEPT ![r] = new]

-----------------------------------------------------------------------------
Create(r) ==
    /\ store[r] = Unused
    /\ Put(r, NewRecord)
    /\ running' = running \cup {r}

Continue(r) ==
    /\ r \notin running
    /\ Stored(r) /\ CanContinue(store[r])
    /\ Put(r, Continuing(store[r]))
    /\ running' = running \cup {r}

Retry(r) ==
    /\ r \notin running
    /\ Stored(r) /\ CanRetry(store[r])
    /\ Put(r, Retrying(store[r]))
    /\ running' = running \cup {r}

\* The worker of r writes the outcome of the operation it was started for.
Settle(r) ==
    /\ r \in running
    /\ Stored(r) /\ store[r].status = "pending"
    /\ \E new \in Outcomes(store[r]) : Put(r, new)
    /\ running' = running \ {r}

\* A pending review without a worker is declared stopped.
DeclareLost(r) ==
    /\ r \notin running
    /\ Stored(r) /\ store[r].status = "pending"
    /\ Put(r, WorkerLost(store[r]))
    /\ UNCHANGED running

Close(r) ==
    /\ r \notin running
    /\ Stored(r)
    /\ Put(r, Closed(store[r]))
    /\ UNCHANGED running

Delete(r) ==
    /\ r \notin running
    /\ Stored(r)
    /\ Put(r, Deleted)
    /\ UNCHANGED running

\* Workers end without writing an outcome: their process died, or the store
\* refused the write.
Lose ==
    /\ running' \in SUBSET running
    /\ UNCHANGED store

Next ==
    \/ Lose
    \/ \E r \in Reviews :
          \/ Create(r) \/ Continue(r) \/ Retry(r) \/ Settle(r)
          \/ DeclareLost(r) \/ Close(r) \/ Delete(r)

Spec == Init /\ [][Next]_vars

-----------------------------------------------------------------------------
TypeOK ==
    /\ store \in [Reviews -> Record \cup {Unused, Deleted}]
    /\ running \in SUBSET Reviews

\* Every stored record is well formed: whatever the order of starts, quota
\* rejections, retries, stops and closings, the fields a later request
\* decides on (status, session, retry operation) never contradict each other.
RecordsWellFormed == \A r \in Reviews : Stored(r) => WellFormed(store[r])

\* Closing is final (close_review "explicitly finalizes" a review): no late
\* worker, retry or reconciliation brings a closed review back.
StaysClosed(r) ==
    Stored(r) /\ store[r].status = "closed" => store'[r] \in {store[r], Deleted}

ClosedIsFinal == [][\A r \in Reviews : StaysClosed(r)]_vars

\* A deleted review never reappears, although workers and reconcilers write
\* whole records they read earlier.
StaysDeleted(r) == store[r] = Deleted => store'[r] = Deleted

DeletedIsGone == [][\A r \in Reviews : StaysDeleted(r)]_vars

\* A review keeps the Claude conversation it was first given.
KeepsSession(r) ==
    Stored(r) /\ store[r].session # NoSession /\ store'[r] # Deleted =>
       store'[r].session = store[r].session

SessionIsKept == [][\A r \in Reviews : KeepsSession(r)]_vars

\* The response sequence counts answers: it moves by exactly one, and only
\* when a pending operation is answered, so a client that waits for
\* expected_response_sequence can neither miss its answer nor take an older
\* one for it.
CountsAnswer(r) ==
    Stored(r) /\ store'[r] # Deleted =>
       IF store[r].status = "pending" /\ store'[r].status = "open"
         THEN store'[r].seq = store[r].seq + 1
         ELSE /\ store'[r].seq = store[r].seq
              /\ store'[r].status = "open" => store[r].status = "open"

SequenceCountsAnswers == [][\A r \in Reviews : CountsAnswer(r)]_vars

\* The operation a quota rejection blocked is remembered until an answer
\* arrives or the client starts an ordinary continuation instead.
KeepsBlockedOperation(r) ==
    Stored(r) /\ store[r].retryOp # "" /\ store'[r] # Deleted =>
       \/ store'[r].retryOp = store[r].retryOp
       \/ store'[r].status = "open"
       \/ store'[r].active = "continuation"

BlockedOperationIsKept == [][\A r \in Reviews : KeepsBlockedOperation(r)]_vars
=============================================================================
