------------------------- MODULE ReviewRecordProofs -------------------------
(***************************************************************************)
(* What the changes of a record preserve: each yields a record, and each,  *)
(* applied where the service applies it, keeps the fields consistent.      *)
(***************************************************************************)
EXTENDS ReviewRecord, TLAPS

\* The record a review starts with is a well-formed pending record.
LEMMA NewRecordGood ==
    NewRecord \in Record /\ WellFormed(NewRecord) /\ NewRecord.status = "pending"
BY NoSessionAssumption DEF NewRecord, Record, WellFormed, Statuses, Operations, LaterOperations

\* A continuation starts with a well-formed pending record.
LEMMA ContinuingGood ==
    ASSUME NEW r \in Record, WellFormed(r), CanContinue(r)
    PROVE  /\ Continuing(r) \in Record
           /\ WellFormed(Continuing(r))
           /\ Continuing(r).status = "pending"
BY DEF Continuing, CanContinue, Record, WellFormed, Statuses, Operations, LaterOperations

\* So does a quota retry.
LEMMA RetryingGood ==
    ASSUME NEW r \in Record, WellFormed(r), CanRetry(r)
    PROVE  /\ Retrying(r) \in Record
           /\ WellFormed(Retrying(r))
           /\ Retrying(r).status = "pending"
BY DEF Retrying, CanRetry, Record, WellFormed, Statuses, Operations, LaterOperations

\* Every outcome of a run leaves a well-formed record that is not pending.
LEMMA OutcomesGood ==
    ASSUME NEW r \in Record, WellFormed(r), r.status = "pending",
           NEW new \in Outcomes(r)
    PROVE  new \in Record /\ WellFormed(new) /\ new.status # "pending"
<1>1. CASE \E s \in AnsweredBy(r) : new = Completed(r, s)
  <2>1. PICK s \in AnsweredBy(r) : new = Completed(r, s)
    BY <1>1
  <2>2. s \in SessionIds /\ s # NoSession
    BY NoSessionAssumption DEF AnsweredBy, Record
  <2>3. PICK n \in Nat : n = r.seq + 1 /\ n > 0
    <3>1. r.seq \in Nat
      BY DEF Record
    <3>2. QED BY <3>1
  <2>4. new = [status |-> "open", active |-> "", session |-> s,
               seq |-> n, retryOp |-> "", retryAt |-> FALSE]
    BY <2>1, <2>3 DEF Completed
  <2>5. QED
    BY <2>2, <2>3, <2>4 DEF Record, Statuses, Operations, LaterOperations, WellFormed
<1>2. CASE \E s \in SessionIds \cup {NoSession}, at \in BOOLEAN : new = Blocked(r, s, at)
  BY <1>2, NoSessionAssumption
  DEF Blocked, KeptSession, Record, WellFormed, Statuses, Operations, LaterOperations
<1>3. CASE \E s \in SessionIds \cup {NoSession} : new = Stopped(r, s)
  BY <1>3, NoSessionAssumption
  DEF Stopped, StoppedStatus, KeptSession, Record, WellFormed, Statuses, Operations,
      LaterOperations
<1>4. QED BY <1>1, <1>2, <1>3 DEF Outcomes

\* A pending record whose worker is lost becomes a well-formed stopped one.
LEMMA WorkerLostGood ==
    ASSUME NEW r \in Record, WellFormed(r), r.status = "pending"
    PROVE  WorkerLost(r) \in Record /\ WellFormed(WorkerLost(r))
BY DEF WorkerLost, StoppedStatus, Record, WellFormed, Statuses, Operations, LaterOperations

\* Closing keeps a record well formed, whatever its status.
LEMMA ClosedGood ==
    ASSUME NEW r \in Record, WellFormed(r)
    PROVE  Closed(r) \in Record /\ WellFormed(Closed(r))
BY DEF Closed, Record, WellFormed, Statuses, Operations, LaterOperations

-----------------------------------------------------------------------------
\* How the outcomes of a run of Claude relate to the record the run started on.
LEMMA OutcomesKeep ==
    ASSUME NEW r \in Record, WellFormed(r), r.status = "pending",
           NEW new \in Outcomes(r)
    PROVE  /\ r.session # NoSession => new.session = r.session
           /\ IF new.status = "open" THEN new.seq = r.seq + 1 ELSE new.seq = r.seq
           /\ r.retryOp # "" => new.retryOp = r.retryOp \/ new.status = "open"
<1>1. CASE \E s \in AnsweredBy(r) : new = Completed(r, s)
  <2>1. PICK s \in AnsweredBy(r) : new = Completed(r, s)
    BY <1>1
  <2>2. r.session # NoSession => s = r.session
    BY DEF AnsweredBy
  <2>3. new.session = s /\ new.status = "open" /\ new.seq = r.seq + 1
    BY <2>1 DEF Completed
  <2>4. QED BY <2>2, <2>3
<1>2. CASE \E s \in SessionIds \cup {NoSession}, at \in BOOLEAN : new = Blocked(r, s, at)
  BY <1>2 DEF Blocked, KeptSession, Record, WellFormed, Operations, LaterOperations
<1>3. CASE \E s \in SessionIds \cup {NoSession} : new = Stopped(r, s)
  BY <1>3 DEF Stopped, StoppedStatus, KeptSession, Record, WellFormed, Operations,
     LaterOperations
<1>4. \/ \E s \in AnsweredBy(r) : new = Completed(r, s)
      \/ \E s \in SessionIds \cup {NoSession}, at \in BOOLEAN : new = Blocked(r, s, at)
      \/ \E s \in SessionIds \cup {NoSession} : new = Stopped(r, s)
  BY DEF Outcomes
<1>5. QED BY <1>1, <1>2, <1>3, <1>4

\* The other changes leave the session and the sequence alone.
LEMMA ChangesKeep ==
    ASSUME NEW r \in Record
    PROVE  /\ Continuing(r).session = r.session /\ Continuing(r).seq = r.seq
           /\ Continuing(r).status = "pending" /\ Continuing(r).active = "continuation"
           /\ Retrying(r).session = r.session /\ Retrying(r).seq = r.seq
           /\ Retrying(r).status = "pending" /\ Retrying(r).retryOp = r.retryOp
           /\ WorkerLost(r).session = r.session /\ WorkerLost(r).seq = r.seq
           /\ WorkerLost(r).status \in {"failed", "interrupted"}
           /\ WorkerLost(r).retryOp = r.retryOp
           /\ Closed(r).session = r.session /\ Closed(r).seq = r.seq
           /\ Closed(r).status = "closed" /\ Closed(r).retryOp = r.retryOp
           /\ r.status = "closed" => Closed(r) = r
BY DEF Record, Continuing, Retrying, WorkerLost, StoppedStatus, Closed
=============================================================================
