----------------------------- MODULE ReviewTurn -----------------------------
(***************************************************************************)
(* A turn of a review around a run of Claude: executeReview hands the      *)
(* session of the record to the client, and makes of the client's result   *)
(* or error a new record and an answer.  ReviewService takes any element   *)
(* of ReviewRecord!Outcomes for the end of a run; here the end is computed *)
(* from what the client of ClaudeClient returned.                          *)
(*                                                                         *)
(* Each element of Runs is a turn of a review of its own.  The write of    *)
(* the record and its failures are those of ReviewService.                 *)
(***************************************************************************)
EXTENDS ClaudeClient

CONSTANTS
    Unused, Deleted,
    NotTold,     \* the turn has not answered yet
    MaxSeq       \* bound: answers a review has when a turn begins

R == INSTANCE ReviewRecord

\* The records prepareInitialReview, prepareContinuation and prepareQuotaRetry
\* hand to executeReview.
PendingRecords ==
    {r \in [status : {"pending"}, active : R!Operations, session : SessionOrNone,
            seq : 0..MaxSeq, retryOp : R!Operations \cup {""}, retryAt : BOOLEAN] :
        R!WellFormed(r)}

\* The code of an error, none for an answer, and what its details promise.
Codes ==
    {"", "claude_quota_exceeded", "claude_max_turns", "claude_timeout", "claude_canceled",
     "claude_output_too_large", "claude_session_id_missing", "invalid_claude_output",
     "claude_failed", "claude_not_authenticated"}

Told == [code : Codes, retryable : BOOLEAN, resumable : BOOLEAN]

ASSUME TurnAssumption ==
    /\ NotTold \notin Told
    /\ MaxSeq \in Nat

VARIABLES
    record,    \* the record in the hand of each turn
    told       \* what its client is told: the details of the error

turnVars == <<record, told>>

TurnInit ==
    /\ Init
    /\ record \in [Runs -> PendingRecords]
    /\ told = [r \in Runs |-> NotTold]

-----------------------------------------------------------------------------
\* Mutant of mapError: a rejection is taken for any process that failed.
mapErrorProcess(kind) ==
    CASE kind = "timeout" -> "claude_timeout"
      [] kind = "canceled" -> "claude_canceled"
      [] kind = "not_authenticated" -> "claude_not_authenticated"
      [] kind = "output_too_large" -> "claude_output_too_large"
      [] kind = "invalid_output" -> "invalid_claude_output"
      [] kind = "session_missing" -> "claude_session_id_missing"
      [] OTHER -> "claude_failed"

\* The code of an error of the client.
mapError(kind) ==
    CASE kind = "quota_exceeded" -> "claude_quota_exceeded"
      [] kind = "max_turns" -> "claude_max_turns"
      [] kind = "timeout" -> "claude_timeout"
      [] kind = "canceled" -> "claude_canceled"
      [] kind = "output_too_large" -> "claude_output_too_large"
      [] kind = "session_missing" -> "claude_session_id_missing"
      [] kind = "invalid_output" -> "invalid_claude_output"
      [] kind = "process" -> "claude_failed"
      [] OTHER -> "claude_not_authenticated"

\* The request is made from the record.
TurnBegins(r) ==
    /\ Begin(r)
    /\ resumed'[r] = record[r].session
    /\ UNCHANGED turnVars

Open(r) == pc[r] = "done" /\ told[r] = NotTold

\* The response validates: the review is open.
Answers(r) ==
    /\ Open(r) /\ err[r] = "nil"
    /\ record' = [record EXCEPT ![r] = R!Completed(@, StoredSession(r))]
    /\ told' = [told EXCEPT ![r] =
                  [code |-> "", retryable |-> FALSE, resumable |-> TRUE]]
    /\ UNCHANGED vars

\* Mutant of FailedRecord: the session of the failing run is stored.
FailedRecordRenamed(r, code) ==
    LET returned == out[r].session
        renamed == IF returned = NoSession THEN record[r]
                   ELSE [record[r] EXCEPT !.session = returned]
    IN  IF code = "claude_quota_exceeded"
        THEN R!Blocked(renamed, returned, out[r].reset)
        ELSE R!Stopped(renamed, returned)

\* persistReviewFailure: the record a failure leaves ...
FailedRecord(r, code) ==
    IF code = "claude_quota_exceeded"
    THEN R!Blocked(record[r], out[r].session, out[r].reset)
    ELSE R!Stopped(record[r], out[r].session)

\* Mutant of Details: every failure is said to be retryable.
DetailsHopeful(r, code) ==
    [code |-> code, retryable |-> TRUE,
     resumable |-> FailedRecord(r, code).session # NoSession]

\* ... and what the client is told with its code.
Details(r, code) ==
    [code |-> code,
     retryable |-> code = "claude_quota_exceeded" \/ record[r].active = "quota_retry",
     resumable |-> FailedRecord(r, code).session # NoSession]

PersistFailure(r, code) ==
    /\ record' = [record EXCEPT ![r] = FailedRecord(r, code)]
    /\ told' = [told EXCEPT ![r] = Details(r, code)]
    /\ UNCHANGED vars

\* The response does not validate.
AnswersBadly(r) ==
    /\ Open(r) /\ err[r] = "nil"
    /\ PersistFailure(r, "invalid_claude_output")

Fails(r) ==
    /\ Open(r) /\ err[r] # "nil"
    /\ PersistFailure(r, mapError(err[r]))

ClientSteps(r) ==
    /\ \/ Proceed(r) \/ Expire(r) \/ Cancel(r)
       \/ AuthSucceeds(r) \/ AuthFails(r) \/ ClosesOutput(r) \/ ProcessExits(r)
       \/ \E line \in Lines : Write(r, line)
    /\ UNCHANGED turnVars

TurnNext ==
    \E r \in Runs :
       \/ TurnBegins(r) \/ ClientSteps(r)
       \/ Answers(r) \/ AnswersBadly(r) \/ Fails(r)

TurnSpec == TurnInit /\ [][TurnNext]_<<vars, turnVars>>

-----------------------------------------------------------------------------
TurnTypeOK ==
    /\ record \in [Runs -> R!Record]
    /\ told \in [Runs -> Told \cup {NotTold}]

\* Whatever the child, its stream, its exit and the deadline make of a run, the
\* record it leaves is one of the outcomes ReviewService reckons with: an
\* answer belongs to the session of the review, a failure keeps it.
TurnEndsAsOutcome ==
    [][\A r \in Runs :
          record'[r] # record[r] => record'[r] \in R!Outcomes(record[r])]_<<vars, turnVars>>

Ended(r) == told[r] # NotTold

\* What a client is told it may do next is what the new record admits: a
\* retryable failure can be retried, a resumable one that is not blocked by
\* the quota, and an answer, can be continued.
AdviceIsAdmitted ==
    \A r \in Runs : Ended(r) =>
       /\ told[r].retryable => R!CanRetry(record[r])
       /\ told[r].resumable /\ told[r].code # "claude_quota_exceeded" =>
             R!CanContinue(record[r])

\* A run that Claude rejects without an answer leaves a review that waits for
\* quota and knows of the reset time, whatever else the stream and the exit
\* status say, unless the deadline, a cancellation or the output limit ended it.
RejectedTurnsWait ==
    \A r \in Runs :
       /\ Ended(r) /\ proc[r] # "none"
       /\ QuotaRejected(out[r]) /\ ~Usable(out[r])
       /\ ctx[r] = "live" /\ parse[r] = "ok"
       => record[r].status = "waiting_for_quota" /\ record[r].retryAt = out[r].reset
=============================================================================
