---------------------------- MODULE ReviewRecord ----------------------------
(***************************************************************************)
(* The persisted record of one review (session.ReviewSession) and the      *)
(* changes the service makes to it.  Every operator that changes a record  *)
(* takes the record in the caller's hand and returns the one it writes;    *)
(* where the old record comes from and when the new one reaches the disk   *)
(* is the business of ReviewService.                                       *)
(*                                                                         *)
(* Only the fields that steer the control flow are kept.  The request      *)
(* parameters never change after Create, and the response, the error       *)
(* details and the timestamps are never read back to take a decision,      *)
(* except RetryAt, of which only its presence matters here: whether it has *)
(* been reached is left to a nondeterministic choice of the reader.        *)
(***************************************************************************)
EXTENDS Naturals

CONSTANTS
    SessionIds,   \* the conversation identifiers Claude may return
    NoSession,    \* ClaudeSessionID = ""
    Unused,       \* the store's value for an identifier never used so far
    Deleted       \* ... and for a review that was created and deleted

ASSUME NoSessionAssumption == NoSession \notin SessionIds

Statuses == {"pending", "open", "waiting_for_quota", "interrupted", "failed", "closed"}

\* What may be asked of a review that exists, and what began it.
LaterOperations == {"continuation", "quota_retry"}

Operations == {"initial"} \cup LaterOperations

\* "" is the zero value of ActiveOperation and of RetryOperation.
Record ==
    [status  : Statuses,
     active  : Operations \cup {""},
     session : SessionIds \cup {NoSession},
     seq     : Nat,                          \* ResponseSequence
     retryOp : Operations \cup {""},         \* RetryOperation
     retryAt : BOOLEAN]                      \* RetryAt # nil

\* The store has no record of an Unused or a Deleted review and the program
\* cannot tell the two apart: the difference is kept for the properties.
ASSUME AbsentAssumption ==
    /\ Unused \notin Record
    /\ Deleted \notin Record
    /\ Unused # Deleted

-----------------------------------------------------------------------------
(* What a request may be applied to.                                       *)

\* Mutant of CanContinue: the test for a closed review is missing.
CanContinueClosed(r) == r.status # "waiting_for_quota" /\ r.session # NoSession

\* prepareContinuation: not closed, not waiting for quota, and resumable.
CanContinue(r) ==
    /\ r.status \notin {"closed", "waiting_for_quota"}
    /\ r.session # NoSession

\* prepareQuotaRetry: a quota-blocked review, or a stopped quota retry.
CanRetry(r) ==
    \/ r.status = "waiting_for_quota"
    \/ r.retryOp # "" /\ r.status \in {"interrupted", "failed"}

-----------------------------------------------------------------------------
(* The changes a request or its worker makes.                              *)

\* The record prepareInitialReview creates.
NewRecord ==
    [status |-> "pending", active |-> "initial", session |-> NoSession,
     seq |-> 0, retryOp |-> "", retryAt |-> FALSE]

\* Mutant of Continuing: the sequence counts requests instead of answers.
ContinuingCounted(r) ==
    [r EXCEPT !.status = "pending", !.active = "continuation",
              !.seq = @ + 1, !.retryOp = "", !.retryAt = FALSE]

\* prepareContinuation drops the memory of a blocked operation ...
Continuing(r) ==
    [r EXCEPT !.status = "pending", !.active = "continuation",
              !.retryOp = "", !.retryAt = FALSE]

\* ... while prepareQuotaRetry keeps it until an answer arrives.
Retrying(r) == [r EXCEPT !.status = "pending", !.active = "quota_retry"]

\* A validated answer, executeReview.
Completed(r, session) ==
    [status |-> "open", active |-> "", session |-> session,
     seq |-> r.seq + 1, retryOp |-> "", retryAt |-> FALSE]

\* Mutant of KeptSession: the session of the failing run replaces the known one.
KeptSessionReplaced(r, returned) ==
    IF returned = NoSession THEN r.session ELSE returned

\* A failing run never replaces the session the record already has.
KeptSession(r, returned) ==
    IF r.session = NoSession THEN returned ELSE r.session

\* Mutant of StoppedStatus: the constant of another status vocabulary.
StoppedStatusOther(session) == IF session = NoSession THEN "failed" ELSE "stopped"

StoppedStatus(session) ==
    IF session = NoSession THEN "failed" ELSE "interrupted"

\* Mutant of Blocked: a blocked retry names itself as the operation to retry.
BlockedByRetry(r, returned, at) ==
    [r EXCEPT !.status = "waiting_for_quota", !.active = "",
              !.session = KeptSession(r, returned),
              !.retryOp = r.active, !.retryAt = at]

\* persistReviewFailure for claude_quota_exceeded; at: a reset time was given.
Blocked(r, returned, at) ==
    [r EXCEPT !.status = "waiting_for_quota", !.active = "",
              !.session = KeptSession(r, returned),
              !.retryOp = IF r.active = "quota_retry" /\ r.retryOp # ""
                            THEN r.retryOp ELSE r.active,
              !.retryAt = at]

\* Mutant of Stopped: a failing retry forgets what it was retrying.
StoppedForgetful(r, returned) ==
    LET session == KeptSession(r, returned)
    IN  [r EXCEPT !.status = StoppedStatus(session), !.active = "",
                  !.session = session, !.retryOp = "", !.retryAt = FALSE]

\* persistReviewFailure for every other error.
Stopped(r, returned) ==
    LET session == KeptSession(r, returned)
        retrying == r.active = "quota_retry"
    IN  [r EXCEPT !.status = StoppedStatus(session), !.active = "",
                  !.session = session,
                  !.retryOp = IF retrying THEN r.retryOp ELSE "",
                  !.retryAt = retrying /\ r.retryAt]

\* markStoppedWorker: the verdict on a pending record nobody works on.
WorkerLost(r) ==
    [r EXCEPT !.status = StoppedStatus(r.session), !.active = ""]

Closed(r) == [r EXCEPT !.status = "closed"]

-----------------------------------------------------------------------------
(* What a run of Claude may make of the pending record it was started on.  *)

\* The sessions a successful run may report: any for a new conversation,
\* only the resumed one for a resumed conversation.
AnsweredBy(r) == IF r.session = NoSession THEN SessionIds ELSE {r.session}

Outcomes(r) ==
    {Completed(r, s) : s \in AnsweredBy(r)}
      \cup {Blocked(r, s, at) : s \in SessionIds \cup {NoSession}, at \in BOOLEAN}
      \cup {Stopped(r, s) : s \in SessionIds \cup {NoSession}}

-----------------------------------------------------------------------------
\* The fields of a record agree with each other.
WellFormed(rec) ==
    \* an operation is named exactly while it runs (a closed record keeps
    \* the name of an operation that died)
    /\ rec.status = "pending" => rec.active # ""
    /\ rec.status \notin {"pending", "closed"} => rec.active = ""
    /\ rec.active = "continuation" => rec.session # NoSession
    \* an answer comes with the session that gave it
    /\ rec.seq > 0 => rec.session # NoSession
    /\ rec.status = "open" => rec.seq > 0 /\ rec.retryOp = ""
    \* stopped reviews are told apart by their session
    /\ rec.status = "interrupted" => rec.session # NoSession
    /\ rec.status = "failed" => rec.session = NoSession
    \* what is retried is an operation a client asked for, and can be run
    /\ rec.retryOp # "quota_retry"
    /\ rec.retryOp = "continuation" => rec.session # NoSession
    /\ rec.status = "waiting_for_quota" => rec.retryOp # ""
    /\ rec.active = "quota_retry" => rec.retryOp # ""
    /\ rec.active \in {"initial", "continuation"} => rec.retryOp = ""
    /\ rec.retryAt => rec.retryOp # ""
=============================================================================
