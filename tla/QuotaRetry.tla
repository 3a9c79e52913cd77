----------------------------- MODULE QuotaRetry -----------------------------
(***************************************************************************)
(* The reset time of a review that Claude's quota blocks, against a clock. *)
(* ReviewRecord keeps of RetryAt only whether there is one; here it is a   *)
(* time, which a rejection brings, a retry is measured against, and a      *)
(* client is told the distance to in whole seconds.                        *)
(*                                                                         *)
(* The operations on one review exclude each other (ReviewService), so     *)
(* each is a step.  Its clients poll, are refused, wait and come back, and *)
(* do not know of each other's forced retries.                             *)
(***************************************************************************)
EXTENDS ReviewRecord, Integers

CONSTANTS
    Clients,
    Session,        \* the conversation of the review
    Second,         \* the ticks of the clock in a second
    NoTime,         \* RetryAt = nil
    NotTold,        \* a client that was told no time to wait
    MaxClock,       \* bound: the last instant looked at
    MaxRejections,  \* bound: rejections of one review
    MaxAnswers      \* bound: answers to one review

Instants == 0..MaxClock

\* Claude reports reset times in seconds since the epoch.
Resets == {t \in Instants : t % Second = 0}

ASSUME QuotaAssumption ==
    /\ Session \in SessionIds
    /\ Second \in Nat \ {0}
    /\ NoTime \notin Instants
    /\ MaxClock \in Nat
    /\ MaxRejections \in Nat
    /\ MaxAnswers \in Nat
    /\ NotTold \notin [until : Nat, rejection : Nat]

VARIABLES
    rec,         \* the record
    resetAt,     \* its RetryAt
    clock,
    told,        \* until when each client was told to wait, by which rejection
    rejections,  \* how often Claude has rejected the review
    lastReset,   \* the reset time its last rejection came with
    forced       \* whether a client has forced a retry since then

quotaVars == <<rec, resetAt, clock, told, rejections, lastReset, forced>>

QuotaInit ==
    /\ rec = NewRecord
    /\ resetAt = NoTime
    /\ clock = 0
    /\ told = [c \in Clients |-> NotTold]
    /\ rejections = 0
    /\ lastReset = NoTime
    /\ forced = FALSE

-----------------------------------------------------------------------------
\* Mutant of secondsUntil: the remaining time is rounded down.
secondsUntilFloor(now, at) == IF at <= now THEN 0 ELSE (at - now) \div Second

secondsUntil(now, at) == IF at <= now THEN 0 ELSE (at - now + Second - 1) \div Second

\* The reset time lies ahead and the review still waits for it.
Blocking == rec.status = "waiting_for_quota" /\ resetAt # NoTime /\ clock < resetAt

\* retry_after_seconds of a status, or of a refusal.
Tell(c) ==
    told' = [told EXCEPT ![c] =
        [until |-> clock + Second * secondsUntil(clock, resetAt),
         rejection |-> rejections]]

Tick ==
    /\ clock < MaxClock
    /\ clock' = clock + 1
    /\ UNCHANGED <<rec, resetAt, told, rejections, lastReset, forced>>

-----------------------------------------------------------------------------
(* The end of a run: persistReviewFailure and executeReview.               *)

\* Mutant of Reject: a rejection without a reset time keeps the older one.
RejectKeeping(at) ==
    /\ rec.status = "pending" /\ rejections < MaxRejections
    /\ resetAt' = IF at = NoTime THEN resetAt ELSE at
    /\ rec' = Blocked(rec, Session, resetAt' # NoTime)
    /\ rejections' = rejections + 1
    /\ lastReset' = at
    /\ forced' = FALSE
    /\ UNCHANGED <<clock, told>>

\* claude_quota_exceeded, with a reset time or without.
Reject(at) ==
    /\ rec.status = "pending" /\ rejections < MaxRejections
    /\ rec' = Blocked(rec, Session, at # NoTime)
    /\ resetAt' = at
    /\ rejections' = rejections + 1
    /\ lastReset' = at
    /\ forced' = FALSE
    /\ UNCHANGED <<clock, told>>

\* Any other failure: only a failing retry keeps what it was retrying.
Fail ==
    /\ rec.status = "pending"
    /\ rec' = Stopped(rec, Session)
    /\ resetAt' = IF rec.active = "quota_retry" THEN resetAt ELSE NoTime
    /\ UNCHANGED <<clock, told, rejections, lastReset, forced>>

\* The worker died with its process and a scan found its record.
Lose ==
    /\ rec.status = "pending"
    /\ rec' = WorkerLost(rec)
    /\ UNCHANGED <<resetAt, clock, told, rejections, lastReset, forced>>

Complete ==
    /\ rec.status = "pending" /\ rec.seq < MaxAnswers
    /\ rec' = Completed(rec, Session)
    /\ resetAt' = NoTime
    /\ UNCHANGED <<clock, told, rejections, lastReset, forced>>

-----------------------------------------------------------------------------
(* What clients do.                                                        *)

\* prepareQuotaRetry: an early retry has to be forced while the review waits.
Retry(c, force) ==
    /\ CanRetry(rec)
    /\ Blocking => force
    /\ rec' = Retrying(rec)
    /\ forced' = (forced \/ Blocking)
    /\ UNCHANGED <<resetAt, clock, told, rejections, lastReset>>

\* quota_retry_not_ready
RetryRefused(c) ==
    /\ Blocking
    /\ Tell(c)
    /\ UNCHANGED <<rec, resetAt, clock, rejections, lastReset, forced>>

\* GetReviewStatus, and the quotaWaitError a continuation is refused with.
Ask(c) ==
    /\ rec.status = "waiting_for_quota" /\ resetAt # NoTime
    /\ Tell(c)
    /\ UNCHANGED <<rec, resetAt, clock, rejections, lastReset, forced>>

\* A pending record may be continued, and closed: the worker it names is dead, for
\* no other request gets hold of it.
Continue(c) ==
    /\ CanContinue(rec)
    /\ rec' = Continuing(rec)
    /\ resetAt' = NoTime
    /\ UNCHANGED <<clock, told, rejections, lastReset, forced>>

\* close_review; the clients lose interest in the review.
Close ==
    /\ rec.status # "closed"
    /\ rec' = Closed(rec)
    /\ UNCHANGED <<resetAt, clock, told, rejections, lastReset, forced>>

QuotaNext ==
    \/ Tick
    \/ \E at \in Resets \cup {NoTime} : Reject(at)
    \/ Fail \/ Lose \/ Complete \/ Close
    \/ \E c \in Clients : \/ \E force \in BOOLEAN : Retry(c, force)
                          \/ RetryRefused(c) \/ Ask(c) \/ Continue(c)

QuotaSpec == QuotaInit /\ [][QuotaNext]_quotaVars

-----------------------------------------------------------------------------
\* Every variable keeps to the values the record and the clock can have.
QuotaTypeOK ==
    /\ rec \in Record
    /\ resetAt \in Resets \cup {NoTime}
    /\ clock \in Instants
    /\ told \in [Clients -> [until : Nat, rejection : Nat] \cup {NotTold}]
    /\ rejections \in 0..MaxRejections
    /\ lastReset \in Resets \cup {NoTime}
    /\ forced \in BOOLEAN

\* What ReviewRecord keeps of the reset time is true of it.
RecordTellsTime == rec.retryAt <=> resetAt # NoTime

\* A review waits for the reset time of its last rejection, never for one left
\* over from a rejection before (persistReviewFailure assigns RetryAt always).
WaitIsCurrent == rec.status = "waiting_for_quota" => resetAt = lastReset

\* A client that waits retry_after_seconds is not refused when it comes back,
\* unless Claude has rejected the review again meanwhile, and is not told to wait
\* a second too long: the seconds are rounded up, and the reset time is compared
\* with the same clock, however often the review was retried, failed or polled.
WaitIsExact ==
    \A c \in Clients :
       told[c] # NotTold /\ told[c].rejection = rejections /\ Blocking =>
          clock < told[c].until /\ told[c].until < resetAt + Second

\* Quota that is not due is only tried when a client has asked for it: a run
\* before the reset time of the last rejection is a forced retry, or follows
\* one that was interrupted.
EarlyRunsAreForced ==
    rec.status = "pending" /\ resetAt # NoTime =>
        forced \/ lastReset <= clock
=============================================================================
