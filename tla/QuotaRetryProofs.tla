-------------------------- MODULE QuotaRetryProofs --------------------------
(***************************************************************************)
(* The reset time of a blocked review, for any number of clients, any      *)
(* length of the second and any bounds.  Whatever time a review keeps is   *)
(* that of its last rejection, and a client told to wait was told a time   *)
(* less than a second past it.                                             *)
(***************************************************************************)
EXTENDS QuotaRetry, ReviewRecordProofs

RecordGood ==
    /\ WellFormed(rec)
    /\ rec.session \in {NoSession, Session}

ResetIsLast ==
    /\ WaitIsCurrent
    /\ resetAt # NoTime => resetAt = lastReset

\* What a client was told of the last rejection stays true as time passes.
ToldGood(c) ==
    told[c] # NotTold =>
       /\ told[c].rejection <= rejections
       /\ told[c].rejection = rejections =>
             /\ lastReset # NoTime /\ lastReset <= told[c].until
             /\ \/ told[c].until < lastReset + Second
                \/ lastReset <= clock

\* EarlyRunsAreForced, and the stopped runs a further retry may start from.
EarlyIsForced ==
    rec.status \in {"pending", "interrupted", "failed"} /\ resetAt # NoTime =>
       forced \/ lastReset <= clock

IInv ==
    /\ QuotaTypeOK
    /\ RecordGood
    /\ RecordTellsTime
    /\ ResetIsLast
    /\ \A c \in Clients : ToldGood(c)
    /\ EarlyIsForced

-----------------------------------------------------------------------------
LEMMA ConstantsTyped ==
    /\ Session \in SessionIds /\ Session # NoSession
    /\ Second \in Nat /\ Second > 0
    /\ NoTime \notin Resets
    /\ MaxClock \in Nat /\ MaxRejections \in Nat
    /\ Resets \subseteq Nat
    /\ Instants \subseteq Nat
    /\ NotTold \notin [until : Nat, rejection : Nat]
BY QuotaAssumption, NoSessionAssumption DEF Resets, Instants

\* Rounding up reaches a time ahead, by less than a second too much.
LEMMA RoundingUp ==
    ASSUME NEW now \in Nat, NEW at \in Nat
    PROVE  /\ secondsUntil(now, at) \in Nat
           /\ at <= now + Second * secondsUntil(now, at)
           /\ now < at => now + Second * secondsUntil(now, at) < at + Second
<1>1. CASE at <= now
  BY <1>1, ConstantsTyped DEF secondsUntil
<1>2. CASE now < at
  <2> DEFINE x == at - now + Second - 1
             q == x \div Second
  <2>1. x \in Nat /\ x >= Second
    BY <1>2, ConstantsTyped
  <2>2. q \in Int /\ Second * q <= x /\ x < Second * q + Second
    BY <2>1, ConstantsTyped
  <2>3. q >= 0
    BY <2>1, <2>2, ConstantsTyped
  <2>4. secondsUntil(now, at) = q
    BY <1>2 DEF secondsUntil
  <2>5. Second * q \in Int
    BY <2>2, ConstantsTyped
  <2> HIDE DEF q
  <2>6. QED
    BY <1>2, <2>1, <2>2, <2>3, <2>4, <2>5, ConstantsTyped
<1>3. QED
  BY <1>1, <1>2

LEMMA InitKept == QuotaInit => IInv
<1> SUFFICES ASSUME QuotaInit PROVE IInv
  OBVIOUS
<1> USE DEF QuotaInit
<1>1. QuotaTypeOK
  <2>1. rec \in Record
    BY NewRecordGood
  <2>2. clock \in Instants /\ rejections \in 0..MaxRejections
    BY ConstantsTyped DEF Instants
  <2>3. told \in [Clients -> [until : Nat, rejection : Nat] \cup {NotTold}]
    OBVIOUS
  <2>4. QED
    BY <2>1, <2>2, <2>3 DEF QuotaTypeOK
<1>2. RecordGood /\ RecordTellsTime
  BY NewRecordGood DEF RecordGood, RecordTellsTime, NewRecord
<1>3. ResetIsLast /\ (\A c \in Clients : ToldGood(c)) /\ EarlyIsForced
  BY ConstantsTyped DEF ResetIsLast, WaitIsCurrent, ToldGood, EarlyIsForced, NewRecord
<1>4. QED
  BY <1>1, <1>2, <1>3 DEF IInv

\* The steps that leave what the clients were told, and the rejection it was
\* told of, as they are.
LEMMA ToldKept ==
    ASSUME IInv, UNCHANGED <<clock, told, rejections, lastReset>>
    PROVE  \A c \in Clients : ToldGood(c)'
BY DEF IInv, ToldGood

LEMMA TickKept == ASSUME IInv, Tick PROVE IInv'
<1> USE DEF IInv, Tick
<1>1. clock \in Nat /\ clock' = clock + 1 /\ clock' \in Instants
  BY ConstantsTyped DEF QuotaTypeOK, Instants
<1>2. lastReset # NoTime => lastReset \in Nat
  BY ConstantsTyped DEF QuotaTypeOK
<1>3. QuotaTypeOK'
  BY <1>1 DEF QuotaTypeOK
<1>4. RecordGood' /\ RecordTellsTime' /\ ResetIsLast'
  BY DEF RecordGood, RecordTellsTime, ResetIsLast, WaitIsCurrent
<1>5. ASSUME NEW c \in Clients PROVE ToldGood(c)'
  BY <1>1, <1>2 DEF ToldGood
<1>6. EarlyIsForced'
  <2>1. resetAt # NoTime => lastReset \in Nat
    BY ConstantsTyped DEF QuotaTypeOK, ResetIsLast
  <2>2. QED
    BY <1>1, <2>1 DEF EarlyIsForced
<1>7. QED
  BY <1>3, <1>4, <1>5, <1>6

LEMMA RejectKept ==
    ASSUME IInv, NEW at \in Resets \cup {NoTime}, Reject(at)
    PROVE  IInv'
<1> USE DEF IInv, Reject
<1>1. rec \in Record /\ WellFormed(rec) /\ rec.status = "pending"
  BY DEF QuotaTypeOK, RecordGood
<1>2. rec' \in Outcomes(rec)
  <2>1. (at # NoTime) \in BOOLEAN /\ Session \in SessionIds \cup {NoSession}
    BY ConstantsTyped
  <2>2. \E s \in SessionIds \cup {NoSession}, given \in BOOLEAN :
           rec' = Blocked(rec, s, given)
    BY <2>1
  <2>3. QED
    BY <2>2 DEF Outcomes
<1>3. rec' \in Record /\ WellFormed(rec')
  BY <1>1, <1>2, OutcomesGood
<1>4. /\ rec'.status = "waiting_for_quota"
      /\ rec'.retryAt = (at # NoTime)
      /\ rec'.session \in {NoSession, Session}
  BY <1>1 DEF Blocked, KeptSession, Record, RecordGood
<1>5. rejections' \in 0..MaxRejections /\ rejections < rejections'
  <2>1. rejections \in Nat
    BY ConstantsTyped DEF QuotaTypeOK
  <2>2. QED
    BY <2>1, ConstantsTyped
<1>6. QuotaTypeOK'
  BY <1>3, <1>5 DEF QuotaTypeOK
<1>7. RecordGood' /\ RecordTellsTime' /\ ResetIsLast' /\ EarlyIsForced'
  BY <1>3, <1>4
     DEF RecordGood, RecordTellsTime, ResetIsLast, WaitIsCurrent, EarlyIsForced
<1>8. ASSUME NEW c \in Clients, told[c] # NotTold PROVE ToldGood(c)'
  <2>1. told[c].rejection \in Nat /\ rejections \in Nat
    BY <1>8, ConstantsTyped DEF QuotaTypeOK
  <2>2. told[c].rejection <= rejections
    BY <1>8 DEF ToldGood
  <2>3. told[c].rejection <= rejections' /\ told[c].rejection # rejections'
    BY <1>5, <2>1, <2>2, ConstantsTyped
  <2>4. QED
    BY <2>3 DEF ToldGood
<1>9. \A c \in Clients : ToldGood(c)'
  BY <1>8 DEF ToldGood
<1>10. QED
  BY <1>6, <1>7, <1>9

LEMMA FailKept == ASSUME IInv, Fail PROVE IInv'
<1> USE DEF IInv, Fail
<1>1. rec \in Record /\ WellFormed(rec) /\ rec.status = "pending"
  BY DEF QuotaTypeOK, RecordGood
<1>2. rec' \in Outcomes(rec)
  BY ConstantsTyped DEF Outcomes
<1>3. rec' \in Record /\ WellFormed(rec')
  BY <1>1, <1>2, OutcomesGood
<1>4. /\ rec'.status \in {"failed", "interrupted"}
      /\ rec'.retryAt = (rec.active = "quota_retry" /\ rec.retryAt)
      /\ rec'.session \in {NoSession, Session}
  BY <1>1 DEF Stopped, StoppedStatus, KeptSession, Record, RecordGood
<1>5. QuotaTypeOK'
  BY <1>3 DEF QuotaTypeOK
<1>6. RecordGood' /\ RecordTellsTime' /\ ResetIsLast' /\ EarlyIsForced'
  BY <1>1, <1>3, <1>4
     DEF RecordGood, RecordTellsTime, ResetIsLast, WaitIsCurrent, EarlyIsForced
<1>7. QED
  BY <1>5, <1>6, ToldKept

LEMMA LoseKept == ASSUME IInv, Lose PROVE IInv'
<1> USE DEF IInv, Lose
<1>1. rec \in Record /\ WellFormed(rec) /\ rec.status = "pending"
  BY DEF QuotaTypeOK, RecordGood
<1>2. rec' \in Record /\ WellFormed(rec')
  BY <1>1, WorkerLostGood
<1>3. /\ rec'.status \in {"failed", "interrupted"}
      /\ rec'.retryAt = rec.retryAt /\ rec'.session = rec.session
  BY <1>1 DEF WorkerLost, StoppedStatus, Record
<1>4. QuotaTypeOK' /\ RecordGood' /\ RecordTellsTime' /\ ResetIsLast' /\ EarlyIsForced'
  BY <1>1, <1>2, <1>3
     DEF QuotaTypeOK, RecordGood, RecordTellsTime, ResetIsLast, WaitIsCurrent, EarlyIsForced
<1>5. QED
  BY <1>4, ToldKept

LEMMA CompleteKept == ASSUME IInv, Complete PROVE IInv'
<1> USE DEF IInv, Complete
<1>1. rec \in Record /\ WellFormed(rec) /\ rec.status = "pending"
  BY DEF QuotaTypeOK, RecordGood
<1>2. Session \in AnsweredBy(rec)
  BY ConstantsTyped DEF AnsweredBy, RecordGood
<1>3. rec' \in Record /\ WellFormed(rec')
  BY <1>1, <1>2, OutcomesGood DEF Outcomes
<1>4. rec'.status = "open" /\ rec'.retryAt = FALSE /\ rec'.session = Session
  BY DEF Completed
<1>5. QuotaTypeOK' /\ RecordGood' /\ RecordTellsTime' /\ ResetIsLast' /\ EarlyIsForced'
  BY <1>3, <1>4
     DEF QuotaTypeOK, RecordGood, RecordTellsTime, ResetIsLast, WaitIsCurrent, EarlyIsForced
<1>6. QED
  BY <1>5, ToldKept

-----------------------------------------------------------------------------
LEMMA RetryKept ==
    ASSUME IInv, NEW c \in Clients, NEW force \in BOOLEAN, Retry(c, force)
    PROVE  IInv'
<1> USE DEF IInv, Retry
<1>1. rec \in Record /\ WellFormed(rec) /\ CanRetry(rec)
  BY DEF QuotaTypeOK, RecordGood
<1>2. rec' \in Record /\ WellFormed(rec') /\ rec'.status = "pending"
  BY <1>1, RetryingGood
<1>3. rec'.retryAt = rec.retryAt /\ rec'.session = rec.session
  BY <1>1 DEF Retrying, Record
<1>4. forced' \in BOOLEAN
  BY DEF QuotaTypeOK, Blocking
<1>5. QuotaTypeOK' /\ RecordGood' /\ RecordTellsTime' /\ ResetIsLast'
  BY <1>2, <1>3, <1>4
     DEF QuotaTypeOK, RecordGood, RecordTellsTime, ResetIsLast, WaitIsCurrent
<1>6. EarlyIsForced'
  <2>1. SUFFICES ASSUME resetAt # NoTime, ~forced'
                 PROVE  lastReset <= clock
    BY DEF EarlyIsForced
  <2>2. resetAt = lastReset /\ resetAt \in Nat /\ clock \in Nat
    BY <2>1, ConstantsTyped DEF ResetIsLast, QuotaTypeOK
  <2>3. ~forced /\ ~Blocking
    BY <2>1
  <2>4. CASE rec.status = "waiting_for_quota"
    BY <2>1, <2>2, <2>3, <2>4 DEF Blocking
  <2>5. CASE rec.status \in {"interrupted", "failed"}
    BY <2>1, <2>3, <2>5 DEF EarlyIsForced
  <2>6. QED
    BY <1>1, <2>4, <2>5 DEF CanRetry
<1>7. QED
  BY <1>5, <1>6, ToldKept

LEMMA TellKept ==
    ASSUME IInv, NEW c \in Clients, Tell(c),
           rec.status = "waiting_for_quota", resetAt # NoTime,
           UNCHANGED <<rec, resetAt, clock, rejections, lastReset, forced>>
    PROVE  IInv'
<1> USE DEF IInv
<1> DEFINE seconds == secondsUntil(clock, resetAt)
           now == [until |-> clock + Second * seconds, rejection |-> rejections]
<1>1. resetAt = lastReset /\ resetAt \in Nat /\ clock \in Nat /\ rejections \in Nat
  BY ConstantsTyped DEF ResetIsLast, QuotaTypeOK
<1>2. /\ seconds \in Nat
      /\ resetAt <= clock + Second * seconds
      /\ clock < resetAt => clock + Second * seconds < resetAt + Second
  BY <1>1, RoundingUp
<1>3. now.until \in Nat /\ now \in [until : Nat, rejection : Nat]
  BY <1>1, <1>2, ConstantsTyped
<1>4. QuotaTypeOK'
  BY <1>3 DEF QuotaTypeOK, Tell
<1>5. RecordGood' /\ RecordTellsTime' /\ ResetIsLast' /\ EarlyIsForced'
  BY DEF RecordGood, RecordTellsTime, ResetIsLast, WaitIsCurrent, EarlyIsForced
<1>6. ASSUME NEW d \in Clients PROVE ToldGood(d)'
  <2>1. CASE d = c
    <3>1. told'[d] = now
      BY <2>1 DEF Tell, QuotaTypeOK
    <3>2. now.rejection = rejections /\ now.until = clock + Second * seconds
      OBVIOUS
    <3>3. lastReset # NoTime
      BY <1>1
    <3> HIDE DEF now, seconds
    <3>4. now.rejection <= rejections
      BY <1>1, <3>2
    <3>5. lastReset <= now.until /\ (now.until < lastReset + Second \/ lastReset <= clock)
      BY <1>1, <1>2, <3>2
    <3>6. QED
      BY <3>1, <3>3, <3>4, <3>5 DEF ToldGood
  <2>2. CASE d # c
    BY <2>2 DEF Tell, QuotaTypeOK, ToldGood
  <2>3. QED
    BY <2>1, <2>2
<1>7. QED
  BY <1>4, <1>5, <1>6

LEMMA ContinueKept == ASSUME IInv, NEW c \in Clients, Continue(c) PROVE IInv'
<1> USE DEF IInv, Continue
<1>1. rec \in Record /\ WellFormed(rec) /\ CanContinue(rec)
  BY DEF QuotaTypeOK, RecordGood
<1>2. rec' \in Record /\ WellFormed(rec') /\ rec'.status = "pending"
  BY <1>1, ContinuingGood
<1>3. rec'.retryAt = FALSE /\ rec'.session = rec.session
  BY <1>1 DEF Continuing, Record
<1>4. QuotaTypeOK' /\ RecordGood' /\ RecordTellsTime' /\ ResetIsLast' /\ EarlyIsForced'
  BY <1>2, <1>3
     DEF QuotaTypeOK, RecordGood, RecordTellsTime, ResetIsLast, WaitIsCurrent, EarlyIsForced
<1>5. QED
  BY <1>4, ToldKept

LEMMA CloseKept == ASSUME IInv, Close PROVE IInv'
<1> USE DEF IInv, Close
<1>1. rec \in Record /\ WellFormed(rec)
  BY DEF QuotaTypeOK, RecordGood
<1>2. rec' \in Record /\ WellFormed(rec')
  BY <1>1, ClosedGood
<1>3. rec'.status = "closed" /\ rec'.retryAt = rec.retryAt /\ rec'.session = rec.session
  BY <1>1 DEF Closed, Record
<1>4. QuotaTypeOK' /\ RecordGood' /\ RecordTellsTime' /\ ResetIsLast' /\ EarlyIsForced'
  BY <1>2, <1>3
     DEF QuotaTypeOK, RecordGood, RecordTellsTime, ResetIsLast, WaitIsCurrent, EarlyIsForced
<1>5. QED
  BY <1>4, ToldKept

LEMMA StutterKept == ASSUME IInv, UNCHANGED quotaVars PROVE IInv'
BY DEF quotaVars, IInv, QuotaTypeOK, RecordGood, RecordTellsTime, ResetIsLast, WaitIsCurrent,
       ToldGood, EarlyIsForced

-----------------------------------------------------------------------------
\* The record and its reset time fit the last rejection, and what the clients
\* were told of it, in every state.
THEOREM Invariant == QuotaSpec => []IInv
<1>1. ASSUME IInv, [QuotaNext]_quotaVars PROVE IInv'
  <2>1. CASE Tick
    BY <1>1, <2>1, TickKept
  <2>2. CASE \E at \in Resets \cup {NoTime} : Reject(at)
    BY <1>1, <2>2, RejectKept
  <2>3. CASE Fail
    BY <1>1, <2>3, FailKept
  <2>4. CASE Lose
    BY <1>1, <2>4, LoseKept
  <2>5. CASE Complete
    BY <1>1, <2>5, CompleteKept
  <2>6. CASE Close
    BY <1>1, <2>6, CloseKept
  <2>7. ASSUME NEW c \in Clients, NEW force \in BOOLEAN, Retry(c, force)
        PROVE  IInv'
    BY <1>1, <2>7, RetryKept
  <2>8. ASSUME NEW c \in Clients, RetryRefused(c) \/ Ask(c) PROVE IInv'
    <3>1. /\ rec.status = "waiting_for_quota" /\ resetAt # NoTime /\ Tell(c)
          /\ UNCHANGED <<rec, resetAt, clock, rejections, lastReset, forced>>
      BY <2>8 DEF RetryRefused, Ask, Blocking
    <3>2. QED
      BY <1>1, <3>1, TellKept
  <2>9. ASSUME NEW c \in Clients, Continue(c) PROVE IInv'
    BY <1>1, <2>9, ContinueKept
  <2>10. CASE UNCHANGED quotaVars
    BY <1>1, <2>10, StutterKept
  <2>11. QED
    BY <1>1, <2>1, <2>2, <2>3, <2>4, <2>5, <2>6, <2>7, <2>8, <2>9, <2>10 DEF QuotaNext
<1>2. QED
  BY InitKept, <1>1, PTL DEF QuotaSpec

\* The variables keep to their values.
THEOREM QuotaTyped == QuotaSpec => []QuotaTypeOK
<1>1. IInv => QuotaTypeOK
  BY DEF IInv
<1>2. QED
  BY <1>1, Invariant, PTL

\* The flag ReviewRecord keeps of the reset time is true of it.
THEOREM FlagIsTrue == QuotaSpec => []RecordTellsTime
<1>1. IInv => RecordTellsTime
  BY DEF IInv
<1>2. QED
  BY <1>1, Invariant, PTL

\* A blocked review waits for the reset time of its last rejection.
THEOREM NoStaleReset == QuotaSpec => []WaitIsCurrent
<1>1. IInv => WaitIsCurrent
  BY DEF IInv, ResetIsLast
<1>2. QED
  BY <1>1, Invariant, PTL

\* Who waits as long as it was told comes back after the reset time, and less
\* than a second after it.
THEOREM TheWaitIsExact == QuotaSpec => []WaitIsExact
<1>1. ASSUME IInv, NEW c \in Clients, told[c] # NotTold,
             told[c].rejection = rejections, Blocking
      PROVE  clock < told[c].until /\ told[c].until < resetAt + Second
  <2>1. resetAt = lastReset /\ resetAt \in Nat /\ clock \in Nat /\ clock < resetAt
    BY <1>1, ConstantsTyped DEF IInv, ResetIsLast, QuotaTypeOK, Blocking
  <2>2. told[c].until \in Nat /\ lastReset <= told[c].until
    BY <1>1 DEF IInv, ToldGood, QuotaTypeOK
  <2>3. told[c].until < lastReset + Second \/ lastReset <= clock
    BY <1>1 DEF IInv, ToldGood
  <2>4. QED
    BY <2>1, <2>2, <2>3
<1>2. IInv => WaitIsExact
  BY <1>1 DEF WaitIsExact
<1>3. QED
  BY <1>2, Invariant, PTL

\* No run starts before the reset time of the last rejection unless a client
\* forced it, or forced the one it repeats.
THEOREM QuotaIsRespected == QuotaSpec => []EarlyRunsAreForced
<1>1. IInv => EarlyRunsAreForced
  BY DEF IInv, EarlyIsForced, EarlyRunsAreForced
<1>2. QED
  BY <1>1, Invariant, PTL
=============================================================================
