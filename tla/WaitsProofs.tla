----------------------------- MODULE WaitsProofs ----------------------------
(***************************************************************************)
(* What a request takes in and waits for: the diff of git, the stream of   *)
(* Claude and the reporter of progress, for every limit, size, pipe,       *)
(* buffer and number of requests.                                          *)
(*                                                                         *)
(* The diff: the buffer holds all that was copied until it has exceeded    *)
(* its limit, and exactly the limit from then on; the result is decided    *)
(* when nothing can be added any more.  The stream: at most one byte more  *)
(* than the limit is read, and that byte is what tells.  The reporter: a   *)
(* handler that has stopped has told its reporter to.                      *)
(***************************************************************************)
EXTENDS DiffLimit, StreamLimit, Progress, TLAPS

-----------------------------------------------------------------------------
(* DiffLimit                                                               *)

BufferFollowsCopy ==
    /\ ~exceeded => kept = copied
    /\ exceeded => kept = Limit(maxDiffBytes) /\ copied > Limit(maxDiffBytes)

ResultIsFinal ==
    /\ git = "idle" => printed = 0
    /\ git = "succeeded" => printed = size
    /\ result # "none" => git # "running" /\ copied = printed
    /\ result # "none" => (result = "too_large" <=> exceeded)
    /\ result = "diff" => git = "succeeded"

DiffInv == DiffTypeOK /\ BufferFollowsCopy /\ ResultIsFinal

-----------------------------------------------------------------------------
LEMMA LimitType == ASSUME NEW s \in Settings PROVE Limit(s) \in Nat /\ Limit(s) > 0
<1>1. s \in Int
  BY DiffAssumption
<1>2. DefaultLimit \in Nat /\ DefaultLimit > 0
  BY DiffAssumption
<1>3. QED
  BY <1>1, <1>2 DEF Limit

LEMMA SizeType == DiffTypeOK => size \in Nat
BY DiffAssumption DEF DiffTypeOK

LEMMA DiffInitKept == DiffInit => DiffInv
<1> SUFFICES ASSUME DiffInit PROVE DiffInv
  OBVIOUS
<1>1. Limit(maxDiffBytes) \in Nat /\ size \in Nat
  BY LimitType, DiffAssumption DEF DiffInit
<1>2. 0 \in 0..size /\ 0 \in 0..0 /\ 0 \in 0..Limit(maxDiffBytes)
  BY <1>1
<1>3. DiffTypeOK
  BY <1>2 DEF DiffInit, DiffTypeOK
<1>4. BufferFollowsCopy /\ ResultIsFinal
  BY DEF DiffInit, BufferFollowsCopy, ResultIsFinal
<1>5. QED
  BY <1>3, <1>4 DEF DiffInv

\* git printing and ending leaves the buffer alone, and comes before a result.
LEMMA GitKeeps == DiffInv /\ (StartGit \/ GitPrints \/ GitSucceeds \/ GitFails) => DiffInv'
<1> SUFFICES ASSUME DiffInv, StartGit \/ GitPrints \/ GitSucceeds \/ GitFails PROVE DiffInv'
  OBVIOUS
<1>1. size \in Nat /\ printed \in Nat /\ copied \in Nat
  BY SizeType DEF DiffInv, DiffTypeOK
<1>2. maxDiffBytes' = maxDiffBytes /\ kept' = kept /\ exceeded' = exceeded
      /\ copied' = copied /\ size' = size /\ result' = result
  BY DEF StartGit, GitPrints, GitSucceeds, GitFails
<1>3. BufferFollowsCopy'
  BY <1>2 DEF DiffInv, BufferFollowsCopy
<1>4. CASE GitPrints
  BY <1>1, <1>2, <1>3, <1>4 DEF GitPrints, DiffInv, DiffTypeOK, ResultIsFinal
<1>5. CASE GitSucceeds
  BY <1>1, <1>2, <1>3, <1>5 DEF GitSucceeds, DiffInv, DiffTypeOK, ResultIsFinal
<1>6. CASE GitFails
  BY <1>1, <1>2, <1>3, <1>6 DEF GitFails, DiffInv, DiffTypeOK, ResultIsFinal
<1>7. CASE StartGit
  BY <1>1, <1>2, <1>3, <1>7 DEF StartGit, DiffInv, DiffTypeOK, ResultIsFinal
<1>8. QED
  BY <1>4, <1>5, <1>6, <1>7

\* A chunk fits, crosses the limit, or comes after that.
LEMMA WriteKeeps == DiffInv /\ Write => DiffInv'
<1> SUFFICES ASSUME DiffInv, Write PROVE DiffInv'
  OBVIOUS
<1> DEFINE L == Limit(maxDiffBytes)
<1>1. PICK n \in 1..ChunkSize :
         /\ n <= printed - copied
         /\ copied' = copied + n
         /\ exceeded' = (exceeded \/ n > Remaining)
         /\ kept' = CASE exceeded -> kept
                      [] ~exceeded /\ n > Remaining -> kept + Remaining
                      [] OTHER -> kept + n
  BY DEF Write
<1>2. /\ size \in Nat /\ printed \in 0..size /\ copied \in 0..printed
      /\ L \in Nat /\ kept \in 0..L /\ Remaining = L - kept /\ exceeded \in BOOLEAN
  BY SizeType, LimitType DEF DiffInv, DiffTypeOK, Remaining
<1>3. n \in Nat /\ n > 0
  BY DiffAssumption
<1>4. /\ maxDiffBytes' = maxDiffBytes /\ size' = size /\ git' = git
      /\ printed' = printed /\ result' = result
  BY DEF Write
<1>5. L' = L
  BY <1>4 DEF Limit
<1>6. copied' \in 0..printed' /\ copied' > copied
  BY <1>1, <1>2, <1>3, <1>4
<1>7. /\ kept' \in 0..L' /\ exceeded' \in BOOLEAN
      /\ ~exceeded' => kept' = copied'
      /\ exceeded' => kept' = L' /\ copied' > L'
  <2>1. CASE exceeded
    <3>1. kept' = kept /\ exceeded' /\ kept = L /\ copied > L
      BY <1>1, <2>1 DEF DiffInv, BufferFollowsCopy
    <3>2. QED
      BY <1>1, <1>2, <1>3, <1>5, <3>1
  <2>2. CASE ~exceeded /\ n > Remaining
    <3>1. kept' = kept + Remaining /\ exceeded' /\ kept = copied
      BY <1>1, <2>2 DEF DiffInv, BufferFollowsCopy
    <3>2. kept' = L
      BY <1>2, <3>1
    <3>3. copied + n > L
      BY <1>2, <1>3, <2>2, <3>1
    <3>4. QED
      BY <1>1, <1>2, <1>5, <3>1, <3>2, <3>3
  <2>3. CASE ~exceeded /\ ~(n > Remaining)
    <3>1. kept' = kept + n /\ ~exceeded' /\ kept = copied
      BY <1>1, <2>3 DEF DiffInv, BufferFollowsCopy
    <3>2. kept + n \in 0..L
      BY <1>2, <1>3, <2>3
    <3>3. QED
      BY <1>1, <1>5, <3>1, <3>2
  <2>4. QED
    BY <2>1, <2>2, <2>3
<1>8. result = "none"
  BY <1>1, <1>2, <1>3 DEF DiffInv, ResultIsFinal
<1>9. DiffTypeOK'
  BY <1>4, <1>6, <1>7 DEF DiffInv, DiffTypeOK
<1>10. BufferFollowsCopy'
  BY <1>7 DEF BufferFollowsCopy
<1>11. ResultIsFinal'
  BY <1>4, <1>8 DEF DiffInv, ResultIsFinal
<1>12. QED
  BY <1>9, <1>10, <1>11 DEF DiffInv

LEMMA ReturnKeeps == DiffInv /\ Conclude => DiffInv'
<1> SUFFICES ASSUME DiffInv, Conclude PROVE DiffInv'
  OBVIOUS
<1>1. /\ maxDiffBytes' = maxDiffBytes /\ size' = size /\ git' = git
      /\ printed' = printed /\ copied' = copied /\ kept' = kept /\ exceeded' = exceeded
  BY DEF Conclude
<1>2. result' \in {"too_large", "error", "diff"} /\ (result' = "too_large" <=> exceeded)
      /\ (result' = "diff" => git # "failed")
  BY DEF Conclude
<1>3. DiffTypeOK'
  BY <1>1, <1>2 DEF DiffInv, DiffTypeOK
<1>4. BufferFollowsCopy'
  BY <1>1 DEF DiffInv, BufferFollowsCopy
<1>5. ResultIsFinal'
  BY <1>1, <1>2 DEF DiffInv, DiffTypeOK, ResultIsFinal, Conclude
<1>6. QED
  BY <1>3, <1>4, <1>5 DEF DiffInv

LEMMA InvalidKeeps == DiffInv /\ Invalid => DiffInv'
<1> SUFFICES ASSUME DiffInv, Invalid PROVE DiffInv'
  OBVIOUS
<1>1. /\ UNCHANGED <<maxDiffBytes, size, git, printed, copied, kept, exceeded>>
      /\ git = "idle" /\ result' = "error"
  BY DEF Invalid
<1>2. printed = 0 /\ copied \in 0..printed /\ Limit(maxDiffBytes) \in Nat
  BY <1>1, LimitType DEF DiffInv, DiffTypeOK, ResultIsFinal
<1>3. copied = printed /\ ~exceeded
  BY <1>2 DEF DiffInv, DiffTypeOK, BufferFollowsCopy
<1>4. DiffTypeOK' /\ BufferFollowsCopy'
  BY <1>1 DEF DiffInv, DiffTypeOK, BufferFollowsCopy, Limit
<1>5. ResultIsFinal'
  BY <1>1, <1>3 DEF DiffInv, ResultIsFinal
<1>6. QED
  BY <1>4, <1>5 DEF DiffInv

-----------------------------------------------------------------------------
\* The buffer follows the copy through every call of Diff.
THEOREM DiffInvariant == DiffSpec => []DiffInv
<1>1. ASSUME DiffInv, [DiffNext]_diffVars PROVE DiffInv'
  <2>1. CASE DiffNext
    BY <1>1, <2>1, GitKeeps, WriteKeeps, ReturnKeeps, InvalidKeeps DEF DiffNext
  <2>2. CASE UNCHANGED diffVars
    BY <1>1, <2>2 DEF diffVars, DiffInv, DiffTypeOK, BufferFollowsCopy, ResultIsFinal
  <2>3. QED
    BY <1>1, <2>1, <2>2
<1>2. QED
  BY DiffInitKept, <1>1, PTL DEF DiffSpec

\* The memory of a call of Diff is bounded by its limit.
THEOREM DiffTyped == DiffSpec => []DiffTypeOK
<1>1. DiffInv => DiffTypeOK
  BY DEF DiffInv
<1>2. QED
  BY <1>1, DiffInvariant, PTL

\* A diff that is returned is whole, and one is too large exactly when git printed
\* more than the limit.
THEOREM DiffsAreExact == DiffSpec => []DiffIsExact
<1>1. ASSUME DiffInv PROVE DiffIsExact
  <2>1. /\ kept \in 0..Limit(maxDiffBytes) /\ Limit(maxDiffBytes) \in Nat
        /\ copied \in Nat
    BY <1>1, LimitType, SizeType DEF DiffInv, DiffTypeOK
  <2>2. result = "diff" => git = "succeeded" /\ kept = size
    BY <1>1 DEF DiffInv, ResultIsFinal, BufferFollowsCopy
  <2>3. result # "none" => (result = "too_large" <=> printed > Limit(maxDiffBytes))
    BY <1>1, <2>1 DEF DiffInv, ResultIsFinal, BufferFollowsCopy
  <2>4. QED
    BY <2>2, <2>3 DEF DiffIsExact
<1>2. QED
  BY <1>1, DiffInvariant, PTL

\* What is left of a call at most: a byte is printed and copied, the process
\* starts and ends, the call returns.
DiffStepsLeft ==
    2 * (size - printed) + (printed - copied)
      + (CASE git = "idle" -> 2 [] git = "running" -> 1 [] OTHER -> 0)
      + (IF result = "none" THEN 1 ELSE 0)

FewerStepsLeft ==
    /\ DiffStepsLeft \in Nat /\ DiffStepsLeft' \in Nat
    /\ DiffStepsLeft' < DiffStepsLeft

DiffComesToAnEnd == [][FewerStepsLeft]_diffVars

\* Whatever git prints and however it ends, a call of Diff takes no more steps
\* than twice the size of the diff and three: none of them is taken back, and a
\* full buffer does not make the copy go round in circles.
THEOREM DiffsEnd == DiffSpec => DiffComesToAnEnd
<1>1. ASSUME DiffInv, DiffInv', [DiffNext]_diffVars
      PROVE  [FewerStepsLeft]_diffVars
  <2> SUFFICES ASSUME DiffNext
               PROVE  DiffStepsLeft \in Nat /\ DiffStepsLeft' \in Nat
                        /\ DiffStepsLeft' < DiffStepsLeft
    BY <1>1 DEF FewerStepsLeft
  <2>1. /\ size \in Nat /\ printed \in 0..size /\ copied \in 0..printed
        /\ git \in {"idle", "running", "succeeded", "failed"}
    BY <1>1, SizeType DEF DiffInv, DiffTypeOK
  <2>2. size' = size /\ printed' \in 0..size /\ copied' \in 0..printed'
    BY <1>1, SizeType DEF DiffInv, DiffTypeOK, DiffNext, Invalid, StartGit, GitPrints,
       GitSucceeds, GitFails, Write, Conclude
  <2>3. DiffStepsLeft \in Nat /\ DiffStepsLeft' \in Nat
    BY <2>1, <2>2 DEF DiffStepsLeft
  <2>4. CASE GitPrints
    BY <2>1, <2>2, <2>4 DEF GitPrints, DiffStepsLeft
  <2>5. CASE Write
    <3>1. PICK n \in 1..ChunkSize : n <= printed - copied /\ copied' = copied + n
      BY <2>5 DEF Write
    <3>2. n \in Nat /\ n > 0
      BY DiffAssumption
    <3>3. printed' = printed /\ git' = git /\ result' = result
      BY <2>5 DEF Write
    <3>4. copied' > copied
      BY <2>1, <3>1, <3>2
    <3>5. QED
      BY <2>1, <2>2, <3>3, <3>4 DEF DiffStepsLeft
  <2>6. CASE Invalid \/ StartGit \/ GitSucceeds \/ GitFails
    BY <2>1, <2>2, <2>6 DEF Invalid, StartGit, GitSucceeds, GitFails, DiffStepsLeft
  <2>7. CASE Conclude
    <3>1. result = "none" /\ result' # "none"
      BY <2>7 DEF Conclude
    <3>2. UNCHANGED <<size, git, printed, copied>>
      BY <2>7 DEF Conclude
    <3>3. QED
      BY <2>1, <3>1, <3>2 DEF DiffStepsLeft
  <2>8. QED
    BY <2>3, <2>4, <2>5, <2>6, <2>7 DEF DiffNext
<1>2. QED
  BY <1>1, DiffInvariant, PTL DEF DiffSpec, DiffComesToAnEnd

-----------------------------------------------------------------------------
(* StreamLimit                                                             *)

\* No more than the limit and a byte of it is read, and a line is in the buffer.
StreamTypeOK ==
    /\ maxBytes \in OutputSettings /\ output \in Outputs
    /\ got \in 0..output
    /\ got <= OutputLimit + 1
    /\ line \in 0..got /\ line <= Capacity
    /\ verdict \in {"none", "ok", "too_large", "unreadable"}

StreamInv ==
    /\ StreamTypeOK
    /\ OutputLimit = MaxInt => got = 0
    /\ OutputIsExact

LEMMA StreamConstants ==
    /\ MaxInt \in Nat /\ MaxInt > 0
    /\ OutputSettings \subseteq Int /\ Outputs \subseteq Nat
    /\ \A setting \in OutputSettings : setting <= MaxInt
    /\ DefaultOutputLimit \in Nat /\ DefaultOutputLimit > 0 /\ DefaultOutputLimit <= MaxInt
    /\ FirstBuffer \in Nat /\ FirstBuffer > 0 /\ MaxToken \in Nat
BY StreamAssumption

LEMMA LimitsTyped ==
    ASSUME maxBytes \in OutputSettings
    PROVE  OutputLimit \in Nat /\ OutputLimit > 0 /\ OutputLimit <= MaxInt
           /\ Capacity \in Nat /\ Capacity > 0
<1>1. OutputLimit \in Nat /\ OutputLimit > 0 /\ OutputLimit <= MaxInt
  BY StreamConstants DEF OutputLimit
<1>2. QED
  BY <1>1, StreamConstants DEF Capacity

\* The sum that wraps around: one more than the limit, unless the limit is the
\* largest integer.
LEMMA ReadableIs ==
    ASSUME maxBytes \in OutputSettings
    PROVE  Readable = IF OutputLimit = MaxInt THEN - MaxInt - 1 ELSE OutputLimit + 1
<1> DEFINE n == OutputLimit + 1 + MaxInt + 1
           k == 2 * (MaxInt + 1)
<1>1. OutputLimit \in Nat /\ OutputLimit > 0 /\ OutputLimit <= MaxInt /\ MaxInt \in Nat
  BY LimitsTyped, StreamConstants
<1>2. n \in Nat /\ k \in Nat /\ k > 0
  BY <1>1
<1>3. Readable = (n % k) - (MaxInt + 1)
  BY DEF Readable, Wrap
<1>4. CASE OutputLimit = MaxInt
  <2>1. n = k
    BY <1>1, <1>4
  <2>2. k % k = 0
    BY <1>2
  <2>3. QED
    BY <1>1, <1>3, <1>4, <2>1, <2>2
<1>5. CASE OutputLimit # MaxInt
  <2>1. n < k
    BY <1>1, <1>5
  <2>2. n % k = n
    BY <1>2, <2>1
  <2>3. QED
    BY <1>1, <1>3, <1>5, <2>2
<1>6. QED
  BY <1>4, <1>5

LEMMA StreamInitKept == StreamInit => StreamInv
<1> SUFFICES ASSUME StreamInit PROVE StreamInv
  OBVIOUS
<1>1. /\ OutputLimit \in Nat /\ Capacity \in Nat /\ output \in Nat
      /\ maxBytes \in OutputSettings
  BY LimitsTyped, StreamConstants DEF StreamInit
<1>2. StreamTypeOK
  BY <1>1 DEF StreamInit, StreamTypeOK
<1>3. OutputIsExact /\ got = 0
  BY DEF StreamInit, OutputIsExact
<1>4. QED
  BY <1>2, <1>3 DEF StreamInv

LEMMA StreamNextKept == StreamInv /\ [StreamNext]_streamVars => StreamInv'
<1> SUFFICES ASSUME StreamInv, [StreamNext]_streamVars PROVE StreamInv'
  OBVIOUS
<1>1. maxBytes' = maxBytes /\ output' = output
  BY DEF StreamNext, Read, LineTooLong, EndOfStream, streamVars
<1>2. OutputLimit' = OutputLimit /\ Capacity' = Capacity
  BY <1>1 DEF OutputLimit, Capacity
<1>3. /\ OutputLimit \in Nat /\ Capacity \in Nat /\ output \in Nat /\ got \in Nat
      /\ line \in Nat /\ MaxInt \in Nat
  BY LimitsTyped, StreamConstants DEF StreamInv, StreamTypeOK
<1>4. Left = IF OutputLimit = MaxInt THEN - MaxInt - 1 - got ELSE OutputLimit + 1 - got
  BY ReadableIs, <1>3 DEF Left, StreamInv, StreamTypeOK
<1>5. CASE Read
  <2>1. OutputLimit # MaxInt /\ got < OutputLimit + 1
    BY <1>3, <1>4, <1>5 DEF Read
  <2>2. got' = got + 1 /\ got' <= output' /\ line' \in {0, line + 1} /\ verdict' = verdict
        /\ line < Capacity /\ verdict = "none" /\ got < output
    BY <1>1, <1>3, <1>5 DEF Read
  <2>3. StreamTypeOK'
    BY <1>1, <1>2, <1>3, <2>1, <2>2 DEF StreamInv, StreamTypeOK
  <2>4. OutputIsExact'
    BY <2>2 DEF OutputIsExact
  <2>5. QED
    BY <1>2, <2>1, <2>3, <2>4 DEF StreamInv
<1>6. CASE LineTooLong
  <2>1. verdict' = "unreadable" /\ UNCHANGED <<got, line>>
    BY <1>6 DEF LineTooLong
  <2>2. QED
    BY <1>1, <1>2, <2>1 DEF StreamInv, StreamTypeOK, OutputIsExact
<1>7. CASE EndOfStream
  <2>1. /\ UNCHANGED <<got, line>>
        /\ got = output \/ Left <= 0
        /\ verdict' = IF Left <= 0 THEN "too_large" ELSE "ok"
    BY <1>7 DEF EndOfStream
  <2>2. CASE Left <= 0
    <3>1. output > OutputLimit \/ OutputLimit = MaxInt
      BY <1>3, <1>4, <2>2 DEF StreamInv, StreamTypeOK
    <3>2. QED
      BY <1>1, <1>2, <2>1, <2>2, <3>1 DEF StreamInv, StreamTypeOK, OutputIsExact
  <2>3. CASE ~(Left <= 0)
    <3>1. got = output /\ output <= OutputLimit
      BY <1>3, <1>4, <2>1, <2>3
    <3>2. QED
      BY <1>1, <1>2, <2>1, <2>3, <3>1 DEF StreamInv, StreamTypeOK, OutputIsExact
  <2>4. QED
    BY <2>2, <2>3
<1>8. CASE UNCHANGED streamVars
  BY <1>2, <1>8 DEF streamVars, StreamInv, StreamTypeOK, OutputIsExact
<1>9. QED
  BY <1>5, <1>6, <1>7, <1>8 DEF StreamNext

\* ParseStream keeps to its limits, whatever Claude prints.
THEOREM StreamInvariant == StreamSpec => []StreamInv
BY StreamInitKept, StreamNextKept, PTL DEF StreamSpec

\* Of a stream of any size no more than one byte over the limit is read, and no
\* more than a buffer held.
THEOREM StreamTyped == StreamSpec => []StreamTypeOK
<1>1. StreamInv => StreamTypeOK
  BY DEF StreamInv
<1>2. QED
  BY <1>1, StreamInvariant, PTL

\* A stream that was cut off never passes for an answer, for any limit up to the
\* largest integer, and one within the limit is not refused for its size.
THEOREM StreamsAreExact == StreamSpec => []OutputIsExact
<1>1. StreamInv => OutputIsExact
  BY DEF StreamInv
<1>2. QED
  BY <1>1, StreamInvariant, PTL

-----------------------------------------------------------------------------
(* Progress                                                                *)

Reporting(r) == reporter[r] \in {"sending", "waiting"}

\* A reporter lives while its handler does, and a handler stops only after it
\* has told its reporter to.
ReportersFollowHandlers ==
    \A r \in Requests :
       /\ Reporting(r) => handler[r] \in {"working", "stopping"}
       /\ handler[r] = "stopping" => canceled[r]
       /\ handler[r] = "done" => last[r] = "answer"

ProgressTypeOK ==
    /\ handler \in [Requests -> {"idle", "working", "stopping", "done"}]
    /\ canceled \in [Requests -> BOOLEAN]
    /\ reporter \in [Requests -> {"none", "sending", "waiting", "ended"}]
    /\ tick \in [Requests -> BOOLEAN]
    /\ last \in [Requests -> {"nothing", "progress", "answer"}]

ProgressInv == ProgressTypeOK /\ ReportersFollowHandlers

\* What the handler of a request that has stopped waits for: nothing, a
\* notification that is being written, or a reporter that sees its context ended.
HandlersAreHeard ==
    \A r \in Requests : handler[r] = "stopping" =>
       \/ reporter[r] \in {"none", "ended", "sending"}
       \/ reporter[r] = "waiting" /\ canceled[r]

LEMMA ProgressNextKept == ProgressInv /\ [ProgressNext]_progressVars => ProgressInv'
<1> SUFFICES ASSUME ProgressInv, [ProgressNext]_progressVars PROVE ProgressInv'
  OBVIOUS
<1> USE DEF ProgressInv, ProgressTypeOK, ReportersFollowHandlers, Reporting
<1>1. ASSUME NEW r \in Requests, Receive(r) PROVE ProgressInv'
  BY <1>1 DEF Receive
<1>2. ASSUME NEW r \in Requests, Withdraw(r) \/ Tick(r) PROVE ProgressInv'
  BY <1>2 DEF Withdraw, Tick
<1>3. ASSUME NEW r \in Requests, Notify(r) PROVE ProgressInv'
  BY <1>3 DEF Notify
<1>4. ASSUME NEW r \in Requests, TakeTick(r) \/ TakeDone(r) PROVE ProgressInv'
  BY <1>4 DEF TakeTick, TakeDone
<1>5. ASSUME NEW r \in Requests, Finish(r) PROVE ProgressInv'
  BY <1>5 DEF Finish
<1>6. ASSUME NEW r \in Requests, Reply(r) PROVE ProgressInv'
  BY <1>6 DEF Reply
<1>7. CASE UNCHANGED progressVars
  BY <1>7 DEF progressVars
<1>8. QED
  BY <1>1, <1>2, <1>3, <1>4, <1>5, <1>6, <1>7 DEF ProgressNext

\* Handlers and reporters of any number of requests keep in step.
THEOREM ProgressInvariant == ProgressSpec => []ProgressInv
<1>1. ProgressInit => ProgressInv
  BY DEF ProgressInit, ProgressInv, ProgressTypeOK, ReportersFollowHandlers, Reporting
<1>2. QED
  BY <1>1, ProgressNextKept, PTL DEF ProgressSpec

\* The answer of a synchronous tool is the last its client hears of the request.
THEOREM AnswersAreLast == ProgressSpec => []AnswerIsLast
<1>1. ProgressInv => AnswerIsLast
  BY DEF ProgressInv, ProgressTypeOK, ReportersFollowHandlers, Reporting, AnswerIsLast
<1>2. QED
  BY <1>1, ProgressInvariant, PTL

\* stopProgress never waits for a reporter that has not been told to end.
THEOREM HandlersWaitForTheTold == ProgressSpec => []HandlersAreHeard
<1>1. ProgressInv => HandlersAreHeard
  BY DEF ProgressInv, ProgressTypeOK, ReportersFollowHandlers, HandlersAreHeard
<1>2. QED
  BY <1>1, ProgressInvariant, PTL
=============================================================================
