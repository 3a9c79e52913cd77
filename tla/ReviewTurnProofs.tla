--------------------------- MODULE ReviewTurnProofs --------------------------
(***************************************************************************)
(* The safety properties of ClaudeClient and of ReviewTurn, for any number *)
(* of calls and reviews, any lines and any limits.  What a finished call   *)
(* returned is Kind of the state it ended in, and nothing of that state    *)
(* changes any more; the properties of the client are then facts about     *)
(* Kind.  A turn only adds to the run of the client, so they hold of turns *)
(* as well; what a turn makes of a record follows from what the run        *)
(* returned.                                                               *)
(***************************************************************************)
EXTENDS ReviewTurn, SequenceTheorems, TLAPS

-----------------------------------------------------------------------------
(* Runs of the client.                                                     *)

\* A child exists from the start of the process on, has no open output once the
\* stream has been read, and is gone when the call returns.
ChildFollowsCall ==
    \A r \in Runs :
       /\ pc[r] \in {"idle", "lock", "auth", "start"} => proc[r] = "none"
       /\ pc[r] = "stream" => proc[r] # "none"
       /\ pc[r] = "wait" => proc[r] \notin {"none", "running"}
       /\ pc[r] = "done" => proc[r] \notin {"running", "silent"}

\* A child is killed only for its context or its output.
KillsHaveCause ==
    \A r \in Runs :
       /\ proc[r] = "killed" => ctx[r] # "live" \/ parse[r] # "ok"
       /\ pc[r] \notin {"wait", "done"} => parse[r] = "ok"

\* A call returns when it is done, and a call that had a child returns Kind.
ReturnsAreKinds ==
    \A r \in Runs :
       /\ pc[r] # "done" => err[r] = "none"
       /\ pc[r] = "done" /\ proc[r] # "none" => err[r] = Kind(r)
       /\ pc[r] = "done" /\ proc[r] = "none" => err[r] \in {"not_authenticated", "process"}

IInv == TypeOK /\ ChildFollowsCall /\ KillsHaveCause /\ ReturnsAreKinds

-----------------------------------------------------------------------------
\* Reading a line from the stream leaves a StreamResult (ParseStream).
LEMMA ScannedType ==
    ASSUME NEW o \in StreamResult, NEW line \in Line
    PROVE  Scanned(o, line) \in StreamResult
  BY DEF Scanned, StreamResult, Line, SessionOrNone

\* The classification always names an error of the client, or none.
LEMMA KindType == \A r \in Runs : Kind(r) \in Errors \cup {"nil"}
  BY DEF Kind, Verdict, Flaw, Errors

\* The variables have their types when no call was made yet.
LEMMA InitTyped == Init => IInv
<1> SUFFICES ASSUME Init PROVE IInv
    OBVIOUS
<1>1. <<>> \in Seq(Lines)
    BY EmptySeq
<1>2. EmptyResult \in StreamResult
    BY ClientAssumption DEF EmptyResult, StreamResult, SessionOrNone
<1>3. TypeOK
  <2>1. pipe \in [Runs -> Seq(Lines)]
      BY <1>1 DEF Init
  <2>2. read \in [Runs -> 0..MaxLines]
      BY ClientAssumption DEF Init
  <2> QED BY <1>2, <2>1, <2>2 DEF Init, TypeOK, SessionOrNone
<1>4. ChildFollowsCall /\ KillsHaveCause /\ ReturnsAreKinds
    BY DEF Init, ChildFollowsCall, KillsHaveCause, ReturnsAreKinds
<1> QED BY <1>3, <1>4 DEF IInv

\* Every step keeps the types.
LEMMA StepTyped ==
    ASSUME TypeOK, Next
    PROVE  TypeOK'
<1> USE DEF TypeOK
<1>1. PICK r \in Runs : Proceed(r) \/ Expire(r) \/ Environment(r)
    BY DEF Next
<1>2. ASSUME pipe[r] # <<>>
      PROVE  Head(pipe[r]) \in Line /\ Tail(pipe[r]) \in Seq(Lines)
    BY <1>2, HeadTailProperties, ClientAssumption
<1>3. CASE LockAuth(r) \/ AuthCached(r) \/ AuthInterrupted(r)
    BY <1>3 DEF LockAuth, AuthCached, AuthInterrupted, Step, Return, Errors
<1>4. CASE Start(r) \/ StartFails(r)
    BY <1>4 DEF Start, StartFails, Step, Return, Errors
<1>5. CASE ScanLine(r)
  <2>1. Scanned(out[r], Head(pipe[r])) \in StreamResult
      BY <1>2, <1>5, ScannedType DEF ScanLine
  <2>2. read[r] + 1 \in 0..MaxLines
      BY <1>5, ClientAssumption DEF ScanLine
  <2> QED BY <1>2, <1>5, <2>1, <2>2 DEF ScanLine
<1>6. CASE ScanFails(r)
    BY <1>6 DEF ScanFails, Overflow, Killed, Step
<1>7. CASE ScanEnds(r) \/ CancelKills(r)
    BY <1>7 DEF ScanEnds, CancelKills, Killed, Step
<1>8. CASE Classify(r)
    BY <1>8, KindType DEF Classify, Step, Return
<1>9. CASE Expire(r) \/ Begin(r) \/ Cancel(r)
    BY <1>9 DEF Expire, Begin, Cancel, Step
<1>10. CASE AuthSucceeds(r) \/ AuthFails(r)
    BY <1>10 DEF AuthSucceeds, AuthFails, Step, Return, Errors
<1>11. CASE ClosesOutput(r) \/ ProcessExits(r)
  <2>1. CASE ClosesOutput(r)
      BY <2>1 DEF ClosesOutput
  <2>2. CASE ProcessExits(r)
      BY <2>2 DEF ProcessExits
  <2> QED BY <1>11, <2>1, <2>2
<1>12. ASSUME NEW line \in Lines, Write(r, line) PROVE TypeOK'
  <2>1. Append(pipe[r], line) \in Seq(Lines)
      BY <1>12, AppendProperties
  <2> QED BY <1>12, <2>1 DEF Write
<1> QED
    BY <1>1, <1>3, <1>4, <1>5, <1>6, <1>7, <1>8, <1>9, <1>10, <1>11, <1>12
    DEF Proceed, Environment

\* Children, kills and returns: what each action does to the call it is about.
LEMMA StepAgrees ==
    ASSUME TypeOK, TypeOK', ChildFollowsCall, KillsHaveCause, ReturnsAreKinds, Next
    PROVE  ChildFollowsCall' /\ KillsHaveCause' /\ ReturnsAreKinds'
<1> USE DEF TypeOK, ChildFollowsCall, KillsHaveCause, ReturnsAreKinds, Step
<1>1. PICK r \in Runs : Proceed(r) \/ Expire(r) \/ Environment(r)
    BY DEF Next
<1>2. ASSUME NEW u \in Runs,
             ctx'[u] = ctx[u], proc'[u] = proc[u], out'[u] = out[u],
             parse'[u] = parse[u], resumed'[u] = resumed[u]
      PROVE  Kind(u)' = Kind(u)
    BY <1>2 DEF Kind, Verdict, Flaw, QuotaRejected, Usable
<1>3. CASE LockAuth(r) \/ AuthCached(r)
  <2>1. CASE LockAuth(r)
      BY <2>1, <1>2 DEF LockAuth
  <2>2. CASE AuthCached(r)
      BY <2>2, <1>2 DEF AuthCached
  <2> QED BY <1>3, <2>1, <2>2
<1>4. CASE AuthInterrupted(r)
    BY <1>4, <1>2 DEF AuthInterrupted, Return
<1>5. CASE Start(r)
    BY <1>5, <1>2 DEF Start
<1>6. CASE StartFails(r)
    BY <1>6, <1>2 DEF StartFails, Return
<1>7. CASE ScanLine(r)
    BY <1>7, <1>2 DEF ScanLine
<1>8. CASE ScanFails(r)
    BY <1>8, <1>2 DEF ScanFails, Overflow, Killed, Alive
<1>9. CASE ScanEnds(r)
  <2>1. ChildFollowsCall'
      BY <1>9 DEF ScanEnds
  <2>2. KillsHaveCause' /\ ReturnsAreKinds'
      BY <1>9, <1>2 DEF ScanEnds
  <2> QED BY <2>1, <2>2
<1>10. CASE CancelKills(r)
    BY <1>10, <1>2 DEF CancelKills, Killed, Alive
<1>11. CASE Classify(r)
    BY <1>11, <1>2 DEF Classify, Return, Alive
<1>12. CASE Expire(r) \/ Cancel(r)
    BY <1>12, <1>2 DEF Expire, Cancel, InProgress
<1>13. CASE Begin(r) \/ AuthSucceeds(r)
  <2>1. CASE Begin(r)
      BY <2>1, <1>2 DEF Begin
  <2>2. CASE AuthSucceeds(r)
      BY <2>2, <1>2 DEF AuthSucceeds
  <2> QED BY <1>13, <2>1, <2>2
<1>14. CASE AuthFails(r)
    BY <1>14, <1>2 DEF AuthFails, Return
<1>15. CASE ClosesOutput(r) \/ ProcessExits(r)
    BY <1>15, <1>2 DEF ClosesOutput, ProcessExits, Alive
<1>16. ASSUME NEW line \in Lines, Write(r, line)
       PROVE  ChildFollowsCall' /\ KillsHaveCause' /\ ReturnsAreKinds'
    BY <1>16, <1>2 DEF Write
<1> QED
    BY <1>1, <1>3, <1>4, <1>5, <1>6, <1>7, <1>8, <1>9, <1>10, <1>11, <1>12, <1>13,
       <1>14, <1>15, <1>16
    DEF Proceed, Environment

\* A step that changes nothing keeps the invariant.
LEMMA StutterKeeps == IInv /\ UNCHANGED vars => IInv'
  BY DEF IInv, vars, TypeOK, ChildFollowsCall, KillsHaveCause, ReturnsAreKinds,
         Kind, Verdict, Flaw, QuotaRejected, Usable

\* The inductive invariant holds in every reachable state.
THEOREM ClientInvariantHolds == Spec => []IInv
<1>1. Init => IInv
    BY InitTyped
<1>2. IInv /\ [Next]_vars => IInv'
    BY StepTyped, StepAgrees, StutterKeeps DEF IInv
<1> QED BY <1>1, <1>2, PTL DEF Spec

-----------------------------------------------------------------------------
\* The variables of the client keep their types.
THEOREM ClientTypesHold == Spec => []TypeOK
  BY ClientInvariantHolds, PTL DEF IInv

\* No call of Run returns while its child is still running.
THEOREM NoChildIsLeft == Spec => []NoChildLeft
<1>1. IInv => NoChildLeft
    BY DEF IInv, ChildFollowsCall, NoChildLeft, Done, Alive
<1> QED BY <1>1, ClientInvariantHolds, PTL

\* A deadline or a cancellation during the run is reported as such, and a
\* killed child never counts as an answer or as a failure of Claude.
THEOREM InterruptionsAreReported == Spec => []InterruptionsAreNamed
<1>1. IInv => InterruptionsAreNamed
    BY DEF IInv, TypeOK, ChildFollowsCall, KillsHaveCause, ReturnsAreKinds,
           InterruptionsAreNamed, Done, Alive, Kind, Verdict, Flaw
<1> QED BY <1>1, ClientInvariantHolds, PTL

\* A quota rejection without a usable answer is reported as one.
THEOREM RejectionsAreReported == Spec => []RejectionsAreRetryable
<1>1. IInv => RejectionsAreRetryable
    BY DEF IInv, TypeOK, ReturnsAreKinds, RejectionsAreRetryable, Done, Kind, Verdict
<1> QED BY <1>1, ClientInvariantHolds, PTL

\* An answer belongs to the conversation that was resumed, or names its own.
THEOREM ConversationsAreKept == Spec => []AnswersKeepTheirConversation
<1>1. IInv => AnswersKeepTheirConversation
  <2> SUFFICES ASSUME IInv, NEW r \in Runs, err[r] = "nil"
               PROVE  StoredSession(r) \in
                         (IF resumed[r] = NoSession THEN SessionIds ELSE {resumed[r]})
      BY DEF AnswersKeepTheirConversation
  <2>1. Kind(r) = "nil"
      BY DEF IInv, ReturnsAreKinds
  <2>2. Flaw(r) = "nil"
      BY <2>1 DEF Kind, Verdict
  <2>3. out[r].session \in SessionOrNone
      BY DEF IInv, TypeOK, StreamResult
  <2> QED BY <2>2, <2>3, ClientAssumption DEF Flaw, StoredSession, SessionOrNone
<1> QED BY <1>1, ClientInvariantHolds, PTL

-----------------------------------------------------------------------------
(* Every run comes to an end, short of fairness: each of its steps uses up  *)
(* some of what it has left, and one whose context is over is held up by    *)
(* nobody who is not himself on his way.                                    *)

\* checkAuth holds the mutex from its Lock to its deferred Unlock, so that one
\* call at a time asks for the login; and the pipe holds what it can hold.
MutexFollowsCall == \A r \in Runs : authMu = r <=> pc[r] = "auth"

PipeFits == \A r \in Runs : Len(pipe[r]) \in 0..MaxPipe

LEMMA MutexKept == IInv /\ MutexFollowsCall /\ [Next]_vars => MutexFollowsCall'
<1> SUFFICES ASSUME IInv, MutexFollowsCall, [Next]_vars PROVE MutexFollowsCall'
  OBVIOUS
<1>1. pc \in [Runs -> {"idle", "lock", "auth", "start", "stream", "wait", "done"}]
  BY DEF IInv, TypeOK
<1>2. CASE UNCHANGED vars
  BY <1>2 DEF MutexFollowsCall, vars
<1>3. ASSUME NEW r \in Runs,
             LockAuth(r) \/ AuthCached(r) \/ AuthInterrupted(r) \/ AuthSucceeds(r) \/ AuthFails(r)
      PROVE  MutexFollowsCall'
  BY <1>1, <1>3, ClientAssumption
     DEF LockAuth, AuthCached, AuthInterrupted, AuthSucceeds, AuthFails, Step, MutexFollowsCall
<1>4. ASSUME NEW r \in Runs,
             \/ Begin(r) \/ Start(r) \/ StartFails(r) \/ ScanFails(r) \/ ScanEnds(r)
             \/ Classify(r)
      PROVE  MutexFollowsCall'
  BY <1>1, <1>4 DEF Begin, Start, StartFails, ScanFails, ScanEnds, Classify, Step,
     MutexFollowsCall
<1>5. ASSUME NEW r \in Runs,
             \/ Expire(r) \/ Cancel(r) \/ ScanLine(r) \/ CancelKills(r) \/ ClosesOutput(r)
             \/ ProcessExits(r) \/ \E line \in Lines : Write(r, line)
      PROVE  MutexFollowsCall'
  BY <1>5 DEF Expire, Cancel, ScanLine, CancelKills, ClosesOutput, ProcessExits, Write,
     MutexFollowsCall
<1>6. QED
  BY <1>2, <1>3, <1>4, <1>5 DEF Next, Proceed, Environment

\* Reading and writing the pipe of a call.
LEMMA PipeSteps ==
    ASSUME IInv, NEW r \in Runs
    PROVE  /\ Len(pipe[r]) \in Nat
           /\ pipe[r] # <<>> => Len(Tail(pipe[r])) = Len(pipe[r]) - 1 /\ Len(pipe[r]) > 0
           /\ \A line \in Lines : Len(Append(pipe[r], line)) = Len(pipe[r]) + 1
<1>1. pipe[r] \in Seq(Lines)
  BY DEF IInv, TypeOK
<1>2. QED
  BY <1>1, LenProperties, HeadTailProperties, AppendProperties, EmptySeq

\* What a run has left: the points before it, a child that has yet to close its
\* output and to exit, a context to run out, lines to read and room in the pipe.
PointsAhead ==
    [idle |-> 6, lock |-> 5, auth |-> 4, start |-> 3, stream |-> 2, wait |-> 1, done |-> 0]

PointsLeft(r) == PointsAhead[pc[r]]
ChildLeft(r) == IF proc[r] = "running" THEN 2 ELSE IF proc[r] = "silent" THEN 1 ELSE 0
ClockLeft(r) == IF ctx[r] = "live" THEN 1 ELSE 0
LinesLeft(r) == MaxLines - read[r]
RoomLeft(r) == MaxPipe - Len(pipe[r])

StepsLeft(r) ==
    3 * PointsLeft(r) + ChildLeft(r) + ClockLeft(r) + 2 * LinesLeft(r) + RoomLeft(r)

LEMMA PartsCounted ==
    ASSUME IInv, PipeFits, NEW r \in Runs
    PROVE  /\ PointsLeft(r) \in Nat /\ ChildLeft(r) \in Nat /\ ClockLeft(r) \in Nat
           /\ LinesLeft(r) \in Nat /\ RoomLeft(r) \in Nat
           /\ StepsLeft(r) \in Nat
<1>1. PointsLeft(r) \in Nat
  BY DEF IInv, TypeOK, PointsAhead, PointsLeft
<1>2. ChildLeft(r) \in Nat /\ ClockLeft(r) \in Nat
  BY DEF ChildLeft, ClockLeft
<1>3. LinesLeft(r) \in Nat /\ RoomLeft(r) \in Nat
  BY ClientAssumption DEF IInv, TypeOK, PipeFits, LinesLeft, RoomLeft
<1>4. QED
  BY <1>1, <1>2, <1>3 DEF StepsLeft

\* A step of one run takes nothing from another.
OneRunAdvances ==
    \E r \in Runs : /\ StepsLeft(r)' < StepsLeft(r)
                    /\ \A u \in Runs \ {r} : StepsLeft(u)' = StepsLeft(u)

LEMMA StepAdvances ==
    IInv /\ PipeFits /\ Next => OneRunAdvances /\ PipeFits'
<1> SUFFICES ASSUME IInv, PipeFits, Next PROVE OneRunAdvances /\ PipeFits'
  OBVIOUS
<1>1. PICK r \in Runs : Proceed(r) \/ Expire(r) \/ Environment(r)
  BY DEF Next
<1>2. /\ pc \in [Runs -> {"idle", "lock", "auth", "start", "stream", "wait", "done"}]
      /\ ctx \in [Runs -> {"live", "deadline", "canceled"}]
      /\ proc \in [Runs -> {"none", "running", "silent", "success", "failure", "killed"}]
      /\ pipe \in [Runs -> Seq(Lines)]
      /\ read \in [Runs -> 0..MaxLines]
      /\ MaxLines \in Nat /\ MaxPipe \in Nat
  BY ClientAssumption DEF IInv, TypeOK
<1>3. /\ PointsLeft(r) \in Nat /\ ChildLeft(r) \in Nat /\ ClockLeft(r) \in Nat
      /\ LinesLeft(r) \in Nat /\ RoomLeft(r) \in Nat
  BY PartsCounted
<1>4. ASSUME \A u \in Runs \ {r} :
                /\ pc'[u] = pc[u] /\ proc'[u] = proc[u] /\ ctx'[u] = ctx[u]
                /\ read'[u] = read[u] /\ pipe'[u] = pipe[u],
             StepsLeft(r)' < StepsLeft(r),
             Len(pipe'[r]) \in 0..MaxPipe
      PROVE  OneRunAdvances /\ PipeFits'
  <2>1. \A u \in Runs \ {r} : StepsLeft(u)' = StepsLeft(u)
    BY <1>4 DEF StepsLeft, PointsLeft, ChildLeft, ClockLeft, LinesLeft, RoomLeft
  <2>2. OneRunAdvances
    BY <1>4, <2>1 DEF OneRunAdvances
  <2>3. PipeFits'
    BY <1>4 DEF PipeFits
  <2>4. QED
    BY <2>2, <2>3
<1>5. Len(pipe[r]) \in 0..MaxPipe
  BY DEF PipeFits
\* A step from point to point.
<1>6. ASSUME UNCHANGED <<ctx, read, pipe>>,
             \A u \in Runs \ {r} : pc'[u] = pc[u] /\ proc'[u] = proc[u],
             PointsLeft(r)' \in Nat, PointsLeft(r)' < PointsLeft(r),
             proc'[r] = proc[r] \/ proc'[r] = "killed" \/ pc[r] = "start"
      PROVE  OneRunAdvances /\ PipeFits'
  <2>1. /\ ClockLeft(r)' = ClockLeft(r) /\ LinesLeft(r)' = LinesLeft(r)
        /\ RoomLeft(r)' = RoomLeft(r)
    BY <1>6 DEF ClockLeft, LinesLeft, RoomLeft
  <2>2. ChildLeft(r)' \in {0, 1, 2} /\ ChildLeft(r) \in {0, 1, 2}
    BY DEF ChildLeft
  <2>3. StepsLeft(r)' < StepsLeft(r)
    BY <1>3, <1>6, <2>1, <2>2 DEF StepsLeft
  <2>4. QED
    BY <1>4, <1>5, <1>6, <2>3
<1>7. CASE LockAuth(r) \/ AuthCached(r) \/ AuthInterrupted(r) \/ AuthSucceeds(r) \/ AuthFails(r)
  BY <1>2, <1>6, <1>7 DEF LockAuth, AuthCached, AuthInterrupted, AuthSucceeds, AuthFails, Step,
     PointsAhead, PointsLeft
<1>8. CASE Begin(r) \/ StartFails(r) \/ ScanEnds(r) \/ Classify(r)
  BY <1>2, <1>6, <1>8 DEF Begin, StartFails, ScanEnds, Classify, Step, PointsAhead, PointsLeft
<1>9. CASE Start(r)
  BY <1>2, <1>6, <1>9 DEF Start, Step, PointsAhead, PointsLeft
<1>10. CASE ScanFails(r)
  BY <1>2, <1>6, <1>10 DEF ScanFails, Killed, Step, PointsAhead, PointsLeft
<1>11. CASE CancelKills(r) \/ ClosesOutput(r) \/ ProcessExits(r)
  <2>1. /\ UNCHANGED <<pc, ctx, read, pipe>>
        /\ \A u \in Runs \ {r} : proc'[u] = proc[u]
        /\ \/ proc[r] = "running" /\ proc'[r] # "running"
           \/ proc[r] = "silent" /\ proc'[r] \notin {"running", "silent"}
    BY <1>2, <1>11 DEF CancelKills, ClosesOutput, ProcessExits, Killed, Alive
  <2>2. /\ PointsLeft(r)' = PointsLeft(r) /\ ClockLeft(r)' = ClockLeft(r)
        /\ LinesLeft(r)' = LinesLeft(r) /\ RoomLeft(r)' = RoomLeft(r)
        /\ ChildLeft(r) \in Nat /\ ChildLeft(r)' \in Nat /\ ChildLeft(r)' < ChildLeft(r)
    BY <2>1 DEF PointsLeft, ClockLeft, LinesLeft, RoomLeft, ChildLeft
  <2>3. StepsLeft(r)' < StepsLeft(r)
    BY <1>3, <2>2 DEF StepsLeft
  <2>4. QED
    BY <1>4, <1>5, <2>1, <2>3
<1>12. CASE Expire(r) \/ Cancel(r)
  <2>1. /\ UNCHANGED <<pc, proc, read, pipe>>
        /\ \A u \in Runs \ {r} : ctx'[u] = ctx[u]
        /\ ctx[r] = "live" /\ ctx'[r] # "live"
    BY <1>2, <1>12 DEF Expire, Cancel
  <2>2. /\ PointsLeft(r)' = PointsLeft(r) /\ ChildLeft(r)' = ChildLeft(r)
        /\ LinesLeft(r)' = LinesLeft(r) /\ RoomLeft(r)' = RoomLeft(r)
        /\ ClockLeft(r) = 1 /\ ClockLeft(r)' = 0
    BY <2>1 DEF PointsLeft, ClockLeft, LinesLeft, RoomLeft, ChildLeft
  <2>3. StepsLeft(r)' < StepsLeft(r)
    BY <1>3, <2>2 DEF StepsLeft
  <2>4. QED
    BY <1>4, <1>5, <2>1, <2>3
<1>13. CASE ScanLine(r)
  <2>1. /\ UNCHANGED <<pc, proc, ctx>>
        /\ \A u \in Runs \ {r} : read'[u] = read[u] /\ pipe'[u] = pipe[u]
        /\ read'[r] = read[r] + 1 /\ pipe'[r] = Tail(pipe[r]) /\ pipe[r] # <<>>
    BY <1>2, <1>13 DEF ScanLine
  <2>2. Len(pipe'[r]) = Len(pipe[r]) - 1 /\ Len(pipe[r]) > 0
    BY <2>1, PipeSteps
  <2>3. /\ PointsLeft(r)' = PointsLeft(r) /\ ChildLeft(r)' = ChildLeft(r)
        /\ ClockLeft(r)' = ClockLeft(r)
    BY <2>1 DEF PointsLeft, ChildLeft, ClockLeft
  <2>4. read[r] \in Nat /\ Len(pipe[r]) \in Nat /\ Len(pipe'[r]) \in 0..MaxPipe
    BY <1>2, <1>5, <2>2
  <2>5. LinesLeft(r)' = LinesLeft(r) - 1 /\ RoomLeft(r)' = RoomLeft(r) + 1
    BY <1>2, <2>1, <2>2, <2>4 DEF LinesLeft, RoomLeft
  <2>6. StepsLeft(r)' < StepsLeft(r)
    BY <1>3, <2>3, <2>5 DEF StepsLeft
  <2>7. QED
    BY <1>4, <2>1, <2>4, <2>6
<1>14. ASSUME NEW line \in Lines, Write(r, line) PROVE OneRunAdvances /\ PipeFits'
  <2>1. /\ UNCHANGED <<pc, proc, ctx, read>>
        /\ \A u \in Runs \ {r} : pipe'[u] = pipe[u]
        /\ pipe'[r] = Append(pipe[r], line) /\ Len(pipe[r]) < MaxPipe
    BY <1>2, <1>14 DEF Write
  <2>2. Len(pipe'[r]) = Len(pipe[r]) + 1
    BY <2>1, PipeSteps
  <2>3. /\ PointsLeft(r)' = PointsLeft(r) /\ ChildLeft(r)' = ChildLeft(r)
        /\ ClockLeft(r)' = ClockLeft(r) /\ LinesLeft(r)' = LinesLeft(r)
    BY <2>1 DEF PointsLeft, ChildLeft, ClockLeft, LinesLeft
  <2>4. Len(pipe[r]) \in Nat /\ Len(pipe'[r]) \in 0..MaxPipe
    BY <1>2, <1>5, <2>1, <2>2
  <2>5. RoomLeft(r)' = RoomLeft(r) - 1
    BY <1>2, <2>2, <2>4 DEF RoomLeft
  <2>6. StepsLeft(r)' < StepsLeft(r)
    BY <1>3, <2>3, <2>5 DEF StepsLeft
  <2>7. QED
    BY <1>4, <2>1, <2>4, <2>6
<1>15. QED
  BY <1>1, <1>7, <1>8, <1>9, <1>10, <1>11, <1>12, <1>13, <1>14 DEF Proceed, Environment

\* Nothing a run or its child does can go on for ever: each step lowers what one
\* run has left, which is a natural number, and takes nothing from the others.
THEOREM RunsRunOut ==
    Spec => /\ [](\A r \in Runs : StepsLeft(r) \in Nat)
            /\ [][OneRunAdvances]_vars
<1>1. Init => PipeFits
  <2>1. Init => \A r \in Runs : pipe[r] = <<>>
    BY DEF Init
  <2>2. Len(<<>>) = 0 /\ 0 \in 0..MaxPipe
    BY ClientAssumption
  <2>3. QED
    BY <2>1, <2>2 DEF PipeFits
<1>2. IInv /\ PipeFits /\ [Next]_vars => PipeFits'
  BY StepAdvances DEF PipeFits, vars
<1>3. IInv /\ PipeFits /\ [Next]_vars => [OneRunAdvances]_vars
  BY StepAdvances
<1>4. IInv /\ PipeFits => \A r \in Runs : StepsLeft(r) \in Nat
  BY PartsCounted
<1>5. QED
  BY <1>1, <1>2, <1>3, <1>4, ClientInvariantHolds, PTL DEF Spec

\* The guard of a step that is the call's own, not its child's nor a deadline's.
CanProceed(r) ==
    \/ pc[r] = "lock" /\ authMu = NoRun
    \/ pc[r] = "auth" /\ (authOK \/ ctx[r] # "live")
    \/ pc[r] = "start"
    \/ /\ pc[r] = "stream" /\ pipe[r] # <<>>
       /\ \/ read[r] < MaxLines /\ Head(pipe[r]).type # "long"
          \/ read[r] = MaxLines \/ Head(pipe[r]).type = "long"
    \/ pc[r] = "stream" /\ pipe[r] = <<>> /\ proc[r] # "running"
    \/ ctx[r] # "live" /\ Alive(r)
    \/ pc[r] = "wait" /\ ~Alive(r)

\* A call whose context is over can go on by itself, whatever its child does;
\* only the mutex, which is not taken with the context, can hold it up, and then
\* the holder can go on or has its own deadline ahead.
OverdueRunsGoOn ==
    \A r \in Runs :
       InProgress(r) /\ ctx[r] # "live" =>
          \/ CanProceed(r)
          \/ /\ pc[r] = "lock" /\ authMu \in Runs
             /\ CanProceed(authMu) \/ ctx[authMu] = "live"

\* A call of Run has its end in its own hands once its deadline has passed.
THEOREM RunsNeverStuck == Spec => [](MutexFollowsCall /\ OverdueRunsGoOn)
<1>1. Init => MutexFollowsCall
  <2>1. Init => authMu = NoRun /\ \A r \in Runs : pc[r] = "idle"
    BY DEF Init
  <2>2. NoRun \notin Runs
    BY ClientAssumption
  <2>3. QED
    BY <2>1, <2>2 DEF MutexFollowsCall
<1>2. ASSUME IInv, MutexFollowsCall, NEW r \in Runs, InProgress(r), ctx[r] # "live"
      PROVE  \/ CanProceed(r)
             \/ /\ pc[r] = "lock" /\ authMu \in Runs
                /\ CanProceed(authMu) \/ ctx[authMu] = "live"
  <2>1. /\ pc[r] \in {"lock", "auth", "start", "stream", "wait"}
        /\ authMu \in Runs \cup {NoRun}
        /\ read[r] < MaxLines \/ read[r] = MaxLines
    BY <1>2, ClientAssumption DEF IInv, TypeOK, InProgress
  <2>2. CASE pc[r] = "lock" /\ authMu # NoRun
    BY <1>2, <2>1, <2>2 DEF MutexFollowsCall, CanProceed
  <2>3. CASE ~(pc[r] = "lock" /\ authMu # NoRun)
    BY <1>2, <2>1, <2>3 DEF CanProceed, Alive, IInv, ChildFollowsCall
  <2>4. QED
    BY <2>2, <2>3
<1>3. IInv /\ MutexFollowsCall => OverdueRunsGoOn
  BY <1>2 DEF OverdueRunsGoOn
<1>4. QED
  BY <1>1, <1>3, MutexKept, ClientInvariantHolds, PTL DEF Spec

-----------------------------------------------------------------------------
(* Turns.                                                                  *)

\* A run resumes the session of the record it was started for, and the record
\* is the pending one until the turn answers.
TurnFollowsRun ==
    \A r \in Runs :
       /\ pc[r] # "idle" /\ told[r] = NotTold => resumed[r] = record[r].session
       /\ told[r] = NotTold => record[r] \in PendingRecords
       /\ told[r] # NotTold => pc[r] = "done"

TurnInv ==
    /\ TurnTypeOK
    /\ TurnFollowsRun
    /\ AdviceIsAdmitted
    /\ RejectedTurnsWait

-----------------------------------------------------------------------------
LEMMA StepOfClient == [TurnNext]_<<vars, turnVars>> => [Next]_vars
<1>1. ASSUME NEW r \in Runs, TurnBegins(r) PROVE Next
  BY <1>1 DEF TurnBegins, Next, Environment
<1>2. ASSUME NEW r \in Runs, ClientSteps(r) PROVE Next
  BY <1>2 DEF ClientSteps, Next, Environment
<1>3. ASSUME NEW r \in Runs, Answers(r) \/ AnswersBadly(r) \/ Fails(r)
      PROVE  UNCHANGED vars
  BY <1>3 DEF Answers, AnswersBadly, Fails, PersistFailure
<1>4. QED
  BY <1>1, <1>2, <1>3 DEF TurnNext

\* A turn is a run of the client.
THEOREM TurnsRunClaude == TurnSpec => Spec
<1>1. TurnInit => Init
  BY DEF TurnInit
<1>2. QED
  BY <1>1, StepOfClient, PTL DEF TurnSpec, Spec

\* The client looks at the session to resume once, and what it has returned
\* stays.
LEMMA ClientKeeps ==
    ASSUME IInv, NEW t \in Runs, ClientSteps(t), NEW r \in Runs
    PROVE  /\ resumed'[r] = resumed[r]
           /\ pc[r] # "idle" => pc'[r] # "idle"
           /\ pc[r] = "idle" => pc'[r] = "idle"
           /\ pc[r] = "done" =>
                 /\ pc'[r] = "done" /\ out'[r] = out[r] /\ proc'[r] = proc[r]
                 /\ ctx'[r] = ctx[r] /\ parse'[r] = parse[r]
<1> USE DEF IInv, TypeOK, Step
<1>1. CASE LockAuth(t) \/ AuthCached(t) \/ AuthInterrupted(t)
  BY <1>1 DEF LockAuth, AuthCached, AuthInterrupted
<1>2. CASE Start(t) \/ StartFails(t)
  BY <1>2 DEF Start, StartFails
<1>3. CASE ScanLine(t) \/ ScanEnds(t)
  BY <1>3 DEF ScanLine, ScanEnds
<1>4. CASE ScanFails(t)
  BY <1>4 DEF ScanFails, Killed
<1>5. CASE CancelKills(t)
  BY <1>5 DEF CancelKills, Killed, Alive, ChildFollowsCall
<1>6. CASE Classify(t)
  BY <1>6 DEF Classify
<1>7. CASE Expire(t) \/ Cancel(t)
  BY <1>7 DEF Expire, Cancel, InProgress
<1>8. CASE AuthSucceeds(t) \/ AuthFails(t)
  BY <1>8 DEF AuthSucceeds, AuthFails
<1>9. CASE ClosesOutput(t) \/ ProcessExits(t)
  BY <1>9 DEF ClosesOutput, ProcessExits, ChildFollowsCall, Alive
<1>10. ASSUME NEW line \in Lines, Write(t, line)
       PROVE  /\ resumed' = resumed /\ pc' = pc /\ out' = out /\ proc' = proc
              /\ ctx' = ctx /\ parse' = parse
  BY <1>10 DEF Write
<1>11. QED
  BY <1>1, <1>2, <1>3, <1>4, <1>5, <1>6, <1>7, <1>8, <1>9, <1>10
     DEF ClientSteps, Proceed

-----------------------------------------------------------------------------
(* The end of a turn.                                                      *)

LEMMA PendingTyped ==
    ASSUME NEW rec \in PendingRecords
    PROVE  rec \in R!Record /\ R!WellFormed(rec) /\ rec.status = "pending"
<1>1. /\ rec \in [status : {"pending"}, active : R!Operations, session : SessionOrNone,
                  seq : 0..MaxSeq, retryOp : R!Operations \cup {""}, retryAt : BOOLEAN]
      /\ R!WellFormed(rec)
  BY DEF PendingRecords
<1>2. rec = [status |-> rec.status, active |-> rec.active, session |-> rec.session,
             seq |-> rec.seq, retryOp |-> rec.retryOp, retryAt |-> rec.retryAt]
  BY <1>1
<1>3. /\ rec.status = "pending" /\ rec.active \in R!Operations
      /\ rec.session \in SessionIds \cup {NoSession} /\ rec.seq \in 0..MaxSeq
      /\ rec.retryOp \in R!Operations \cup {""} /\ rec.retryAt \in BOOLEAN
  BY <1>1 DEF SessionOrNone
<1>4. rec.seq \in Nat
  <2>1. MaxSeq \in Nat
    BY TurnAssumption
  <2>2. \A n \in 0..MaxSeq : n \in Nat
    BY <2>1
  <2>3. QED
    BY <1>3, <2>2
<1>5. rec \in R!Record
  BY <1>2, <1>3, <1>4 DEF R!Record, R!Statuses
<1>6. QED
  BY <1>1, <1>3, <1>5

LEMMA AnswerGood ==
    ASSUME IInv, TurnInv, NEW r \in Runs, Open(r), err[r] = "nil"
    PROVE  LET new == R!Completed(record[r], StoredSession(r)) IN
           /\ new \in R!Record /\ new \in R!Outcomes(record[r])
           /\ R!CanContinue(new)
           /\ ~(QuotaRejected(out[r]) /\ ~Usable(out[r]))
<1>1. record[r] \in PendingRecords /\ resumed[r] = record[r].session
  BY DEF TurnInv, TurnFollowsRun, Open
<1>2. Kind(r) = "nil" /\ Flaw(r) = "nil"
  BY DEF IInv, ReturnsAreKinds, Open, Kind, Verdict
<1>3. out[r].session \in SessionOrNone
  BY DEF IInv, TypeOK, StreamResult
<1>4. StoredSession(r) \in R!AnsweredBy(record[r])
  BY <1>1, <1>2, <1>3 DEF Flaw, StoredSession, SessionOrNone, R!AnsweredBy
<1>5. StoredSession(r) \in SessionIds /\ StoredSession(r) # NoSession
  BY <1>1, <1>4, PendingTyped, ClientAssumption DEF R!AnsweredBy, R!Record
<1>6. record[r].seq + 1 \in Nat
  <2>1. record[r].seq \in Nat
    BY <1>1, PendingTyped DEF R!Record
  <2>2. QED
    BY <2>1
<1>7. R!Completed(record[r], StoredSession(r)) \in R!Record
  BY <1>5, <1>6 DEF R!Completed, R!Record, R!Statuses
<1>8. R!Completed(record[r], StoredSession(r)) \in R!Outcomes(record[r])
  BY <1>4 DEF R!Outcomes
<1>9. R!CanContinue(R!Completed(record[r], StoredSession(r)))
  BY <1>5 DEF R!CanContinue, R!Completed
<1>10. ~(QuotaRejected(out[r]) /\ ~Usable(out[r]))
  BY <1>2 DEF Kind, Verdict
<1>11. QED
  BY <1>7, <1>8, <1>9, <1>10

LEMMA FailureGood ==
    ASSUME IInv, TurnInv, NEW r \in Runs, Open(r), NEW code
    PROVE  LET new == FailedRecord(r, code) IN
           /\ new \in R!Record /\ new \in R!Outcomes(record[r])
           /\ Details(r, code).retryable => R!CanRetry(new)
           /\ Details(r, code).resumable /\ code # "claude_quota_exceeded" =>
                 R!CanContinue(new)
           /\ code = "claude_quota_exceeded" =>
                 new.status = "waiting_for_quota" /\ new.retryAt = out[r].reset
<1>1. /\ record[r] \in R!Record /\ R!WellFormed(record[r])
      /\ record[r].status = "pending"
  BY PendingTyped DEF TurnInv, TurnFollowsRun, Open
<1>2. out[r].session \in SessionIds \cup {NoSession} /\ out[r].reset \in BOOLEAN
  BY DEF IInv, TypeOK, StreamResult, SessionOrNone
<1>3. CASE code = "claude_quota_exceeded"
  <2>1. FailedRecord(r, code) = R!Blocked(record[r], out[r].session, out[r].reset)
    BY <1>3 DEF FailedRecord
  <2>2. FailedRecord(r, code) \in R!Outcomes(record[r])
    BY <1>2, <2>1 DEF R!Outcomes
  <2>3. /\ FailedRecord(r, code) \in R!Record
        /\ FailedRecord(r, code).status = "waiting_for_quota"
        /\ FailedRecord(r, code).retryAt = out[r].reset
    BY <1>1, <1>2, <2>1
       DEF R!Blocked, R!KeptSession, R!Record, R!Statuses, R!Operations, R!LaterOperations
  <2>4. QED
    BY <1>3, <2>2, <2>3 DEF R!CanRetry
<1>4. CASE code # "claude_quota_exceeded"
  <2>1. FailedRecord(r, code) = R!Stopped(record[r], out[r].session)
    BY <1>4 DEF FailedRecord
  <2>2. FailedRecord(r, code) \in R!Outcomes(record[r])
    BY <1>2, <2>1 DEF R!Outcomes
  <2>3. FailedRecord(r, code) \in R!Record
    BY <1>1, <1>2, <2>1
       DEF R!Stopped, R!StoppedStatus, R!KeptSession, R!Record, R!Statuses,
           R!Operations, R!LaterOperations
  <2>4. /\ FailedRecord(r, code).status = R!StoppedStatus(FailedRecord(r, code).session)
        /\ record[r].active = "quota_retry" =>
              FailedRecord(r, code).retryOp = record[r].retryOp
    BY <1>1, <2>1 DEF R!Stopped, R!Record
  <2>5. Details(r, code).retryable => R!CanRetry(FailedRecord(r, code))
    BY <1>1, <1>4, <2>4 DEF Details, R!CanRetry, R!StoppedStatus, R!WellFormed
  <2>6. Details(r, code).resumable => R!CanContinue(FailedRecord(r, code))
    BY <2>4 DEF Details, R!CanContinue, R!StoppedStatus
  <2>7. QED
    BY <1>4, <2>2, <2>3, <2>5, <2>6
<1>5. QED
  BY <1>3, <1>4

\* A rejected run that nothing else ended is reported as one.
LEMMA RejectionNamed ==
    ASSUME IInv, NEW r \in Runs, pc[r] = "done", proc[r] # "none",
           QuotaRejected(out[r]), ~Usable(out[r]), ctx[r] = "live", parse[r] = "ok"
    PROVE  err[r] = "quota_exceeded"
BY DEF IInv, ReturnsAreKinds, Kind, Verdict

LEMMA CodesTyped ==
    ASSUME NEW r \in Runs, NEW kind
    PROVE  mapError(kind) \in Codes /\ Details(r, mapError(kind)) \in Told
<1>1. mapError(kind) \in Codes
  BY DEF mapError, Codes
<1>2. QED
  BY <1>1 DEF Details, Told

-----------------------------------------------------------------------------
LEMMA ClientStepKept ==
    ASSUME IInv, TurnInv, NEW t \in Runs, ClientSteps(t)
    PROVE  TurnInv'
<1> USE DEF TurnInv, turnVars, ClientSteps
<1>1. record' = record /\ told' = told
  OBVIOUS
<1>2. TurnTypeOK' /\ AdviceIsAdmitted'
  BY <1>1 DEF TurnTypeOK, AdviceIsAdmitted, Ended
<1>3. TurnFollowsRun'
  <2>1. ASSUME NEW r \in Runs
        PROVE  /\ pc'[r] # "idle" /\ told[r] = NotTold => resumed'[r] = record[r].session
               /\ told[r] # NotTold => pc'[r] = "done"
    BY <2>1, ClientKeeps DEF TurnFollowsRun
  <2>2. QED
    BY <1>1, <2>1 DEF TurnFollowsRun
<1>4. RejectedTurnsWait'
  <2>1. ASSUME NEW r \in Runs, told[r] # NotTold
        PROVE  /\ out'[r] = out[r] /\ proc'[r] = proc[r]
               /\ ctx'[r] = ctx[r] /\ parse'[r] = parse[r]
    BY <2>1, ClientKeeps DEF TurnFollowsRun
  <2>2. QED
    BY <1>1, <2>1 DEF RejectedTurnsWait, Ended, QuotaRejected, Usable
<1>5. QED
  BY <1>2, <1>3, <1>4

LEMMA BeginKept ==
    ASSUME IInv, TurnInv, NEW t \in Runs, TurnBegins(t)
    PROVE  TurnInv'
<1> USE DEF TurnInv, turnVars, TurnBegins, Begin, Step
<1>1. /\ record' = record /\ told' = told /\ out' = out /\ proc' = proc
      /\ ctx' = ctx /\ parse' = parse
  OBVIOUS
<1>2. TurnTypeOK' /\ AdviceIsAdmitted'
  BY <1>1 DEF TurnTypeOK, AdviceIsAdmitted, Ended
<1>3. TurnFollowsRun'
  BY <1>1 DEF TurnFollowsRun, IInv, TypeOK
<1>4. RejectedTurnsWait'
  BY <1>1 DEF RejectedTurnsWait, Ended, QuotaRejected, Usable
<1>5. QED
  BY <1>2, <1>3, <1>4

\* A turn that ends with a record and an answer that fit each other.
LEMMA EndingKept ==
    ASSUME IInv, TurnInv, NEW t \in Runs, Open(t), UNCHANGED vars,
           NEW new \in R!Record, NEW details \in Told,
           record' = [record EXCEPT ![t] = new], told' = [told EXCEPT ![t] = details],
           details.retryable => R!CanRetry(new),
           details.resumable /\ details.code # "claude_quota_exceeded" =>
              R!CanContinue(new),
           /\ proc[t] # "none" /\ QuotaRejected(out[t]) /\ ~Usable(out[t])
           /\ ctx[t] = "live" /\ parse[t] = "ok"
           => new.status = "waiting_for_quota" /\ new.retryAt = out[t].reset
    PROVE  TurnInv'
<1> USE DEF TurnInv, TurnTypeOK
<1>1. /\ record'[t] = new /\ told'[t] = details /\ details # NotTold
      /\ \A r \in Runs : r # t => record'[r] = record[r] /\ told'[r] = told[r]
  BY TurnAssumption
<1>2. /\ pc' = pc /\ resumed' = resumed /\ out' = out /\ proc' = proc
      /\ ctx' = ctx /\ parse' = parse
  BY DEF vars
<1>3. TurnTypeOK'
  OBVIOUS
<1>4. TurnFollowsRun'
  BY <1>1, <1>2 DEF TurnFollowsRun, Open
<1>5. AdviceIsAdmitted'
  BY <1>1 DEF AdviceIsAdmitted, Ended
<1>6. RejectedTurnsWait'
  BY <1>1, <1>2 DEF RejectedTurnsWait, Ended, QuotaRejected, Usable
<1>7. QED
  BY <1>3, <1>4, <1>5, <1>6

LEMMA AnswersKept ==
    ASSUME IInv, TurnInv, NEW t \in Runs, Answers(t)
    PROVE  TurnInv'
<1> DEFINE details == [code |-> "", retryable |-> FALSE, resumable |-> TRUE]
<1>1. details \in Told
  BY DEF Told, Codes
<1>2. QED
  BY <1>1, AnswerGood, EndingKept DEF Answers

LEMMA FailureKept ==
    ASSUME IInv, TurnInv, NEW t \in Runs, Open(t), NEW code \in Codes,
           PersistFailure(t, code), Details(t, code) \in Told,
           /\ proc[t] # "none" /\ QuotaRejected(out[t]) /\ ~Usable(out[t])
           /\ ctx[t] = "live" /\ parse[t] = "ok"
           => code = "claude_quota_exceeded"
    PROVE  TurnInv'
<1>1. Details(t, code).code = code
  BY DEF Details
<1>2. QED
  BY <1>1, FailureGood, EndingKept DEF PersistFailure

LEMMA FailsKept ==
    ASSUME IInv, TurnInv, NEW t \in Runs, Fails(t) \/ AnswersBadly(t)
    PROVE  TurnInv'
<1>1. CASE Fails(t)
  <2>1. pc[t] = "done" /\ Open(t)
    BY <1>1 DEF Fails, Open
  <2>2. err[t] = "quota_exceeded" => mapError(err[t]) = "claude_quota_exceeded"
    BY DEF mapError
  <2>3. QED
    BY <1>1, <2>1, <2>2, RejectionNamed, CodesTyped, FailureKept DEF Fails
<1>2. CASE AnswersBadly(t)
  <2>1. Details(t, "invalid_claude_output") \in Told /\ "invalid_claude_output" \in Codes
    BY DEF Details, Told, Codes
  <2>2. QED
    BY <1>2, <2>1, AnswerGood, FailureKept DEF AnswersBadly
<1>3. QED
  BY <1>1, <1>2

-----------------------------------------------------------------------------
\* Runs, records and answers fit each other at every point of every turn.
THEOREM TurnInvariant == TurnSpec => [](IInv /\ TurnInv)
<1>1. TurnInit => TurnInv
  BY PendingTyped
     DEF TurnInit, Init, TurnInv, TurnTypeOK, TurnFollowsRun, AdviceIsAdmitted,
         RejectedTurnsWait, Ended
<1>2. ASSUME IInv, TurnInv, [TurnNext]_<<vars, turnVars>> PROVE TurnInv'
  <2>1. ASSUME NEW t \in Runs, TurnBegins(t) PROVE TurnInv'
    BY <1>2, <2>1, BeginKept
  <2>2. ASSUME NEW t \in Runs, ClientSteps(t) PROVE TurnInv'
    BY <1>2, <2>2, ClientStepKept
  <2>3. ASSUME NEW t \in Runs, Answers(t) PROVE TurnInv'
    BY <1>2, <2>3, AnswersKept
  <2>4. ASSUME NEW t \in Runs, Fails(t) \/ AnswersBadly(t) PROVE TurnInv'
    BY <1>2, <2>4, FailsKept
  <2>5. CASE UNCHANGED <<vars, turnVars>>
    BY <1>2, <2>5
       DEF vars, turnVars, TurnInv, TurnTypeOK, TurnFollowsRun, AdviceIsAdmitted,
           RejectedTurnsWait, Ended, QuotaRejected, Usable
  <2>6. QED
    BY <1>2, <2>1, <2>2, <2>3, <2>4, <2>5 DEF TurnNext
<1>3. QED
  BY <1>1, <1>2, TurnsRunClaude, ClientInvariantHolds, PTL DEF TurnSpec

\* Records and answers have their types.
THEOREM TurnsTyped == TurnSpec => []TurnTypeOK
<1>1. TurnInv => TurnTypeOK
  BY DEF TurnInv
<1>2. QED
  BY <1>1, TurnInvariant, PTL

\* A client is told to retry or to continue only where the service admits it.
THEOREM AdviceIsSound == TurnSpec => []AdviceIsAdmitted
<1>1. TurnInv => AdviceIsAdmitted
  BY DEF TurnInv
<1>2. QED
  BY <1>1, TurnInvariant, PTL

\* A rejected run leaves a review that waits for quota.
THEOREM RejectionsWait == TurnSpec => []RejectedTurnsWait
<1>1. TurnInv => RejectedTurnsWait
  BY DEF TurnInv
<1>2. QED
  BY <1>1, TurnInvariant, PTL

\* The end of a run is one ReviewService reckons with.
THEOREM TurnsAreOutcomes == TurnSpec => TurnEndsAsOutcome
<1> DEFINE Good == \A r \in Runs :
              record'[r] # record[r] => record'[r] \in R!Outcomes(record[r])
<1>1. ASSUME IInv, TurnInv, TurnNext PROVE Good
  <2> USE DEF TurnInv, TurnTypeOK
  <2>1. ASSUME NEW t \in Runs, TurnBegins(t) \/ ClientSteps(t) PROVE Good
    BY <2>1 DEF TurnBegins, ClientSteps, turnVars
  <2>2. ASSUME NEW t \in Runs, Answers(t) PROVE Good
    <3>1. /\ record' = [record EXCEPT ![t] = R!Completed(record[t], StoredSession(t))]
          /\ R!Completed(record[t], StoredSession(t)) \in R!Outcomes(record[t])
      BY <1>1, <2>2, AnswerGood DEF Answers
    <3>2. QED
      BY <1>1, <3>1
  <2>3. ASSUME NEW t \in Runs, NEW code, Open(t), PersistFailure(t, code) PROVE Good
    <3>1. /\ record' = [record EXCEPT ![t] = FailedRecord(t, code)]
          /\ FailedRecord(t, code) \in R!Outcomes(record[t])
      BY <1>1, <2>3, FailureGood DEF PersistFailure
    <3>2. QED
      BY <1>1, <3>1
  <2>4. QED
    BY <1>1, <2>1, <2>2, <2>3 DEF TurnNext, AnswersBadly, Fails
<1>2. QED
  BY <1>1, TurnInvariant, PTL DEF TurnSpec, TurnEndsAsOutcome

-----------------------------------------------------------------------------
\* What a client is told of a turn, and what the record says from then on to
\* everybody else, agree: an answer, a quota rejection, a session to resume.
ToldAsStored ==
    \A r \in Runs : Ended(r) =>
       /\ told[r].code = "" <=> record[r].status = "open"
       /\ told[r].code = "claude_quota_exceeded" <=> record[r].status = "waiting_for_quota"
       /\ told[r].resumable <=> record[r].session # NoSession
       /\ R!WellFormed(record[r])

\* The two ends of a turn, for the turn itself.
LEMMA CompletedOpen ==
    ASSUME NEW rec, rec.seq \in Nat, NEW session, session # NoSession
    PROVE  /\ R!Completed(rec, session).status = "open"
           /\ R!Completed(rec, session).session = session
           /\ R!WellFormed(R!Completed(rec, session))
<1> DEFINE new == [status |-> "open", active |-> "", session |-> session,
                   seq |-> rec.seq + 1, retryOp |-> "", retryAt |-> FALSE]
<1>1. R!Completed(rec, session) = new
  BY DEF R!Completed
<1>2. /\ new.status = "open" /\ new.active = "" /\ new.session = session
      /\ new.retryOp = "" /\ new.retryAt = FALSE /\ new.seq = rec.seq + 1
  OBVIOUS
<1>3. new.seq > 0
  BY <1>2
<1> HIDE DEF new
<1>4. R!WellFormed(new)
  BY <1>2, <1>3 DEF R!WellFormed
<1>5. QED
  BY <1>1, <1>2, <1>4

LEMMA AnswerTold ==
    ASSUME IInv, TurnInv, NEW r \in Runs, Answers(r)
    PROVE  /\ told'[r].code = "" /\ record'[r].status = "open"
           /\ told'[r].resumable = TRUE /\ record'[r].session # NoSession
           /\ R!WellFormed(record'[r])
<1>1. /\ record'[r] = R!Completed(record[r], StoredSession(r))
      /\ told'[r] = [code |-> "", retryable |-> FALSE, resumable |-> TRUE]
      /\ R!CanContinue(R!Completed(record[r], StoredSession(r)))
  BY AnswerGood DEF Answers, TurnInv, TurnTypeOK
<1>2. record[r].seq \in Nat
  BY PendingTyped DEF Answers, TurnInv, TurnFollowsRun, Open, R!Record
<1>3. StoredSession(r) # NoSession
  BY <1>1 DEF R!CanContinue, R!Completed
<1> DEFINE stored == R!Completed(record[r], StoredSession(r))
           answer == [code |-> "", retryable |-> FALSE, resumable |-> TRUE]
<1>4. stored.status = "open" /\ stored.session # NoSession /\ R!WellFormed(stored)
  BY <1>2, <1>3, CompletedOpen
<1>5. answer.code = "" /\ answer.resumable = TRUE
  OBVIOUS
<1>6. record'[r] = stored /\ told'[r] = answer
  BY <1>1
<1> HIDE DEF stored, answer
<1>7. /\ record'[r].status = "open" /\ record'[r].session # NoSession
      /\ R!WellFormed(record'[r])
  BY <1>4, <1>6
<1>8. told'[r].code = "" /\ told'[r].resumable = TRUE
  BY <1>5, <1>6
<1>9. QED
  BY <1>7, <1>8

LEMMA FailureTold ==
    ASSUME IInv, TurnInv, NEW r \in Runs, NEW code, code # "", Open(r), PersistFailure(r, code)
    PROVE  /\ told'[r].code # "" /\ record'[r].status # "open"
           /\ told'[r].code = "claude_quota_exceeded"
              <=> record'[r].status = "waiting_for_quota"
           /\ told'[r].resumable <=> record'[r].session # NoSession
           /\ R!WellFormed(record'[r])
<1>1. /\ record'[r] = FailedRecord(r, code) /\ told'[r] = Details(r, code)
      /\ record[r] \in R!Record /\ R!WellFormed(record[r]) /\ record[r].status = "pending"
  BY PendingTyped DEF PersistFailure, Open, TurnInv, TurnTypeOK, TurnFollowsRun
<1>2. Details(r, code).code = code
      /\ (Details(r, code).resumable <=> FailedRecord(r, code).session # NoSession)
  BY DEF Details
<1>3. out[r].reset \in BOOLEAN
  BY DEF IInv, TypeOK, StreamResult
<1>4. CASE code = "claude_quota_exceeded"
  <2>1. FailedRecord(r, code) = R!Blocked(record[r], out[r].session, out[r].reset)
    BY <1>4 DEF FailedRecord
  <2>2. /\ FailedRecord(r, code).status = "waiting_for_quota"
        /\ R!WellFormed(FailedRecord(r, code))
    BY <1>1, <1>3, <2>1
       DEF R!Blocked, R!KeptSession, R!Record, R!Operations, R!LaterOperations, R!WellFormed
  <2>3. QED
    BY <1>1, <1>2, <1>4, <2>2
<1>5. CASE code # "claude_quota_exceeded"
  <2>1. FailedRecord(r, code) = R!Stopped(record[r], out[r].session)
    BY <1>5 DEF FailedRecord
  <2>2. /\ FailedRecord(r, code).status \in {"failed", "interrupted"}
        /\ R!WellFormed(FailedRecord(r, code))
    BY <1>1, <2>1
       DEF R!Stopped, R!StoppedStatus, R!KeptSession, R!Record, R!Operations,
           R!LaterOperations, R!WellFormed
  <2>3. QED
    BY <1>1, <1>2, <1>5, <2>2
<1>6. QED
  BY <1>4, <1>5

\* A turn ends once, with a record and an answer that say the same.
TurnsEndOnce ==
    [][\A r \in Runs : Ended(r) =>
          told'[r] = told[r] /\ record'[r] = record[r] /\ err'[r] = err[r]]_<<vars, turnVars>>

LEMMA EndsStay ==
    ASSUME IInv, TurnInv, [TurnNext]_<<vars, turnVars>>, NEW r \in Runs, Ended(r)
    PROVE  told'[r] = told[r] /\ record'[r] = record[r] /\ err'[r] = err[r]
<1>1. pc[r] = "done" /\ ~Open(r)
  BY DEF TurnInv, TurnFollowsRun, Ended, Open, IInv, ChildFollowsCall
<1>2. ASSUME NEW t \in Runs, ClientSteps(t) \/ TurnBegins(t)
      PROVE  told'[r] = told[r] /\ record'[r] = record[r] /\ err'[r] = err[r]
  <2>1. told' = told /\ record' = record
    BY <1>2 DEF ClientSteps, TurnBegins, turnVars
  <2>2. err'[r] = err[r]
    BY <1>1, <1>2 DEF ClientSteps, TurnBegins, Begin, Proceed, LockAuth, AuthCached,
       AuthInterrupted, Start, StartFails, ScanLine, ScanFails, ScanEnds, CancelKills, Classify,
       Expire, Cancel, AuthSucceeds, AuthFails, ClosesOutput, ProcessExits, Write, Step, Return,
       IInv, TypeOK
  <2>3. QED
    BY <2>1, <2>2
<1>3. ASSUME NEW t \in Runs, Answers(t) \/ AnswersBadly(t) \/ Fails(t)
      PROVE  told'[r] = told[r] /\ record'[r] = record[r] /\ err'[r] = err[r]
  BY <1>1, <1>3 DEF Answers, AnswersBadly, Fails, PersistFailure, vars, TurnInv, TurnTypeOK
<1>4. QED
  BY <1>2, <1>3 DEF TurnNext, vars, turnVars

LEMMA ToldKept ==
    IInv /\ TurnInv /\ ToldAsStored /\ [TurnNext]_<<vars, turnVars>> => ToldAsStored'
<1> SUFFICES ASSUME IInv, TurnInv, ToldAsStored, [TurnNext]_<<vars, turnVars>>,
                    NEW r \in Runs, Ended(r)'
             PROVE  /\ told'[r].code = "" <=> record'[r].status = "open"
                    /\ told'[r].code = "claude_quota_exceeded"
                       <=> record'[r].status = "waiting_for_quota"
                    /\ told'[r].resumable <=> record'[r].session # NoSession
                    /\ R!WellFormed(record'[r])
  BY DEF ToldAsStored
<1>1. CASE Ended(r)
  BY <1>1, EndsStay DEF ToldAsStored
<1>2. CASE ~Ended(r)
  <2>1. told'[r] # told[r]
    BY <1>2 DEF Ended
  <2>2. Answers(r) \/ AnswersBadly(r) \/ Fails(r)
    BY <2>1 DEF TurnNext, TurnBegins, ClientSteps, Answers, AnswersBadly, Fails, PersistFailure,
       vars, turnVars, TurnInv, TurnTypeOK
  <2>3. CASE Answers(r)
    BY <2>3, AnswerTold
  <2>4. CASE AnswersBadly(r)
    BY <2>4, FailureTold DEF AnswersBadly
  <2>5. CASE Fails(r)
    <3>1. mapError(err[r]) # ""
      BY DEF mapError
    <3>2. QED
      BY <2>5, <3>1, FailureTold DEF Fails
  <2>6. QED
    BY <2>2, <2>3, <2>4, <2>5
<1>3. QED
  BY <1>1, <1>2

\* What the client of a turn was told stays true of the record it was told of,
\* until a later request changes that.
THEOREM ClientsAreToldTheTruth == TurnSpec => []ToldAsStored /\ TurnsEndOnce
<1>1. TurnInit => ToldAsStored
  BY DEF TurnInit, ToldAsStored, Ended
<1>2. IInv /\ TurnInv /\ [TurnNext]_<<vars, turnVars>> =>
         [\A r \in Runs : Ended(r) =>
            told'[r] = told[r] /\ record'[r] = record[r] /\ err'[r] = err[r]]_<<vars, turnVars>>
  BY EndsStay
<1>3. QED
  BY <1>1, <1>2, ToldKept, TurnInvariant, PTL DEF TurnSpec, TurnsEndOnce
=============================================================================
