------------------------ MODULE ReviewServiceProofs ------------------------
(***************************************************************************)
(* What holds of the service for any number of processes, threads, reviews *)
(* and faults.  The inductive invariant adds to the lease discipline what  *)
(* it is for: whoever works on a review holds a copy of its record that is *)
(* still the stored one, so each write changes the record it was computed  *)
(* from.                                                                   *)
(***************************************************************************)
EXTENDS ReviewService, ReviewRecordProofs

\* The points at which an agent works on a review.
Busy(a) == Holding(a) \/ pc[a] \in {"acquire", "poll", "unlock"}

BusyHaveReview == \A a \in Agents : Busy(a) => rid[a] \in Reviews

\* What the copy in the hand of a is, between its read and its last write;
\* the identifier of a review to be created is still unused.
CopyKept(a) ==
    /\ pc[a] = "create" => store[rid[a]] = Unused
    /\ pc[a] = "write" =>
          /\ Stored(rid[a]) /\ rec[a] = store[rid[a]]
          /\ Admits(tool[a], rec[a])
    /\ pc[a] \in {"launch", "run"} =>
          Pending(rid[a]) /\ rec[a] = store[rid[a]]
    /\ pc[a] = "persist" =>
          Pending(rid[a]) /\ rec[a] \in Outcomes(store[rid[a]])
    /\ pc[a] = "reconcile" =>
          Pending(rid[a]) /\ rec[a] = WorkerLost(store[rid[a]])
    /\ pc[a] = "unlink" => store[rid[a]] = Deleted

CopiesKept == \A a \in Agents : CopyKept(a)

\* Every stored record is well formed.
StoreKept == \A r \in Reviews : Stored(r) => WellFormed(store[r])

IInv == TypeOK /\ BusyHaveReview /\ OneOwner /\ CopiesKept /\ StoreKept

-----------------------------------------------------------------------------
\* Two agents between their lease and its release work on different reviews,
\* unless the review is deleted.
LEMMA HoldersApart ==
    ASSUME OneOwner, NEW a \in Agents, NEW b \in Agents, a # b,
           Holding(a), Holding(b), store[rid[a]] # Deleted
    PROVE  rid[a] # rid[b]
BY DEF OneOwner

\* The record at each point where one is at hand.
LEMMA CopiesTyped ==
    ASSUME IInv, NEW a \in Agents
    PROVE  /\ pc[a] \in {"write", "launch", "run"} =>
                 rec[a] \in Record /\ WellFormed(rec[a])
           /\ pc[a] \in {"launch", "run"} => rec[a].status = "pending"
           /\ pc[a] \in {"persist", "reconcile"} =>
                 rec[a] \in Record /\ WellFormed(rec[a])
<1> USE DEF IInv
<1>1. pc[a] \in {"write", "launch", "run", "persist", "reconcile"} =>
         /\ rid[a] \in Reviews
         /\ store[rid[a]] \in Record /\ WellFormed(store[rid[a]])
  BY DEF BusyHaveReview, Busy, Holding, CopiesKept, CopyKept, StoreKept, Pending, Stored
<1>2. pc[a] \in {"launch", "run", "persist", "reconcile"} => store[rid[a]].status = "pending"
  BY DEF CopiesKept, CopyKept, Pending
<1>3. pc[a] \in {"write", "launch", "run"} => rec[a] = store[rid[a]]
  BY DEF CopiesKept, CopyKept
<1>4. pc[a] = "persist" => rec[a] \in Outcomes(store[rid[a]])
  BY DEF CopiesKept, CopyKept
<1>5. pc[a] = "reconcile" => rec[a] = WorkerLost(store[rid[a]])
  BY DEF CopiesKept, CopyKept
<1>6. QED
  BY <1>1, <1>2, <1>3, <1>4, <1>5, OutcomesGood, WorkerLostGood

\* The record a resumed review is marked with.
LEMMA MarkedGood ==
    ASSUME NEW r \in Record, WellFormed(r), NEW k \in ResumeTools, Admits(k, r)
    PROVE  /\ Marked(k, r) \in Record
           /\ WellFormed(Marked(k, r))
           /\ Marked(k, r).status = "pending"
<1>1. CASE k \in ContinueTools
  BY <1>1, ContinuingGood DEF Admits, Marked, ContinueTools
<1>2. CASE k = "start_retry_review"
  BY <1>2, RetryingGood DEF Admits, Marked, ContinueTools
<1>3. QED BY <1>1, <1>2 DEF ResumeTools

\* The records an agent can make of the copy in its hand.
LEMMA RecordsMade ==
    ASSUME IInv, NEW a \in Agents
    PROVE  /\ pc[a] = "write" =>
                 /\ Closed(rec[a]) \in Record /\ WellFormed(Closed(rec[a]))
                 /\ tool[a] \in ResumeTools =>
                       /\ Marked(tool[a], rec[a]) \in Record
                       /\ WellFormed(Marked(tool[a], rec[a]))
                       /\ Marked(tool[a], rec[a]).status = "pending"
           /\ pc[a] \in {"launch", "run"} => Outcomes(rec[a]) \subseteq Record
           /\ pc[a] = "reread" /\ Pending(rid[a]) =>
                 WorkerLost(store[rid[a]]) \in Record
<1>1. pc[a] = "write" => Admits(tool[a], rec[a])
  BY DEF IInv, CopiesKept, CopyKept
<1>2. pc[a] = "reread" /\ Pending(rid[a]) =>
         /\ store[rid[a]] \in Record /\ WellFormed(store[rid[a]])
         /\ store[rid[a]].status = "pending"
  BY DEF IInv, BusyHaveReview, Busy, Holding, StoreKept, Pending, Stored
<1>3. QED
  BY <1>1, <1>2, CopiesTyped, ClosedGood, MarkedGood, OutcomesGood, WorkerLostGood

-----------------------------------------------------------------------------
\* Every variable keeps its type.
LEMMA TypeStep == IInv /\ [Next]_vars => TypeOK'
<1> SUFFICES ASSUME IInv, [Next]_vars
             PROVE  TypeOK'
  OBVIOUS
<1> USE ServiceAssumption, AbsentAssumption
    DEF IInv, TypeOK, Agents, ThreadPoints, ServerPoints, Tools, StartTools,
        ContinueTools, ResumeTools, CloseTools
<1>1. CASE UNCHANGED vars
  BY <1>1 DEF vars
<1>2. ASSUME NEW t \in Threads, Request(t)
      PROVE  TypeOK'
  <2>1. ASSUME NEW r \in Reviews, NEW k \in StartTools, StartReview(t, r, k)
        PROVE  TypeOK'
    BY <2>1 DEF StartReview, Step
  <2>2. ASSUME NEW r \in Reviews, NEW k \in ResumeTools \cup CloseTools, TryLock(t, r, k)
        PROVE  TypeOK'
    BY <2>2 DEF TryLock, Step
  <2>3. ASSUME NEW r \in Reviews, Poll(t, r)
        PROVE  TypeOK'
    BY <2>3 DEF Poll, Step
  <2>4. QED BY <1>2, <2>1, <2>2, <2>3 DEF Request
<1>3. ASSUME NEW t \in Threads, Work(t)
      PROVE  TypeOK'
  <2>1. CASE CreatePending(t)
    BY <2>1, NewRecordGood DEF CreatePending, Step, Prepared
  <2>2. CASE AcquireLease(t)
    BY <2>2 DEF AcquireLease, Step, TakeLease
  <2>3. CASE LeaseBusy(t)
    BY <2>3 DEF LeaseBusy, Step, Finish
  <2>4. CASE ReadRecord(t)
    BY <2>4 DEF ReadRecord, Step, Stored
  <2>5. CASE GiveUp(t)
    BY <2>5 DEF GiveUp, Step, Forget
  <2>6. CASE MarkPending(t)
    BY <2>6, RecordsMade DEF MarkPending, Step, Update, Marked, Prepared
  <2>7. CASE CloseReview(t)
    BY <2>7, RecordsMade DEF CloseReview, Step, Update, Forget
  <2>8. CASE DeleteReview(t)
    BY <2>8 DEF DeleteReview, Step, Update, Forget
  <2>22. CASE RemoveLeaseFile(t)
    BY <2>22 DEF RemoveLeaseFile, Step, FreeLease
  <2>9. CASE LaunchWorker(t)
    BY <2>9 DEF LaunchWorker, Step
  <2>10. CASE RefuseLaunch(t)
    <3>1. Stopped(rec[t], NoSession) \in Outcomes(rec[t])
      BY DEF Outcomes
    <3>2. Stopped(rec[t], NoSession) \in Record
      BY <2>10, <3>1, RecordsMade DEF RefuseLaunch, Step
    <3>3. QED BY <2>10, <3>2 DEF RefuseLaunch, Step
  <2>11. CASE ReviewCompletes(t)
    <3>1. PICK q \in AnsweredBy(rec[t]) : rec' = [rec EXCEPT ![t] = Completed(rec[t], q)]
      BY <2>11 DEF ReviewCompletes
    <3>2. Completed(rec[t], q) \in Outcomes(rec[t])
      BY DEF Outcomes
    <3>3. Completed(rec[t], q) \in Record
      BY <2>11, <3>2, RecordsMade DEF ReviewCompletes, Step
    <3>4. QED BY <2>11, <3>1, <3>3 DEF ReviewCompletes, Step
  <2>12. CASE QuotaExceeded(t)
    BY <2>12, RecordsMade DEF QuotaExceeded, Step, Outcomes
  <2>13. CASE ReviewFails(t)
    BY <2>13, RecordsMade DEF ReviewFails, Step, Outcomes
  <2>14. CASE PersistOutcome(t)
    BY <2>14 DEF PersistOutcome, Step, Update, Forget
  <2>15. CASE LoseOutcome(t)
    BY <2>15 DEF LoseOutcome, Step, Forget, Strike
  <2>16. CASE ReleaseLease(t)
    <3>1. lease' \in [Reviews -> Agents \cup {NoOwner}]
      BY <2>16 DEF ReleaseLease, FreeLease
    <3>2. pc' \in [Agents -> ThreadPoints \cup ServerPoints] /\ pc' = [pc EXCEPT ![t] = "unlock"]
      BY <2>16 DEF ReleaseLease, Step
    <3>3. UNCHANGED <<store, locked, tool, rid, rec, todo, workers, faults>>
      BY <2>16 DEF ReleaseLease
    <3>4. QED BY <3>1, <3>2, <3>3
  <2>17. CASE Unlock(t)
    BY <2>17 DEF Unlock, Step, Finish
  <2>18. CASE AnswerPending(t)
    BY <2>18 DEF AnswerPending, Step, Finish
  <2>19. CASE PollLease(t)
    BY <2>19 DEF PollLease, Step, TakeLease
  <2>20. CASE Reread(t)
    BY <2>20, RecordsMade DEF Reread, Step, Observed, Pending, Stored
  <2>21. CASE Answer(t)
    BY <2>21 DEF Answer, Step, Finish, FreeLease
  <2>23. QED
    BY <1>3, <2>1, <2>2, <2>3, <2>4, <2>5, <2>6, <2>7, <2>8, <2>9, <2>10, <2>11,
       <2>12, <2>13, <2>14, <2>15, <2>16, <2>17, <2>18, <2>19, <2>20, <2>21, <2>22 DEF Work
<1>4. ASSUME NEW s \in Servers, Boot(s) \/ Main(s) \/ BeginShutdown(s) \/ Crash(s)
      PROVE  TypeOK'
  <2>1. CASE Boot(s)
    BY <2>1 DEF Boot, Step
  <2>2. ASSUME NEW r \in Reviews, ScanSkip(s, r)
       PROVE  TypeOK'
    BY <2>2 DEF ScanSkip, Step
  <2>3. ASSUME NEW r \in Reviews, ScanLease(s, r)
       PROVE  TypeOK'
    BY <2>3 DEF ScanLease, Step, TakeLease
  <2>4. CASE ScanReread(s)
    BY <2>4, RecordsMade DEF ScanReread, Step, Pending, Stored
  <2>5. CASE Reconcile(s)
    BY <2>5 DEF Reconcile, Step, Update, Forget
  <2>6. CASE LoseReconcile(s)
    BY <2>6 DEF LoseReconcile, Step, Forget, Strike
  <2>7. CASE ScanRelease(s)
    <3>1. lease' \in [Reviews -> Agents \cup {NoOwner}]
      BY <2>7 DEF ScanRelease, FreeLease
    <3>2. rid' \in [Agents -> Reviews \cup {NoReview}]
      BY <2>7 DEF ScanRelease, FreeLease
    <3>3. QED BY <2>7, <3>1, <3>2 DEF ScanRelease, Step
  <2>8. CASE Serve(s)
    BY <2>8 DEF Serve, Step
  <2>9. CASE BeginShutdown(s)
    BY <2>9 DEF BeginShutdown, Step
  <2>10. CASE WaitForWorkers(s)
    BY <2>10 DEF WaitForWorkers, Step
  <2>11. CASE Exit(s)
    BY <2>11 DEF Exit, Step, Die, Of, Strike
  <2>12. CASE Crash(s)
    BY <2>12 DEF Crash, Step, Die, Of, Strike
  <2>13. QED
    BY <1>4, <2>1, <2>2, <2>3, <2>4, <2>5, <2>6, <2>7, <2>8, <2>9, <2>10, <2>11,
       <2>12 DEF Main
<1>5. QED
  BY <1>1, <1>2, <1>3, <1>4 DEF Next

-----------------------------------------------------------------------------
\* Leases keep their holder, and only free leases are taken.
LEMMA OwnerStep == IInv /\ [Next]_vars => (BusyHaveReview /\ OneOwner)'
<1> SUFFICES ASSUME IInv, [Next]_vars
             PROVE  (BusyHaveReview /\ OneOwner)'
  OBVIOUS
<1> USE ServiceAssumption
    DEF IInv, TypeOK, Agents, BusyHaveReview, OneOwner, Busy, Holding
<1>a. Deleted \notin Record /\ Unused # Deleted
  BY AbsentAssumption
<1>1. CASE UNCHANGED vars
  BY <1>1 DEF vars
<1>2. ASSUME NEW t \in Threads, Request(t)
      PROVE  (BusyHaveReview /\ OneOwner)'
  <2>1. ASSUME NEW r \in Reviews, NEW k \in StartTools, StartReview(t, r, k)
        PROVE  (BusyHaveReview /\ OneOwner)'
    BY <2>1 DEF StartReview, Step, Accepting
  <2>2. ASSUME NEW r \in Reviews, NEW k \in ResumeTools \cup CloseTools, TryLock(t, r, k)
        PROVE  (BusyHaveReview /\ OneOwner)'
    BY <2>2 DEF TryLock, Step, Accepting
  <2>3. ASSUME NEW r \in Reviews, Poll(t, r)
        PROVE  (BusyHaveReview /\ OneOwner)'
    BY <2>3 DEF Poll, Step, Accepting
  <2>4. QED BY <1>2, <2>1, <2>2, <2>3 DEF Request
<1>3. ASSUME NEW t \in Threads, Work(t)
      PROVE  (BusyHaveReview /\ OneOwner)'
  <2>1. CASE CreatePending(t)
    BY <2>1, <1>a DEF CreatePending, Step, Prepared, CopiesKept, CopyKept
  <2>2. CASE AcquireLease(t)
    BY <2>2 DEF AcquireLease, Step, TakeLease
  <2>3. CASE LeaseBusy(t)
    BY <2>3 DEF LeaseBusy, Step, Finish
  <2>4. CASE ReadRecord(t)
    BY <2>4 DEF ReadRecord, Step
  <2>5. CASE GiveUp(t)
    BY <2>5 DEF GiveUp, Step
  <2>6. CASE MarkPending(t)
    BY <2>6, <1>a DEF MarkPending, Step, Prepared, Update, Stored
  <2>7. CASE CloseReview(t)
    BY <2>7, <1>a DEF CloseReview, Step, Update, Stored
  <2>8. CASE DeleteReview(t)
    BY <2>8 DEF DeleteReview, Step, Update
  <2>22. CASE RemoveLeaseFile(t)
    BY <2>22 DEF RemoveLeaseFile, Step, FreeLease, CopiesKept, CopyKept
  <2>9. CASE LaunchWorker(t)
    BY <2>9 DEF LaunchWorker, Step
  <2>10. CASE RefuseLaunch(t)
    BY <2>10 DEF RefuseLaunch, Step
  <2>11. CASE ReviewCompletes(t)
    BY <2>11 DEF ReviewCompletes, Step
  <2>12. CASE QuotaExceeded(t)
    BY <2>12 DEF QuotaExceeded, Step
  <2>13. CASE ReviewFails(t)
    BY <2>13 DEF ReviewFails, Step
  <2>14. CASE PersistOutcome(t)
    BY <2>14, <1>a DEF PersistOutcome, Step, Update, Stored
  <2>15. CASE LoseOutcome(t)
    BY <2>15 DEF LoseOutcome, Step
  <2>16. CASE ReleaseLease(t)
    BY <2>16 DEF ReleaseLease, Step, FreeLease
  <2>17. CASE Unlock(t)
    BY <2>17 DEF Unlock, Step, Finish
  <2>18. CASE AnswerPending(t)
    BY <2>18 DEF AnswerPending, Step, Finish
  <2>19. CASE PollLease(t)
    BY <2>19 DEF PollLease, Step, TakeLease
  <2>20. CASE Reread(t)
    BY <2>20 DEF Reread, Step
  <2>21. CASE Answer(t)
    BY <2>21 DEF Answer, Step, Finish, FreeLease
  <2>23. QED
    BY <1>3, <2>1, <2>2, <2>3, <2>4, <2>5, <2>6, <2>7, <2>8, <2>9, <2>10, <2>11,
       <2>12, <2>13, <2>14, <2>15, <2>16, <2>17, <2>18, <2>19, <2>20, <2>21, <2>22 DEF Work
<1>4. ASSUME NEW s \in Servers, Boot(s) \/ Main(s) \/ BeginShutdown(s) \/ Crash(s)
      PROVE  (BusyHaveReview /\ OneOwner)'
  <2>1. CASE Boot(s)
    BY <2>1 DEF Boot, Step
  <2>2. ASSUME NEW r \in Reviews, ScanSkip(s, r)
       PROVE  (BusyHaveReview /\ OneOwner)'
    BY <2>2 DEF ScanSkip, Step
  <2>3. ASSUME NEW r \in Reviews, ScanLease(s, r)
       PROVE  (BusyHaveReview /\ OneOwner)'
    BY <2>3 DEF ScanLease, Step, TakeLease
  <2>4. CASE ScanReread(s)
    BY <2>4 DEF ScanReread, Step
  <2>5. CASE Reconcile(s)
    BY <2>5, <1>a DEF Reconcile, Step, Update, Stored
  <2>6. CASE LoseReconcile(s)
    BY <2>6 DEF LoseReconcile, Step
  <2>7. CASE ScanRelease(s)
    BY <2>7 DEF ScanRelease, Step, FreeLease
  <2>8. CASE Serve(s)
    BY <2>8 DEF Serve, Step
  <2>9. CASE BeginShutdown(s)
    BY <2>9 DEF BeginShutdown, Step
  <2>10. CASE WaitForWorkers(s)
    BY <2>10 DEF WaitForWorkers, Step
  <2>11. CASE Exit(s)
    BY <2>11 DEF Exit, Step, Die, Of
  <2>12. CASE Crash(s)
    BY <2>12 DEF Crash, Step, Die, Of
  <2>13. QED
    BY <1>4, <2>1, <2>2, <2>3, <2>4, <2>5, <2>6, <2>7, <2>8, <2>9, <2>10, <2>11,
       <2>12 DEF Main
<1>5. QED
  BY <1>1, <1>2, <1>3, <1>4 DEF Next

-----------------------------------------------------------------------------
\* A step of a leaves the other agents alone ...
OthersRest(a) ==
    \A b \in Agents \ {a} :
       /\ pc'[b] = pc[b] /\ rid'[b] = rid[b] /\ rec'[b] = rec[b]
       /\ b \in Threads => tool'[b] = tool[b]

\* ... and writes no record but the one whose lease a holds.
WritesOwn(a) ==
    \/ store' = store
    \/ /\ Holding(a) /\ store[rid[a]] # Deleted
       /\ \A r \in Reviews : r # rid[a] => store'[r] = store[r]

\* Such a step keeps the copies of the other agents.
LEMMA OthersKept ==
    ASSUME IInv, NEW a \in Agents, OthersRest(a), WritesOwn(a),
           NEW b \in Agents, b # a
    PROVE  CopyKept(b)'
<1>1. CopyKept(b)
  BY DEF IInv, CopiesKept
<1>2. pc'[b] = pc[b] /\ rid'[b] = rid[b] /\ rec'[b] = rec[b]
  BY DEF OthersRest
<1>3. pc[b] = "write" => tool'[b] = tool[b]
  BY DEF OthersRest, IInv, TypeOK, Agents, ServerPoints
<1>4. CASE Holding(b)
  <2>1. rid[b] \in Reviews /\ store'[rid[b]] = store[rid[b]]
    BY <1>4, HoldersApart DEF WritesOwn, IInv, BusyHaveReview, Busy
  <2>2. QED
    BY <1>1, <1>2, <1>3, <2>1 DEF CopyKept, Stored, Pending
<1>5. CASE ~Holding(b)
  BY <1>2, <1>5 DEF CopyKept, Holding
<1>6. QED BY <1>4, <1>5

\* Threads work on their own review and leave the other agents alone.
LEMMA ThreadsLocal ==
    ASSUME IInv, NEW t \in Threads, Request(t) \/ Work(t)
    PROVE  OthersRest(t) /\ WritesOwn(t)
<1> USE ServiceAssumption
    DEF IInv, TypeOK, Agents, OthersRest, WritesOwn, Holding, Step
<1>a. Deleted \notin Record /\ Unused # Deleted
  BY AbsentAssumption
<1>1. CASE Request(t)
  BY <1>1 DEF Request, StartReview, TryLock, Poll
<1>2. CASE CreatePending(t) \/ AcquireLease(t) \/ LeaseBusy(t) \/ ReadRecord(t) \/ GiveUp(t)
  BY <1>2, <1>a DEF CreatePending, AcquireLease, LeaseBusy, ReadRecord, GiveUp, Forget,
     Finish, CopiesKept, CopyKept
<1>3. CASE MarkPending(t) \/ CloseReview(t) \/ DeleteReview(t) \/ PersistOutcome(t)
  BY <1>3, <1>a DEF MarkPending, CloseReview, DeleteReview, PersistOutcome, Update, Forget,
     Stored
<1>4. CASE LaunchWorker(t) \/ RefuseLaunch(t) \/ ReviewCompletes(t) \/ QuotaExceeded(t)
             \/ ReviewFails(t)
  BY <1>4 DEF LaunchWorker, RefuseLaunch, ReviewCompletes, QuotaExceeded, ReviewFails
<1>5. CASE LoseOutcome(t) \/ RemoveLeaseFile(t) \/ ReleaseLease(t) \/ Unlock(t)
  BY <1>5 DEF LoseOutcome, RemoveLeaseFile, ReleaseLease, Unlock, Forget, Finish
<1>6. CASE AnswerPending(t) \/ PollLease(t) \/ Reread(t) \/ Answer(t)
  BY <1>6 DEF AnswerPending, PollLease, Reread, Answer, Finish
<1>7. QED BY <1>1, <1>2, <1>3, <1>4, <1>5, <1>6 DEF Work

\* So do the processes, as long as they live.
LEMMA ServersLocal ==
    ASSUME IInv, NEW s \in Servers, Boot(s) \/ Main(s) \/ BeginShutdown(s) \/ Crash(s),
           ~Exit(s), ~Crash(s)
    PROVE  OthersRest(s) /\ WritesOwn(s)
<1> USE ServiceAssumption
    DEF IInv, TypeOK, Agents, OthersRest, WritesOwn, Holding, Step
<1>1. CASE Boot(s) \/ BeginShutdown(s) \/ Serve(s) \/ WaitForWorkers(s)
  BY <1>1 DEF Boot, BeginShutdown, Serve, WaitForWorkers
<1>2. CASE \E r \in Reviews : ScanSkip(s, r) \/ ScanLease(s, r)
  BY <1>2 DEF ScanSkip, ScanLease
<1>3. CASE ScanReread(s) \/ Reconcile(s) \/ LoseReconcile(s) \/ ScanRelease(s)
  BY <1>3, AbsentAssumption
  DEF ScanReread, Reconcile, LoseReconcile, ScanRelease, Update, Forget, Stored
<1>4. QED BY <1>1, <1>2, <1>3 DEF Main

\* The copies an agent takes are the stored records, and what it makes of them
\* is an outcome of the stored record.
LEMMA ThreadCopies ==
    ASSUME IInv, NEW t \in Threads, Request(t) \/ Work(t)
    PROVE  CopyKept(t)'
<1> USE DEF CopyKept, IInv, TypeOK, Agents, Step
<1>1. CASE Request(t)
  BY <1>1 DEF Request, StartReview, TryLock, Poll
<1>2. CASE CreatePending(t)
  BY <1>2, NewRecordGood DEF CreatePending, Prepared, Pending, Stored, BusyHaveReview, Busy, Holding
<1>3. CASE ReadRecord(t)
  BY <1>3 DEF ReadRecord, Stored
<1>4. CASE MarkPending(t)
  BY <1>4, RecordsMade DEF MarkPending, Prepared, Update, Pending, Stored, BusyHaveReview, Busy, Holding
<1>5. CASE LaunchWorker(t)
  BY <1>5 DEF LaunchWorker, CopiesKept, Pending, Stored
<1>6. CASE RefuseLaunch(t)
  BY <1>6 DEF RefuseLaunch, CopiesKept, Pending, Stored, Outcomes
<1>7. CASE ReviewCompletes(t)
  BY <1>7 DEF ReviewCompletes, CopiesKept, Pending, Stored, Outcomes
<1>8. CASE QuotaExceeded(t)
  <2>1. PICK q \in SessionIds \cup {NoSession}, at \in BOOLEAN :
           rec' = [rec EXCEPT ![t] = Blocked(rec[t], q, at)]
    BY <1>8 DEF QuotaExceeded
  <2>2. Blocked(rec[t], q, at) \in Outcomes(rec[t])
    BY DEF Outcomes
  <2>3. Pending(rid[t]) /\ rec[t] = store[rid[t]] /\ pc'[t] = "persist"
    BY <1>8 DEF QuotaExceeded, CopiesKept
  <2>4. rec'[t] \in Outcomes(store[rid[t]]) /\ rid' = rid /\ store' = store
    BY <1>8, <2>1, <2>2, <2>3 DEF QuotaExceeded
  <2>5. QED BY <2>3, <2>4 DEF Pending, Stored
<1>9. CASE ReviewFails(t)
  BY <1>9 DEF ReviewFails, CopiesKept, Pending, Stored, Outcomes
<1>10. CASE AcquireLease(t) \/ LeaseBusy(t) \/ GiveUp(t) \/ CloseReview(t)
  BY <1>10 DEF AcquireLease, LeaseBusy, GiveUp, CloseReview, Finish
<1>11. CASE PersistOutcome(t) \/ LoseOutcome(t) \/ RemoveLeaseFile(t) \/ ReleaseLease(t) \/ Unlock(t)
  BY <1>11 DEF PersistOutcome, LoseOutcome, RemoveLeaseFile, ReleaseLease, Unlock, Finish
<1>12. CASE AnswerPending(t) \/ PollLease(t) \/ Reread(t) \/ Answer(t)
  BY <1>12 DEF AnswerPending, PollLease, Reread, Answer, Finish
<1>13. CASE DeleteReview(t)
  BY <1>13 DEF DeleteReview, Update, BusyHaveReview, Busy, Holding
<1>14. QED
  BY <1>1, <1>2, <1>3, <1>4, <1>5, <1>6, <1>7, <1>8, <1>9, <1>10, <1>11, <1>12,
     <1>13 DEF Work

\* So it is for the record a process reconciles.
LEMMA ServerCopies ==
    ASSUME IInv, NEW s \in Servers, Boot(s) \/ Main(s) \/ BeginShutdown(s),
           ~Exit(s)
    PROVE  CopyKept(s)'
<1> USE DEF CopyKept, IInv, TypeOK, Agents, Step
<1>1. CASE Boot(s) \/ BeginShutdown(s) \/ Serve(s) \/ WaitForWorkers(s)
  BY <1>1 DEF Boot, BeginShutdown, Serve, WaitForWorkers
<1>2. CASE \E r \in Reviews : ScanSkip(s, r) \/ ScanLease(s, r)
  BY <1>2 DEF ScanSkip, ScanLease
<1>3. CASE ScanReread(s)
  BY <1>3 DEF ScanReread, Pending, Stored
<1>4. CASE Reconcile(s) \/ LoseReconcile(s) \/ ScanRelease(s)
  BY <1>4 DEF Reconcile, LoseReconcile, ScanRelease
<1>5. QED BY <1>1, <1>2, <1>3, <1>4 DEF Main

\* Every copy stays what it was taken for.
LEMMA CopiesStep == IInv /\ [Next]_vars => CopiesKept'
<1> SUFFICES ASSUME IInv, [Next]_vars, NEW b \in Agents
             PROVE  CopyKept(b)'
  BY DEF CopiesKept
<1>1. CASE UNCHANGED vars
  BY <1>1 DEF vars, IInv, CopiesKept, CopyKept, Stored, Pending
<1>2. ASSUME NEW t \in Threads, Request(t) \/ Work(t)
      PROVE  CopyKept(b)'
  BY <1>2, ThreadsLocal, ThreadCopies, OthersKept DEF Agents
<1>3. ASSUME NEW s \in Servers, Exit(s) \/ Crash(s)
      PROVE  CopyKept(b)'
  <2>1. CopyKept(b)
    BY DEF IInv, CopiesKept
  <2>2. b \in Of(s) => pc'[b] \in {"down", "idle"}
    BY <1>3 DEF Exit, Crash, Die, Of, Agents
  <2>3. b \notin Of(s) =>
           /\ pc'[b] = pc[b] /\ rid'[b] = rid[b] /\ rec'[b] = rec[b]
           /\ b \in Threads => tool'[b] = tool[b]
    BY <1>3 DEF Exit, Crash, Die, Of, Agents
  <2>4. store' = store
    BY <1>3 DEF Exit, Crash, Die
  <2>5. pc[b] = "write" => b \in Threads
    BY DEF IInv, TypeOK, Agents, ServerPoints
  <2>6. QED
    BY <2>1, <2>2, <2>3, <2>4, <2>5 DEF CopyKept, Stored, Pending
<1>4. ASSUME NEW s \in Servers, Boot(s) \/ Main(s) \/ BeginShutdown(s), ~Exit(s), ~Crash(s)
      PROVE  CopyKept(b)'
  BY <1>4, ServersLocal, ServerCopies, OthersKept DEF Agents
<1>5. QED
  BY <1>1, <1>2, <1>3, <1>4 DEF Next

-----------------------------------------------------------------------------
\* The lifecycle speaks of the same records and the same changes of them.
LEMMA SameRecords ==
    /\ L!Record = Record /\ L!NewRecord = NewRecord
    /\ \A r : L!WellFormed(r) <=> WellFormed(r)
    /\ \A r : L!CanContinue(r) <=> CanContinue(r)
    /\ \A r : L!CanRetry(r) <=> CanRetry(r)
    /\ \A r : L!Continuing(r) = Continuing(r) /\ L!Retrying(r) = Retrying(r)
    /\ \A r : L!WorkerLost(r) = WorkerLost(r) /\ L!Closed(r) = Closed(r)
    /\ \A r : L!Outcomes(r) = Outcomes(r)
<1>1. L!Record = Record
  BY DEF L!Record, L!Statuses, L!Operations, L!LaterOperations, Record, Statuses,
         Operations, LaterOperations
<1>2. L!NewRecord = NewRecord
  BY DEF L!NewRecord, NewRecord
<1>3. \A r : L!WellFormed(r) <=> WellFormed(r)
  BY DEF L!WellFormed, WellFormed
<1>4. \A r : (L!CanContinue(r) <=> CanContinue(r)) /\ (L!CanRetry(r) <=> CanRetry(r))
  BY DEF L!CanContinue, CanContinue, L!CanRetry, CanRetry
<1>5. \A r : L!Continuing(r) = Continuing(r) /\ L!Retrying(r) = Retrying(r)
  BY DEF L!Continuing, Continuing, L!Retrying, Retrying
<1>6. \A r : L!WorkerLost(r) = WorkerLost(r) /\ L!Closed(r) = Closed(r)
  BY DEF L!WorkerLost, WorkerLost, L!StoppedStatus, StoppedStatus, L!Closed, Closed
<1>7. \A r : L!Outcomes(r) = Outcomes(r)
  BY DEF L!Outcomes, Outcomes, L!AnsweredBy, AnsweredBy, L!Completed, Completed,
     L!Blocked, Blocked, L!Stopped, Stopped, L!KeptSession, KeptSession,
     L!StoppedStatus, StoppedStatus
<1>8. QED BY <1>1, <1>2, <1>3, <1>4, <1>5, <1>6, <1>7

-----------------------------------------------------------------------------
\* A review somebody else holds has no worker.
LEMMA HeldNotRunning ==
    ASSUME IInv, NEW a \in Agents, Holding(a), a \in Threads => ~Runs(a)
    PROVE  rid[a] \notin Running
<1>1. ASSUME NEW t \in Threads, Runs(t), rid[t] = rid[a]
      PROVE  FALSE
  <2>1. store[rid[a]] # Deleted
    BY <1>1, AbsentAssumption DEF IInv, CopiesKept, CopyKept, Runs, Pending, Stored, Agents
  <2>2. t # a /\ Holding(t) /\ t \in Agents
    BY <1>1 DEF Runs, Holding, Agents
  <2>3. QED BY <1>1, <2>1, <2>2, HoldersApart DEF IInv
<1>2. QED BY <1>1 DEF Running

\* How the set of running reviews follows the step of one agent.
LEMMA RunningUnchanged ==
    ASSUME NEW a \in Agents, OthersRest(a),
           a \in Threads =>
              /\ Runs(a) <=> Runs(a)'
              /\ Runs(a) => rid'[a] = rid[a]
    PROVE  Running' = Running
<1>1. \A t \in Threads : /\ Runs(t) <=> Runs(t)'
                         /\ Runs(t) => rid'[t] = rid[t]
  BY DEF OthersRest, Runs, Agents
<1>2. QED BY <1>1 DEF Running

\* A thread that begins to run adds its review ...
LEMMA RunningStarts ==
    ASSUME NEW t \in Threads, OthersRest(t), ~Runs(t), Runs(t)', rid'[t] = rid[t]
    PROVE  Running' = Running \cup {rid[t]}
<1>1. \A u \in Threads \ {t} : (Runs(u) <=> Runs(u)') /\ rid'[u] = rid[u]
  BY DEF OthersRest, Runs, Agents
<1>2. QED BY <1>1 DEF Running

\* ... and one that ends takes it away: nobody else runs the same review.
LEMMA RunningEnds ==
    ASSUME IInv, NEW t \in Threads, OthersRest(t), Runs(t), ~Runs(t)'
    PROVE  Running' = Running \ {rid[t]}
<1>1. \A u \in Threads \ {t} : (Runs(u) <=> Runs(u)') /\ rid'[u] = rid[u]
  BY DEF OthersRest, Runs, Agents
<1>2. store[rid[t]] # Deleted
  BY AbsentAssumption DEF IInv, CopiesKept, CopyKept, Runs, Pending, Stored, Agents
<1>3. \A u \in Threads \ {t} : Runs(u) => rid[u] # rid[t]
  BY <1>2, HoldersApart DEF IInv, Runs, Holding, Agents
<1>4. QED BY <1>1, <1>3 DEF Running

\* Every step of the service is a step of the lifecycle, or changes nothing
\* the lifecycle shows.
LEMMA StepImplements == IInv /\ [Next]_vars => [L!Next]_(L!vars)
<1> SUFFICES ASSUME IInv, [Next]_vars
             PROVE  [L!Next]_(L!vars)
  OBVIOUS
<1> USE DEF L!vars, L!Next
<1>a. \A a \in Agents : Holding(a) => rid[a] \in Reviews
  BY DEF IInv, BusyHaveReview, Busy
<1>b. \A t \in Threads : Request(t) \/ Work(t) => OthersRest(t)
  BY ThreadsLocal
<1>c. Threads \subseteq Agents /\ Servers \subseteq Agents
  BY DEF Agents
<1>1. CASE UNCHANGED vars
  BY <1>1 DEF vars, Running, Runs
<1>2. ASSUME NEW t \in Threads, Request(t)
      PROVE  [L!Next]_(L!vars)
  <2>1. store' = store /\ pc[t] = "idle" /\ pc'[t] \in {"create", "acquire", "poll"}
    BY <1>2, <1>c DEF Request, StartReview, TryLock, Poll, Step, IInv, TypeOK
  <2>2. Running' = Running
    BY <1>2, <1>b, <1>c, <2>1, RunningUnchanged DEF Runs
  <2>3. QED BY <2>1, <2>2
<1>3. ASSUME NEW t \in Threads, CreatePending(t)
      PROVE  [L!Next]_(L!vars)
  <2>1. /\ store' = [store EXCEPT ![rid[t]] = NewRecord]
        /\ pc[t] = "create" /\ pc'[t] \in {"launch", "run"} /\ rid' = rid
    BY <1>3, <1>c DEF CreatePending, Step, Prepared, IInv, TypeOK
  <2>2. rid[t] \in Reviews /\ store[rid[t]] = Unused
    BY <1>a, <1>c, <2>1 DEF Holding, IInv, CopiesKept, CopyKept
  <2>3. Running' = Running \cup {rid[t]}
    BY <1>3, <1>b, <2>1, RunningStarts DEF Work, Runs
  <2>4. L!Create(rid[t])
    BY <2>1, <2>2, <2>3, SameRecords DEF L!Create, L!Put
  <2>5. QED BY <2>2, <2>4
<1>4. ASSUME NEW t \in Threads, MarkPending(t)
      PROVE  [L!Next]_(L!vars)
  <2>1. /\ tool[t] \in ResumeTools
        /\ store' = [store EXCEPT ![rid[t]] = Marked(tool[t], rec[t])]
        /\ pc[t] = "write" /\ pc'[t] \in {"launch", "run"} /\ rid' = rid
    BY <1>4, <1>c DEF MarkPending, Update, Step, Prepared, IInv, TypeOK
  <2>2. /\ rid[t] \in Reviews /\ Stored(rid[t])
        /\ rec[t] = store[rid[t]] /\ Admits(tool[t], rec[t])
    BY <1>a, <1>c, <2>1 DEF Holding, IInv, CopiesKept, CopyKept
  <2>3. rid[t] \notin Running /\ Running' = Running \cup {rid[t]}
    BY <1>4, <1>b, <1>c, <2>1, HeldNotRunning, RunningStarts DEF Work, Runs, Holding
  <2>4. CASE tool[t] \in ContinueTools
    <3>1. L!Continue(rid[t])
      BY <2>1, <2>2, <2>3, <2>4, SameRecords
      DEF L!Continue, L!Put, L!Stored, Stored, Admits, Marked, ContinueTools
    <3>2. QED BY <2>2, <3>1
  <2>5. CASE tool[t] \notin ContinueTools
    <3>1. tool[t] = "start_retry_review"
      BY <2>1, <2>5 DEF ResumeTools
    <3>2. L!Retry(rid[t])
      BY <2>1, <2>2, <2>3, <2>5, <3>1, SameRecords
      DEF L!Retry, L!Put, L!Stored, Stored, Admits, Marked
    <3>3. QED BY <2>2, <3>2
  <2>6. QED BY <2>4, <2>5
<1>5. ASSUME NEW t \in Threads, CloseReview(t) \/ DeleteReview(t)
      PROVE  [L!Next]_(L!vars)
  <2>1. /\ \/ store' = [store EXCEPT ![rid[t]] = Closed(rec[t])]
           \/ store' = [store EXCEPT ![rid[t]] = Deleted]
        /\ pc[t] = "write" /\ pc'[t] \in {"unlink", "release"} /\ rid' = rid
    BY <1>5, <1>c DEF CloseReview, DeleteReview, Update, Step, IInv, TypeOK
  <2>2. rid[t] \in Reviews /\ Stored(rid[t]) /\ rec[t] = store[rid[t]]
    BY <1>a, <1>c, <2>1 DEF Holding, IInv, CopiesKept, CopyKept
  <2>3. rid[t] \notin Running /\ Running' = Running
    BY <1>5, <1>b, <1>c, <2>1, HeldNotRunning, RunningUnchanged DEF Work, Runs, Holding
  <2>4. L!Close(rid[t]) \/ L!Delete(rid[t])
    BY <2>1, <2>2, <2>3, SameRecords DEF L!Close, L!Delete, L!Put, L!Stored, Stored
  <2>5. QED BY <2>2, <2>4
<1>6. ASSUME NEW t \in Threads, PersistOutcome(t)
      PROVE  [L!Next]_(L!vars)
  <2>1. /\ store' = [store EXCEPT ![rid[t]] = rec[t]]
        /\ pc[t] = "persist" /\ pc'[t] = "release"
    BY <1>6, <1>c DEF PersistOutcome, Update, Step, IInv, TypeOK
  <2>2. rid[t] \in Reviews /\ Pending(rid[t]) /\ rec[t] \in Outcomes(store[rid[t]])
    BY <1>a, <1>c, <2>1 DEF Holding, IInv, CopiesKept, CopyKept
  <2>3. rid[t] \in Running
    BY <2>1 DEF Running, Runs
  <2>4. Running' = Running \ {rid[t]}
    BY <1>6, <1>b, <2>1, RunningEnds DEF Work, Runs
  <2>5. L!Settle(rid[t])
    BY <2>1, <2>2, <2>3, <2>4, SameRecords DEF L!Settle, L!Put, L!Stored, Stored, Pending
  <2>6. QED BY <2>2, <2>5
<1>7. ASSUME NEW t \in Threads, LoseOutcome(t)
      PROVE  [L!Next]_(L!vars)
  <2>1. store' = store /\ pc[t] = "persist" /\ pc'[t] = "release"
    BY <1>7, <1>c DEF LoseOutcome, Step, IInv, TypeOK
  <2>2. Running' = Running \ {rid[t]}
    BY <1>7, <1>b, <2>1, RunningEnds DEF Work, Runs
  <2>3. QED BY <2>1, <2>2 DEF L!Lose
<1>8. ASSUME NEW t \in Threads, Work(t),
             ~CreatePending(t), ~MarkPending(t), ~CloseReview(t), ~DeleteReview(t),
             ~PersistOutcome(t), ~LoseOutcome(t)
      PROVE  [L!Next]_(L!vars)
  <2>1. /\ store' = store
        /\ Runs(t) <=> Runs(t)'
        /\ Runs(t) => rid'[t] = rid[t]
    BY <1>8, <1>c DEF Work, AcquireLease, LeaseBusy, ReadRecord, GiveUp, LaunchWorker,
       RefuseLaunch, ReviewCompletes, QuotaExceeded, ReviewFails, RemoveLeaseFile, ReleaseLease,
       Unlock, AnswerPending, PollLease, Reread, Answer, Step, Finish, Runs, IInv, TypeOK
  <2>2. Running' = Running
    BY <1>8, <1>b, <1>c, <2>1, RunningUnchanged
  <2>3. QED BY <2>1, <2>2
<1>9. ASSUME NEW s \in Servers, Reconcile(s)
      PROVE  [L!Next]_(L!vars)
  <2>1. store' = [store EXCEPT ![rid[s]] = rec[s]] /\ pc[s] = "reconcile"
    BY <1>9 DEF Reconcile, Update, Step
  <2>2. rid[s] \in Reviews /\ Pending(rid[s]) /\ rec[s] = WorkerLost(store[rid[s]])
    BY <1>a, <1>c, <2>1 DEF Holding, IInv, CopiesKept, CopyKept
  <2>3. OthersRest(s) /\ s \notin Threads
    BY <1>9, ServersLocal, ServiceAssumption DEF Main, Exit, Crash, Reconcile, Step, Die, Of, IInv, TypeOK, Agents
  <2>4. rid[s] \notin Running /\ Running' = Running
    BY <1>c, <2>1, <2>3, HeldNotRunning, RunningUnchanged DEF Holding
  <2>5. L!DeclareLost(rid[s])
    BY <2>1, <2>2, <2>4, SameRecords DEF L!DeclareLost, L!Put, L!Stored, Stored, Pending
  <2>6. QED BY <2>2, <2>5
<1>10. ASSUME NEW s \in Servers, Exit(s) \/ Crash(s)
       PROVE  [L!Next]_(L!vars)
  <2>1. store' = store
    BY <1>10 DEF Exit, Crash, Die
  <2>2. \A t \in Threads : Runs(t)' => Runs(t) /\ rid'[t] = rid[t]
    BY <1>10 DEF Exit, Crash, Die, Of, Runs, Agents
  <2>3. Running' \subseteq Running
    BY <2>2 DEF Running
  <2>4. QED BY <2>1, <2>3 DEF L!Lose
<1>11. ASSUME NEW s \in Servers, Boot(s) \/ Main(s) \/ BeginShutdown(s),
              ~Reconcile(s), ~Exit(s), ~Crash(s)
       PROVE  [L!Next]_(L!vars)
  <2>1. store' = store
    BY <1>11 DEF Boot, Main, BeginShutdown, ScanSkip, ScanLease, ScanReread,
       LoseReconcile, ScanRelease, Serve, WaitForWorkers
  <2>2. OthersRest(s) /\ s \notin Threads
    BY <1>11, ServersLocal, ServiceAssumption
  <2>3. Running' = Running
    BY <1>c, <2>2, RunningUnchanged
  <2>4. QED BY <2>1, <2>3
<1>12. QED
  BY <1>1, <1>2, <1>3, <1>4, <1>5, <1>6, <1>7, <1>8, <1>9, <1>10, <1>11 DEF Next

-----------------------------------------------------------------------------
\* What any step can make of a stored record.
LEMMA StoreChanges ==
    ASSUME IInv, [Next]_vars, NEW r \in Reviews
    PROVE  \/ store'[r] = store[r]
           \/ store[r] = Unused /\ store'[r] = NewRecord
           \/ Stored(r) /\ \/ store'[r] = Deleted
                           \/ store'[r] = Closed(store[r])
                           \/ CanContinue(store[r]) /\ store'[r] = Continuing(store[r])
                           \/ CanRetry(store[r]) /\ store'[r] = Retrying(store[r])
           \/ Pending(r) /\ \/ store'[r] \in Outcomes(store[r])
                            \/ store'[r] = WorkerLost(store[r])
<1> USE SameRecords DEF IInv, TypeOK, L!Stored, Stored, Pending, L!Put
<1>1. CASE UNCHANGED L!vars \/ L!Lose
  BY <1>1 DEF L!vars, L!Lose
<1>2. ASSUME NEW q \in Reviews,
             L!Create(q) \/ L!Close(q) \/ L!Delete(q) \/ L!Continue(q) \/ L!Retry(q)
      PROVE  \/ store'[r] = store[r]
             \/ store[r] = Unused /\ store'[r] = NewRecord
             \/ Stored(r) /\ \/ store'[r] = Deleted
                             \/ store'[r] = Closed(store[r])
                             \/ CanContinue(store[r]) /\ store'[r] = Continuing(store[r])
                             \/ CanRetry(store[r]) /\ store'[r] = Retrying(store[r])
  BY <1>2 DEF L!Create, L!Close, L!Delete, L!Continue, L!Retry
<1>3. ASSUME NEW q \in Reviews, L!Settle(q) \/ L!DeclareLost(q)
      PROVE  \/ store'[r] = store[r]
             \/ Pending(r) /\ \/ store'[r] \in Outcomes(store[r])
                              \/ store'[r] = WorkerLost(store[r])
  BY <1>3 DEF L!Settle, L!DeclareLost
<1>4. QED BY <1>1, <1>2, <1>3, StepImplements DEF L!Next

\* Every stored record stays well formed.
LEMMA StoreStep == IInv /\ [Next]_vars => StoreKept'
<1> SUFFICES ASSUME IInv, [Next]_vars, NEW r \in Reviews, Stored(r)'
             PROVE  WellFormed(store'[r])
  BY DEF StoreKept
<1>1. Stored(r) => store[r] \in Record /\ WellFormed(store[r])
  BY DEF IInv, StoreKept, Stored
<1>2. store'[r] # Deleted
  BY AbsentAssumption DEF Stored
<1>3. QED
  BY <1>1, <1>2, StoreChanges, NewRecordGood, ClosedGood, ContinuingGood, RetryingGood,
     OutcomesGood, WorkerLostGood
  DEF Stored, Pending

-----------------------------------------------------------------------------
\* The invariant holds before any process has started.
LEMMA InitIInv == Init => IInv
<1> SUFFICES ASSUME Init PROVE IInv
  OBVIOUS
<1> USE ServiceAssumption, AbsentAssumption DEF Init, Agents
<1>1. TypeOK
  BY DEF TypeOK, ThreadPoints, ServerPoints
<1>2. \A a \in Agents : pc[a] \in {"down", "idle"}
  OBVIOUS
<1>3. BusyHaveReview /\ OneOwner
  BY <1>2 DEF BusyHaveReview, OneOwner, Busy, Holding
<1>4. CopiesKept
  BY <1>2 DEF CopiesKept, CopyKept
<1>5. StoreKept
  BY DEF StoreKept, Stored
<1>6. QED BY <1>1, <1>3, <1>4, <1>5 DEF IInv

\* The invariant holds in every reachable state.
THEOREM InvariantHolds == Spec => []IInv
<1>1. IInv /\ [Next]_vars => IInv'
  BY TypeStep, OwnerStep, CopiesStep, StoreStep DEF IInv
<1>2. QED BY <1>1, InitIInv, PTL DEF Spec

\* The variables keep their types: what the operations make of a record is
\* again a record, and every status, operation and sequence stays in range.
THEOREM TypesHold == Spec => []TypeOK
BY InvariantHolds, PTL DEF IInv

\* A review has one owner at a time, whatever the number of processes and of
\* requests, workers and polls in each.
THEOREM OwnersAreUnique == Spec => []OneOwner
BY InvariantHolds, PTL DEF IInv

\* No agent ever writes a record computed from an outdated copy.
THEOREM CopiesStayCurrent == Spec => []CopiesCurrent
<1>1. IInv => CopiesCurrent
  BY DEF IInv, CopiesKept, CopyKept, CopiesCurrent, Pending
<1>2. QED BY <1>1, InvariantHolds, PTL

\* The fields of every stored record agree with each other.
THEOREM StoredRecordsAreWellFormed == Spec => []RecordsWellFormed
<1>1. IInv => RecordsWellFormed
  BY SameRecords
  DEF IInv, StoreKept, Stored, RecordsWellFormed, L!RecordsWellFormed, L!Stored
<1>2. QED BY <1>1, InvariantHolds, PTL

\* The service implements the lifecycle: locks, leases, snapshots and separate
\* reads and writes amount to atomic changes of one worker per review.
THEOREM ServiceImplementsLifecycle == Spec => LifecycleSpec
<1>1. Init => L!Init
  <2>1. Init => \A t \in Threads : ~Runs(t)
    BY ServiceAssumption DEF Init, Runs, Agents
  <2>2. Init => Running = {}
    BY <2>1 DEF Running
  <2>3. QED BY <2>2 DEF Init, L!Init
<1>2. QED
  BY <1>1, StepImplements, InvariantHolds, PTL DEF Spec, LifecycleSpec, L!Spec

-----------------------------------------------------------------------------
\* What a step may do to one stored record, in the words of the lifecycle.
Lawful(r) ==
    /\ L!StaysClosed(r) /\ L!StaysDeleted(r) /\ L!KeepsSession(r)
    /\ L!CountsAnswer(r) /\ L!KeepsBlockedOperation(r)

\* Every step obeys these rules, because of what it can make of a record.
LEMMA StepIsLawful ==
    ASSUME IInv, [Next]_vars, NEW r \in Reviews
    PROVE  Lawful(r)
<1> USE AbsentAssumption, SameRecords
    DEF Lawful, L!StaysClosed, L!StaysDeleted, L!KeepsSession, L!CountsAnswer,
        L!KeepsBlockedOperation, L!Stored
<1>1. store[r] \in Record \cup {Unused, Deleted}
  BY DEF IInv, TypeOK
<1>2. Stored(r) => store[r] \in Record /\ WellFormed(store[r])
  BY DEF IInv, StoreKept, Stored
<1>3. CASE store'[r] = store[r]
  BY <1>3 DEF Record
<1>4. CASE store[r] = Unused /\ store'[r] = NewRecord
  BY <1>4
<1>5. CASE Stored(r) /\ store'[r] = Deleted
  BY <1>5 DEF Stored
<1>6. CASE Stored(r) /\ store'[r] = Closed(store[r])
  BY <1>6, <1>2, ChangesKeep DEF Stored
<1>7. CASE Stored(r) /\ CanContinue(store[r]) /\ store'[r] = Continuing(store[r])
  BY <1>7, <1>2, ChangesKeep DEF Stored, CanContinue
<1>8. CASE Stored(r) /\ CanRetry(store[r]) /\ store'[r] = Retrying(store[r])
  <2>1. store[r] \in Record /\ store[r].status # "closed"
    BY <1>8 DEF Stored, CanRetry
  <2>2. /\ Retrying(store[r]).session = store[r].session
        /\ Retrying(store[r]).seq = store[r].seq
        /\ Retrying(store[r]).status = "pending"
        /\ Retrying(store[r]).retryOp = store[r].retryOp
    BY <2>1, ChangesKeep
  <2>3. QED BY <1>8, <2>1, <2>2
<1>9. CASE Pending(r) /\ store'[r] \in Outcomes(store[r])
  BY <1>9, <1>2, OutcomesKeep DEF Stored, Pending
<1>10. CASE Pending(r) /\ store'[r] = WorkerLost(store[r])
  BY <1>10, <1>2, ChangesKeep DEF Stored, Pending
<1>11. QED
  BY <1>3, <1>4, <1>5, <1>6, <1>7, <1>8, <1>9, <1>10, StoreChanges

\* The same for every step of every run.
LEMMA LawfulSteps == Spec => [][\A r \in Reviews : Lawful(r)]_vars
<1>1. IInv /\ [Next]_vars => [\A r \in Reviews : Lawful(r)]_vars
  BY StepIsLawful
<1>2. QED BY <1>1, InvariantHolds, PTL DEF Spec

\* A closed review stays closed, or is deleted: no late worker, retry or
\* reconciliation of any process brings it back.
THEOREM ClosedReviewsStayClosed == Spec => ClosedIsFinal
<1>1. [\A r \in Reviews : Lawful(r)]_vars => [\A r \in Reviews : L!StaysClosed(r)]_(L!vars)
  BY DEF Lawful, L!vars, vars, Running, Runs
<1>2. QED
  BY <1>1, LawfulSteps, PTL DEF ClosedIsFinal, L!ClosedIsFinal

\* A deleted review never comes back, although whole records are written.
THEOREM DeletedReviewsStayDeleted == Spec => DeletedIsGone
<1>1. [\A r \in Reviews : Lawful(r)]_vars => [\A r \in Reviews : L!StaysDeleted(r)]_(L!vars)
  BY DEF Lawful, L!vars, vars, Running, Runs
<1>2. QED
  BY <1>1, LawfulSteps, PTL DEF DeletedIsGone, L!DeletedIsGone

\* Once a review has a Claude session it keeps it, whatever a failing run returns.
THEOREM SessionsAreKept == Spec => SessionIsKept
<1>1. [\A r \in Reviews : Lawful(r)]_vars => [\A r \in Reviews : L!KeepsSession(r)]_(L!vars)
  BY DEF Lawful, L!vars, vars, Running, Runs
<1>2. QED
  BY <1>1, LawfulSteps, PTL DEF SessionIsKept, L!SessionIsKept

\* The response sequence moves by one at each answer, and only then.
THEOREM AnswersAreCounted == Spec => SequenceCountsAnswers
<1>1. [\A r \in Reviews : Lawful(r)]_vars => [\A r \in Reviews : L!CountsAnswer(r)]_(L!vars)
  BY DEF Lawful, L!vars, vars, Running, Runs
<1>2. QED
  BY <1>1, LawfulSteps, PTL DEF SequenceCountsAnswers, L!SequenceCountsAnswers

\* The operation a quota rejection blocked is remembered until it is answered
\* or abandoned for a continuation.
THEOREM BlockedOperationsAreKept == Spec => BlockedOperationIsKept
<1>1. [\A r \in Reviews : Lawful(r)]_vars => [\A r \in Reviews : L!KeepsBlockedOperation(r)]_(L!vars)
  BY DEF Lawful, L!vars, vars, Running, Runs
<1>2. QED
  BY <1>1, LawfulSteps, PTL DEF BlockedOperationIsKept, L!BlockedOperationIsKept

-----------------------------------------------------------------------------
\* A poll that reports a stopped worker is right: it holds the lease.
THEOREM StoppedReportsAreRight == Spec => []StoppedMeansNoWorker
<1>1. IInv => StoppedMeansNoWorker
  BY HeldNotRunning DEF StoppedMeansNoWorker, Holding, Runs, Agents
<1>2. QED BY <1>1, InvariantHolds, PTL

-----------------------------------------------------------------------------
\* workerWG counts every background run, and is zero once the wait is over:
\* a launch after that is refused.
WorkersCounted ==
    /\ \A t \in Threads : pc[t] = "run" /\ tool[t] \in Background => t \in workers
    /\ \A s \in Servers : pc[s] = "drained" => workers \cap Of(s) = {}

\* The counting survives every step.
LEMMA WorkersStep == IInv /\ WorkersCounted /\ [Next]_vars => WorkersCounted'
<1> SUFFICES ASSUME IInv, WorkersCounted, [Next]_vars
             PROVE  WorkersCounted'
  OBVIOUS
<1> USE ServiceAssumption
    DEF WorkersCounted, Of, Agents, Step, IInv, TypeOK
<1>1. CASE UNCHANGED vars
  BY <1>1 DEF vars
<1>2. ASSUME NEW t \in Threads, Request(t)
      PROVE  WorkersCounted'
  BY <1>2 DEF Request, StartReview, TryLock, Poll
<1>3. ASSUME NEW t \in Threads, CreatePending(t) \/ MarkPending(t)
      PROVE  WorkersCounted'
  BY <1>3 DEF CreatePending, MarkPending, Prepared
<1>4. ASSUME NEW t \in Threads, LaunchWorker(t)
      PROVE  WorkersCounted'
  BY <1>4 DEF LaunchWorker, ShuttingDown
<1>5. ASSUME NEW t \in Threads, Unlock(t)
      PROVE  WorkersCounted'
  BY <1>5 DEF Unlock, Finish
<1>6. ASSUME NEW t \in Threads, Work(t),
             ~CreatePending(t), ~MarkPending(t), ~LaunchWorker(t), ~Unlock(t)
      PROVE  WorkersCounted'
  BY <1>6 DEF Work, AcquireLease, LeaseBusy, ReadRecord, GiveUp, CloseReview,
     DeleteReview, RefuseLaunch, ReviewCompletes, QuotaExceeded, ReviewFails,
     PersistOutcome, LoseOutcome, RemoveLeaseFile, ReleaseLease, AnswerPending, PollLease, Reread,
     Answer, Finish
<1>7. ASSUME NEW s \in Servers, Exit(s) \/ Crash(s)
      PROVE  WorkersCounted'
  BY <1>7 DEF Exit, Crash, Die
<1>8. ASSUME NEW s \in Servers, Boot(s) \/ Main(s) \/ BeginShutdown(s), ~Exit(s)
      PROVE  WorkersCounted'
  BY <1>8 DEF Boot, Main, BeginShutdown, ScanSkip, ScanLease, ScanReread, Reconcile,
     LoseReconcile, ScanRelease, Serve, WaitForWorkers
<1>9. QED
  BY <1>1, <1>2, <1>3, <1>4, <1>5, <1>6, <1>7, <1>8 DEF Next

\* A process whose wait is over leaves no background worker behind to be killed.
THEOREM DrainedProcessesAreIdle == Spec => []DrainedHasNoWorker
<1>1. Init => WorkersCounted
  BY ServiceAssumption DEF Init, WorkersCounted, Agents
<1>2. WorkersCounted => DrainedHasNoWorker
  BY DEF WorkersCounted, DrainedHasNoWorker
<1>3. QED
  BY <1>1, <1>2, WorkersStep, InvariantHolds, PTL DEF Spec

-----------------------------------------------------------------------------
\* A review keeps its worker through the steps of all other agents, and through
\* those of its own worker that leave it running.
LEMMA RunnersStay ==
    ASSUME NEW a \in Agents, OthersRest(a), NEW r \in Running,
           a \in Threads /\ Runs(a) /\ rid[a] = r => Runs(a)' /\ rid'[a] = r
    PROVE  r \in Running'
<1>1. PICK t \in Threads : Runs(t) /\ rid[t] = r
  BY DEF Running
<1>2. Runs(t)' /\ rid'[t] = r
  BY <1>1 DEF OthersRest, Runs, Agents
<1>3. QED BY <1>2 DEF Running

\* Without faults every pending review keeps its worker.
LEMMA PendingStep == IInv /\ PendingHasWorker /\ [Next]_vars => PendingHasWorker'
<1> SUFFICES ASSUME IInv, PendingHasWorker, [Next]_vars, faults' = 0,
                    NEW r \in Reviews, Pending(r)'
             PROVE  r \in Running'
  BY DEF PendingHasWorker
<1>a. Threads \subseteq Agents /\ Servers \subseteq Agents
  BY DEF Agents
<1>b. ~Strike
  BY DEF Strike, IInv, TypeOK
<1>c. faults = 0 => (Pending(r) => r \in Running)
  BY DEF PendingHasWorker
<1>d. store'[r] \in Record /\ store'[r].status = "pending"
  BY DEF Pending, Stored
<1>1. CASE UNCHANGED vars
  BY <1>1, <1>c, <1>d DEF vars, Running, Runs, Pending, Stored
<1>2. ASSUME NEW t \in Threads, Request(t)
      PROVE  r \in Running'
  <2>1. store' = store /\ faults' = faults /\ pc[t] = "idle"
    BY <1>2 DEF Request, StartReview, TryLock, Poll, Step
  <2>2. r \in Running
    BY <2>1, <1>c, <1>d DEF Pending, Stored
  <2>3. QED
    BY <1>2, <1>a, <2>1, <2>2, ThreadsLocal, RunnersStay DEF Runs
<1>3. ASSUME NEW t \in Threads, CreatePending(t) \/ MarkPending(t)
      PROVE  r \in Running'
  <2>1. /\ faults' = faults /\ rid' = rid
        /\ pc[t] \in {"create", "write"} /\ pc'[t] \in {"launch", "run"}
        /\ r # rid[t] => store'[r] = store[r]
    BY <1>3, <1>a DEF CreatePending, MarkPending, Update, Step, Prepared, IInv, TypeOK
  <2>2. CASE r = rid[t]
    BY <2>1, <2>2 DEF Running, Runs
  <2>3. CASE r # rid[t]
    <3>1. r \in Running
      BY <2>1, <2>3, <1>c, <1>d DEF Pending, Stored
    <3>2. QED
      BY <1>3, <1>a, <2>1, <3>1, ThreadsLocal, RunnersStay DEF Runs, Work
  <2>4. QED BY <2>2, <2>3
<1>4. ASSUME NEW t \in Threads, CloseReview(t) \/ DeleteReview(t)
      PROVE  r \in Running'
  <2>1. /\ faults' = faults /\ pc[t] = "write"
        /\ r # rid[t] => store'[r] = store[r]
        /\ r = rid[t] => store'[r] = Deleted \/ store'[r] = Closed(rec[t])
    BY <1>4, <1>a DEF CloseReview, DeleteReview, Update, Step, IInv, TypeOK
  <2>2. rec[t] \in Record
    BY <1>a, <2>1, CopiesTyped
  <2>3. r # rid[t]
    BY <2>1, <2>2, <1>d, AbsentAssumption, ChangesKeep
  <2>4. r \in Running
    BY <2>1, <2>3, <1>c, <1>d DEF Pending, Stored
  <2>5. QED
    BY <1>4, <1>a, <2>1, <2>4, ThreadsLocal, RunnersStay DEF Runs, Work
<1>5. ASSUME NEW t \in Threads, PersistOutcome(t)
      PROVE  r \in Running'
  <2>1. /\ faults' = faults /\ pc[t] = "persist"
        /\ r # rid[t] => store'[r] = store[r]
        /\ r = rid[t] => store'[r] = rec[t]
    BY <1>5, <1>a DEF PersistOutcome, Update, Step, IInv, TypeOK
  <2>2. /\ rid[t] \in Reviews /\ Pending(rid[t])
        /\ rec[t] \in Outcomes(store[rid[t]])
    BY <1>a, <2>1 DEF IInv, CopiesKept, CopyKept, BusyHaveReview, Busy, Holding
  <2>3. rec[t].status # "pending"
    BY <2>2, OutcomesGood DEF IInv, StoreKept, Pending, Stored
  <2>4. r # rid[t]
    BY <2>1, <2>3, <1>d
  <2>5. r \in Running
    BY <2>1, <2>4, <1>c, <1>d DEF Pending, Stored
  <2>6. QED
    BY <1>5, <1>a, <2>4, <2>5, ThreadsLocal, RunnersStay DEF Work
<1>6. ASSUME NEW t \in Threads, Work(t),
             ~CreatePending(t), ~MarkPending(t), ~CloseReview(t), ~DeleteReview(t),
             ~PersistOutcome(t)
      PROVE  r \in Running'
  <2>1. /\ store' = store /\ faults' = faults
        /\ Runs(t) => Runs(t)' /\ rid'[t] = rid[t]
    BY <1>6, <1>a, <1>b DEF Work, AcquireLease, LeaseBusy, ReadRecord, GiveUp, LaunchWorker,
       RefuseLaunch, ReviewCompletes, QuotaExceeded, ReviewFails, LoseOutcome, RemoveLeaseFile, ReleaseLease,
       Unlock, AnswerPending, PollLease, Reread, Answer, Step, Finish, Runs, IInv, TypeOK
  <2>2. r \in Running
    BY <2>1, <1>c, <1>d DEF Pending, Stored
  <2>3. QED
    BY <1>6, <1>a, <2>1, <2>2, ThreadsLocal, RunnersStay
<1>7. ASSUME NEW s \in Servers, Reconcile(s)
      PROVE  r \in Running'
  <2>1. /\ faults' = faults /\ pc[s] = "reconcile"
        /\ r # rid[s] => store'[r] = store[r]
        /\ r = rid[s] => store'[r] = rec[s]
    BY <1>7, <1>a DEF Reconcile, Update, Step, IInv, TypeOK
  <2>2. rid[s] \in Reviews /\ Pending(rid[s]) /\ rec[s] = WorkerLost(store[rid[s]])
    BY <1>a, <2>1 DEF IInv, CopiesKept, CopyKept, BusyHaveReview, Busy, Holding
  <2>3. r # rid[s]
    BY <2>1, <2>2, <1>d, ChangesKeep DEF Pending, Stored
  <2>4. r \in Running
    BY <2>1, <2>3, <1>c, <1>d DEF Pending, Stored
  <2>5. OthersRest(s) /\ s \notin Threads
    BY <1>7, ServersLocal, ServiceAssumption DEF Main, Exit, Crash, Reconcile, Step, Die,
       Of, IInv, TypeOK, Agents
  <2>6. QED
    BY <1>a, <2>4, <2>5, RunnersStay
<1>8. ASSUME NEW s \in Servers, Exit(s) \/ Crash(s)
      PROVE  r \in Running'
  <2>1. /\ store' = store /\ faults' = faults
        /\ \A t \in Threads \cap Of(s) : pc[t] = "idle"
    BY <1>8, <1>b DEF Exit, Crash, Die
  <2>2. r \in Running
    BY <2>1, <1>c, <1>d DEF Pending, Stored
  <2>3. PICK t \in Threads : Runs(t) /\ rid[t] = r
    BY <2>2 DEF Running
  <2>4. Runs(t)' /\ rid'[t] = r
    BY <1>8, <1>a, <2>1, <2>3 DEF Exit, Crash, Die, Runs, Of
  <2>5. QED BY <2>4 DEF Running
<1>9. ASSUME NEW s \in Servers, Boot(s) \/ Main(s) \/ BeginShutdown(s),
             ~Reconcile(s), ~Exit(s), ~Crash(s)
      PROVE  r \in Running'
  <2>1. store' = store /\ faults' = faults
    BY <1>9, <1>b DEF Boot, Main, BeginShutdown, ScanSkip, ScanLease, ScanReread,
       LoseReconcile, ScanRelease, Serve, WaitForWorkers
  <2>2. r \in Running
    BY <2>1, <1>c, <1>d DEF Pending, Stored
  <2>3. QED
    BY <1>9, <1>a, <2>2, ServersLocal, ServiceAssumption, RunnersStay
<1>10. QED
  BY <1>1, <1>2, <1>3, <1>4, <1>5, <1>6, <1>7, <1>8, <1>9 DEF Next

\* As long as no process died at work and no write was lost, a pending review
\* has a live worker.
THEOREM PendingReviewsHaveWorkers == Spec => []PendingHasWorker
<1>1. Init => PendingHasWorker
  BY AbsentAssumption DEF Init, PendingHasWorker, Pending, Stored
<1>2. QED
  BY <1>1, PendingStep, InvariantHolds, PTL DEF Spec

-----------------------------------------------------------------------------
\* A thread serves a request that needs the in-process lock of its review.
InRequest(t) == pc[t] # "idle" /\ tool[t] # "get_review_status"

PollsKept ==
    \A t \in Threads :
       tool[t] = "get_review_status" <=> pc[t] \in {"poll", "reread", "answer"}

\* Two requests of one process work on different reviews.
RequestsApart ==
    \A t, u \in Threads :
       t # u /\ Host[t] = Host[u] /\ InRequest(t) /\ InRequest(u) => rid[t] # rid[u]

\* LocksMatchRequests, lock by lock.
LocksHeld ==
    \A s \in Servers : \A r \in Reviews :
       r \in locked[s] <=> \E t \in Threads : Host[t] = s /\ InRequest(t) /\ rid[t] = r

LocksKept == LocksHeld /\ PollsKept /\ RequestsApart

\* Steps that neither start nor end a request keep its lock.
LEMMA LocksFrame ==
    ASSUME LocksKept, locked' = locked,
           \A u \in Threads : InRequest(u)' <=> InRequest(u),
           \A u \in Threads : InRequest(u) => rid'[u] = rid[u]
    PROVE  (LocksHeld /\ RequestsApart)'
BY DEF LocksKept, LocksHeld, RequestsApart

\* Every step keeps the locks and the requests in line.
LEMMA LocksStep == IInv /\ LocksKept /\ [Next]_vars => LocksKept'
<1> SUFFICES ASSUME IInv, LocksKept, [Next]_vars
             PROVE  LocksKept'
  OBVIOUS
<1> USE ServiceAssumption
    DEF LocksKept, LocksHeld, PollsKept, RequestsApart, InRequest, Agents,
        Step, IInv, TypeOK
<1>1. CASE UNCHANGED vars
  BY <1>1 DEF vars
<1>2. ASSUME NEW t \in Threads, NEW r \in Reviews, NEW k \in Tools \ {"get_review_status"},
             StartReview(t, r, k) \/ TryLock(t, r, k)
      PROVE  LocksKept'
  <2>1. /\ pc[t] = "idle" /\ pc'[t] \in {"create", "acquire"}
        /\ tool' = [tool EXCEPT ![t] = k] /\ rid' = [rid EXCEPT ![t] = r]
        /\ \A u \in Threads \ {t} : pc'[u] = pc[u]
        /\ locked' = [locked EXCEPT ![Host[t]] = @ \cup {r}]
    BY <1>2 DEF StartReview, TryLock
  <2>2. \A u \in Threads : Host[u] = Host[t] /\ InRequest(u) => rid[u] # r
    BY <1>2 DEF StartReview, TryLock
  <2>3. PollsKept' /\ RequestsApart'
    BY <2>1, <2>2
  <2>4. LocksHeld'
    <3>1. /\ ~InRequest(t) /\ InRequest(t)' /\ rid'[t] = r
          /\ \A u \in Threads \ {t} : (InRequest(u)' <=> InRequest(u)) /\ rid'[u] = rid[u]
      BY <2>1
    <3>2. ASSUME NEW s \in Servers, NEW q \in Reviews
          PROVE  q \in locked'[s] <=>
                   \E u \in Threads : Host[u] = s /\ InRequest(u)' /\ rid'[u] = q
      <4>1. q \in locked[s] <=> \E u \in Threads : Host[u] = s /\ InRequest(u) /\ rid[u] = q
        BY DEF LocksKept, LocksHeld
      <4>2. q \in locked'[s] <=> q \in locked[s] \/ (s = Host[t] /\ q = r)
        BY <2>1
      <4> HIDE DEF InRequest
      <4>3. QED BY <3>1, <4>1, <4>2
    <3>3. QED BY <3>2
  <2>5. QED BY <2>3, <2>4
<1>3. ASSUME NEW t \in Threads, NEW r \in Reviews, Poll(t, r)
      PROVE  LocksKept'
  BY <1>3 DEF Poll
<1>4. ASSUME NEW t \in Threads, LeaseBusy(t) \/ Unlock(t)
      PROVE  LocksKept'
  <2>1. /\ pc[t] \in {"acquire", "unlock"} /\ pc'[t] = "idle"
        /\ tool' = [tool EXCEPT ![t] = "none"] /\ rid' = [rid EXCEPT ![t] = NoReview]
        /\ \A u \in Threads \ {t} : pc'[u] = pc[u]
        /\ locked' = [locked EXCEPT ![Host[t]] = @ \ {rid[t]}]
    BY <1>4 DEF LeaseBusy, Unlock, Finish
  <2>2. PollsKept' /\ RequestsApart'
    BY <2>1
  <2>3. \A u \in Threads \ {t} : Host[u] = Host[t] /\ InRequest(u) => rid[u] # rid[t]
    BY <2>1
  <2>4. LocksHeld'
    BY <2>1, <2>3
  <2>5. QED BY <2>2, <2>4
<1>5. ASSUME NEW t \in Threads, AnswerPending(t) \/ Answer(t)
      PROVE  LocksKept'
  <2>1. /\ pc[t] \in {"poll", "answer"} /\ pc'[t] = "idle"
        /\ tool' = [tool EXCEPT ![t] = "none"] /\ rid' = [rid EXCEPT ![t] = NoReview]
        /\ \A u \in Threads \ {t} : pc'[u] = pc[u]
        /\ locked' = locked
    BY <1>5 DEF AnswerPending, Answer, Finish
  <2>2. PollsKept'
    BY <2>1
  <2>3. \A u \in Threads : /\ InRequest(u)' <=> InRequest(u)
                           /\ InRequest(u) => rid'[u] = rid[u]
    <3>1. ~InRequest(t) /\ ~InRequest(t)'
      BY <2>1
    <3>2. \A u \in Threads \ {t} : (InRequest(u)' <=> InRequest(u)) /\ rid'[u] = rid[u]
      BY <2>1
    <3>3. QED BY <3>1, <3>2
  <2>4. QED BY <2>1, <2>2, <2>3, LocksFrame
<1>6. ASSUME NEW t \in Threads, Work(t),
             ~LeaseBusy(t), ~Unlock(t), ~AnswerPending(t), ~Answer(t)
      PROVE  LocksKept'
  <2>1. /\ tool' = tool /\ rid' = rid /\ locked' = locked
        /\ \A u \in Threads : (pc[u] = "idle") <=> (pc'[u] = "idle")
        /\ \A u \in Threads : (pc[u] \in {"poll", "reread", "answer"})
                              <=> (pc'[u] \in {"poll", "reread", "answer"})
    BY <1>6 DEF Work, CreatePending, AcquireLease, ReadRecord, GiveUp, MarkPending,
       Prepared, CloseReview, DeleteReview, LaunchWorker, RefuseLaunch, ReviewCompletes,
       QuotaExceeded, ReviewFails, PersistOutcome, LoseOutcome, RemoveLeaseFile, ReleaseLease, PollLease, Reread
  <2>2. PollsKept'
    BY <2>1
  <2>3. \A u \in Threads : InRequest(u)' <=> InRequest(u)
    BY <2>1
  <2>4. QED BY <2>1, <2>2, <2>3, LocksFrame
<1>7. ASSUME NEW s \in Servers, Exit(s) \/ Crash(s)
      PROVE  LocksKept'
  <2>1. \A u \in Threads : Host[u] = s => pc'[u] = "idle" /\ tool'[u] = "none"
    BY <1>7 DEF Exit, Crash, Die, Of
  <2>2. \A u \in Threads : Host[u] # s =>
           pc'[u] = pc[u] /\ tool'[u] = tool[u] /\ rid'[u] = rid[u]
    BY <1>7 DEF Exit, Crash, Die, Of
  <2>3. locked' = [locked EXCEPT ![s] = {}]
    BY <1>7 DEF Exit, Crash, Die
  <2>4. PollsKept' /\ RequestsApart'
    BY <2>1, <2>2
  <2>5. LocksHeld'
    BY <2>1, <2>2, <2>3
  <2>6. QED BY <2>4, <2>5
<1>8. ASSUME NEW s \in Servers, Boot(s) \/ Main(s) \/ BeginShutdown(s), ~Exit(s)
      PROVE  LocksKept'
  <2>1. /\ tool' = tool /\ locked' = locked
        /\ \A u \in Threads : pc'[u] = pc[u] /\ rid'[u] = rid[u]
    BY <1>8 DEF Boot, Main, BeginShutdown, ScanSkip, ScanLease, ScanReread, Reconcile,
       LoseReconcile, ScanRelease, Serve, WaitForWorkers
  <2>2. QED BY <2>1
<1>9. QED
  BY <1>1, <1>2, <1>3, <1>4, <1>5, <1>6, <1>7, <1>8
  DEF Next, Request, Tools, StartTools, ResumeTools, ContinueTools, CloseTools

\* Whichever way a request ends, its in-process lock goes with it.
THEOREM LocksFollowRequests == Spec => []LocksMatchRequests
<1>1. Init => LocksKept
  BY ServiceAssumption
  DEF Init, LocksKept, LocksHeld, PollsKept, RequestsApart, InRequest, Agents
<1>2. IInv /\ LocksKept => LocksMatchRequests
  <2> SUFFICES ASSUME IInv, LocksKept, NEW s \in Servers
               PROVE  locked[s] = {rid[t] : t \in {u \in Threads \cap Of(s) : InRequest(u)}}
    BY DEF LocksMatchRequests, InRequest
  <2>1. Threads \cap Of(s) = {t \in Threads : Host[t] = s}
    BY ServiceAssumption DEF Of
  <2>2. \A t \in Threads : InRequest(t) => rid[t] \in Reviews
    BY DEF InRequest, LocksKept, PollsKept, IInv, TypeOK, BusyHaveReview, Busy, Holding,
       ThreadPoints, Agents
  <2>3. locked[s] \subseteq Reviews
    BY DEF IInv, TypeOK
  <2>4. QED
    BY <2>1, <2>2, <2>3 DEF LocksKept, LocksHeld
<1>3. QED
  BY <1>1, <1>2, LocksStep, InvariantHolds, PTL DEF Spec

-----------------------------------------------------------------------------
\* Only the holder of its lease changes a record, by a step of its own, and
\* changes no other record with it.
WritesAreOwned ==
    [][\A r \in Reviews : store'[r] # store[r] =>
          /\ lease[r] \in Agents /\ rid[lease[r]] = r /\ store[r] # Deleted
          /\ \A b \in Agents \ {lease[r]} : pc'[b] = pc[b] /\ rec'[b] = rec[b]
          /\ \A q \in Reviews \ {r} : store'[q] = store[q]]_vars

\* A record changes under its lease, whoever works on it.
THEOREM RecordsChangeUnderLease == Spec => WritesAreOwned
<1>1. ASSUME IInv, [Next]_vars, NEW r \in Reviews, store'[r] # store[r]
      PROVE  /\ lease[r] \in Agents /\ rid[lease[r]] = r /\ store[r] # Deleted
             /\ \A b \in Agents \ {lease[r]} : pc'[b] = pc[b] /\ rec'[b] = rec[b]
             /\ \A q \in Reviews \ {r} : store'[q] = store[q]
  <2>1. \E a \in Agents : OthersRest(a) /\ WritesOwn(a)
    <3>1. ASSUME NEW t \in Threads, Request(t) \/ Work(t)
          PROVE  \E a \in Agents : OthersRest(a) /\ WritesOwn(a)
      BY <3>1, ThreadsLocal, <1>1 DEF Agents
    <3>2. ASSUME NEW s \in Servers, Exit(s) \/ Crash(s)
          PROVE  FALSE
      BY <1>1, <3>2 DEF Exit, Crash, Die
    <3>3. ASSUME NEW s \in Servers, Boot(s) \/ Main(s) \/ BeginShutdown(s), ~Exit(s), ~Crash(s)
          PROVE  \E a \in Agents : OthersRest(a) /\ WritesOwn(a)
      BY <1>1, <3>3, ServersLocal DEF Agents
    <3>4. QED
      BY <1>1, <3>1, <3>2, <3>3 DEF Next, vars
  <2>2. PICK a \in Agents : OthersRest(a) /\ WritesOwn(a)
    BY <2>1
  <2>3. r = rid[a] /\ Holding(a) /\ store[rid[a]] # Deleted
    BY <1>1, <2>2 DEF WritesOwn
  <2>4. lease[r] = a
    BY <1>1, <2>3 DEF IInv, OneOwner
  <2>5. QED
    BY <1>1, <2>2, <2>3, <2>4 DEF OthersRest, WritesOwn
<1>2. IInv /\ [Next]_vars =>
         [\A r \in Reviews : store'[r] # store[r] =>
            /\ lease[r] \in Agents /\ rid[lease[r]] = r /\ store[r] # Deleted
            /\ \A b \in Agents \ {lease[r]} : pc'[b] = pc[b] /\ rec'[b] = rec[b]
            /\ \A q \in Reviews \ {r} : store'[q] = store[q]]_vars
  BY <1>1
<1>3. QED
  BY <1>2, InvariantHolds, PTL DEF Spec, WritesAreOwned

-----------------------------------------------------------------------------
(* Every request comes to an end, short of fairness: it can always go on by *)
(* itself, and each of its steps brings it nearer its end.                  *)

\* The request a thread serves has the steps it is at, and a counted worker has
\* not ended.
ToolsFollowPoints ==
    \A t \in Threads :
       /\ pc[t] = "create" => tool[t] \in StartTools
       /\ pc[t] \in {"acquire", "read", "write"} => tool[t] \in ResumeTools \cup CloseTools
       /\ pc[t] = "launch" => tool[t] \in Background
       /\ pc[t] \in {"run", "persist"} => tool[t] \in StartTools \cup ResumeTools
       /\ pc[t] = "unlink" => tool[t] = "delete_review"

WorkersAtWork ==
    \A t \in workers : pc[t] \in {"run", "persist", "release", "unlock"}

LEMMA ToolsStep ==
    IInv /\ ToolsFollowPoints /\ WorkersAtWork /\ [Next]_vars =>
       (ToolsFollowPoints /\ WorkersAtWork)'
<1> SUFFICES ASSUME IInv, ToolsFollowPoints, WorkersAtWork, [Next]_vars
             PROVE  (ToolsFollowPoints /\ WorkersAtWork)'
  OBVIOUS
<1> USE ServiceAssumption
    DEF ToolsFollowPoints, WorkersAtWork, Agents, Step, IInv, TypeOK, StartTools,
        ContinueTools, ResumeTools, CloseTools, Background
<1>1. CASE UNCHANGED vars
  BY <1>1 DEF vars
<1>2. ASSUME NEW t \in Threads, Request(t)
      PROVE  (ToolsFollowPoints /\ WorkersAtWork)'
  BY <1>2 DEF Request, StartReview, TryLock, Poll, Accepting
<1>3. ASSUME NEW t \in Threads, CreatePending(t) \/ MarkPending(t)
      PROVE  (ToolsFollowPoints /\ WorkersAtWork)'
  BY <1>3 DEF CreatePending, MarkPending, Prepared
<1>4. ASSUME NEW t \in Threads,
             \/ AcquireLease(t) \/ ReadRecord(t) \/ GiveUp(t) \/ CloseReview(t)
             \/ DeleteReview(t) \/ RemoveLeaseFile(t)
      PROVE  (ToolsFollowPoints /\ WorkersAtWork)'
  BY <1>4 DEF AcquireLease, ReadRecord, GiveUp, CloseReview, DeleteReview, RemoveLeaseFile
<1>5. ASSUME NEW t \in Threads, LaunchWorker(t) \/ RefuseLaunch(t)
      PROVE  (ToolsFollowPoints /\ WorkersAtWork)'
  BY <1>5 DEF LaunchWorker, RefuseLaunch
<1>6. ASSUME NEW t \in Threads,
             \/ ReviewCompletes(t) \/ QuotaExceeded(t) \/ ReviewFails(t)
             \/ PersistOutcome(t) \/ LoseOutcome(t) \/ ReleaseLease(t)
      PROVE  (ToolsFollowPoints /\ WorkersAtWork)'
  BY <1>6 DEF ReviewCompletes, QuotaExceeded, ReviewFails, PersistOutcome, LoseOutcome,
     ReleaseLease
<1>7. ASSUME NEW t \in Threads, LeaseBusy(t) \/ Unlock(t) \/ AnswerPending(t) \/ Answer(t)
      PROVE  (ToolsFollowPoints /\ WorkersAtWork)'
  BY <1>7 DEF LeaseBusy, Unlock, AnswerPending, Answer, Finish
<1>8. ASSUME NEW t \in Threads, PollLease(t) \/ Reread(t)
      PROVE  (ToolsFollowPoints /\ WorkersAtWork)'
  BY <1>8 DEF PollLease, Reread
<1>9. ASSUME NEW s \in Servers, Exit(s) \/ Crash(s)
      PROVE  (ToolsFollowPoints /\ WorkersAtWork)'
  BY <1>9 DEF Exit, Crash, Die, Of
<1>10. ASSUME NEW s \in Servers, Boot(s) \/ Main(s) \/ BeginShutdown(s), ~Exit(s)
       PROVE  (ToolsFollowPoints /\ WorkersAtWork)'
  <2>1. /\ tool' = tool /\ workers' = workers
        /\ \A u \in Threads : pc'[u] = pc[u]
    BY <1>10 DEF Boot, Main, BeginShutdown, ScanSkip, ScanLease, ScanReread, Reconcile,
       LoseReconcile, ScanRelease, Serve, WaitForWorkers
  <2>2. QED
    BY <2>1
<1>11. QED
  BY <1>1, <1>2, <1>3, <1>4, <1>5, <1>6, <1>7, <1>8, <1>9, <1>10 DEF Next, Work

\* The guard of a step of t that is neither an error of the store nor the loss
\* of an outcome.
CanWork(t) ==
    \/ pc[t] = "create" /\ ~Stored(rid[t])
    \/ pc[t] \in {"acquire", "poll"} /\ (lease[rid[t]] = NoOwner \/ MeetsBusy(rid[t]))
    \/ pc[t] = "write" /\ Stored(rid[t]) /\ tool[t] \in ResumeTools \cup CloseTools
    \/ pc[t] = "persist" /\ Stored(rid[t])
    \/ pc[t] \in {"read", "unlink", "launch", "run", "release", "unlock", "reread", "answer"}

\* The same for the main goroutine of s.  Whatever is left of the listing can
\* be leased or skipped.
CanMain(s) ==
    \/ pc[s] \in {"scan", "reread", "release"}
    \/ pc[s] = "reconcile" /\ Stored(rid[s])
    \/ pc[s] = "shutdown" /\ workers \cap Of(s) = {}
    \/ pc[s] = "drained" /\ \A t \in Threads \cap Of(s) : pc[t] = "idle"

\* No request waits for another: locks are tried, and the record a request is
\* about to write is there.  A process that stops waits for its own workers,
\* each of which can go on.
NobodyIsStuck ==
    /\ \A t \in Threads : pc[t] # "idle" => CanWork(t)
    /\ \A s \in Servers : pc[s] \notin {"down", "serving"} =>
          CanMain(s) \/ \E t \in Threads \cap Of(s) : CanWork(t)

\* There is no circle of locks, leases and waits in the service.
THEOREM ServiceNeverStuck == Spec => []NobodyIsStuck
<1>1. Init => ToolsFollowPoints /\ WorkersAtWork
  BY ServiceAssumption DEF Init, ToolsFollowPoints, WorkersAtWork, Agents
<1>2. ASSUME IInv, ToolsFollowPoints, NEW t \in Threads, pc[t] # "idle"
      PROVE  CanWork(t)
  <2>1. pc[t] \in ThreadPoints /\ CopyKept(t)
    BY <1>2 DEF IInv, TypeOK, CopiesKept, Agents
  <2>2. pc[t] = "create" => ~Stored(rid[t])
    BY <2>1, AbsentAssumption DEF CopyKept, Stored
  <2>3. pc[t] \in {"write", "persist"} => Stored(rid[t])
    BY <2>1 DEF CopyKept, Pending
  <2>4. pc[t] = "write" => tool[t] \in ResumeTools \cup CloseTools
    BY <1>2 DEF ToolsFollowPoints
  <2>5. lease[rid[t]] = NoOwner \/ MeetsBusy(rid[t])
    BY DEF MeetsBusy
  <2>6. QED
    BY <1>2, <2>1, <2>2, <2>3, <2>4, <2>5 DEF CanWork, ThreadPoints
<1>3. ASSUME IInv, WorkersAtWork, NEW s \in Servers, pc[s] \notin {"down", "serving"},
             \A t \in Threads : pc[t] # "idle" => CanWork(t)
      PROVE  CanMain(s) \/ \E t \in Threads \cap Of(s) : CanWork(t)
  <2>1. pc[s] \in ServerPoints /\ CopyKept(s) /\ workers \subseteq Threads
    BY <1>3 DEF IInv, TypeOK, CopiesKept, Agents
  <2>2. pc[s] = "reconcile" => Stored(rid[s])
    BY <2>1 DEF CopyKept, Pending
  <2>3. workers \cap Of(s) # {} => \E t \in Threads \cap Of(s) : CanWork(t)
    BY <1>3, <2>1 DEF WorkersAtWork
  <2>4. (\E t \in Threads \cap Of(s) : pc[t] # "idle") =>
           \E t \in Threads \cap Of(s) : CanWork(t)
    BY <1>3
  <2>5. QED
    BY <1>3, <2>1, <2>2, <2>3, <2>4 DEF CanMain, ServerPoints
<1>4. IInv /\ ToolsFollowPoints /\ WorkersAtWork => NobodyIsStuck
  BY <1>2, <1>3 DEF NobodyIsStuck
<1>5. QED
  BY <1>1, <1>4, ToolsStep, InvariantHolds, PTL DEF Spec

-----------------------------------------------------------------------------
\* How far a request is from its end, and a process from its exit.
Ahead ==
    [acquire |-> 10, create |-> 9, read |-> 9, write |-> 8, launch |-> 7, run |-> 6,
     persist |-> 5, unlink |-> 5, poll |-> 4, release |-> 3, reread |-> 3, unlock |-> 2,
     answer |-> 2, idle |-> 0]

MainAhead ==
    [reread |-> 7, reconcile |-> 6, release |-> 5, scan |-> 4, serving |-> 3,
     shutdown |-> 2, drained |-> 1, down |-> 0]

\* A request makes at most ten steps, and nothing sends it back: no retry loop,
\* whatever the others do to its review.
RequestsGoForward ==
    [][\A t \in Threads :
          \/ pc'[t] = pc[t]
          \/ pc[t] = "idle" /\ pc'[t] \in {"create", "acquire", "poll"}
          \/ Ahead[pc'[t]] < Ahead[pc[t]]]_vars

\* A process takes each listed review once and then serves: a step of its main
\* goroutine takes one from the list, or leaves the list and goes forward.
ProcessesGoForward ==
    [][\A s \in Servers :
          \/ pc'[s] = pc[s] /\ todo'[s] = todo[s]
          \/ pc[s] = "down" /\ pc'[s] = "scan"
          \/ \E r \in todo[s] : todo'[s] = todo[s] \ {r} /\ pc[s] = "scan"
          \/ todo'[s] \in {todo[s], {}} /\ MainAhead[pc'[s]] < MainAhead[pc[s]]]_vars

LEMMA ThreadStepForward ==
    ASSUME IInv, NEW t \in Threads, Work(t)
    PROVE  Ahead[pc'[t]] < Ahead[pc[t]]
<1> USE DEF IInv, TypeOK, Agents, Ahead, Step
<1>1. CASE CreatePending(t) \/ MarkPending(t)
  BY <1>1 DEF CreatePending, MarkPending, Prepared
<1>2. CASE AcquireLease(t) \/ ReadRecord(t) \/ GiveUp(t) \/ CloseReview(t) \/ DeleteReview(t)
  BY <1>2 DEF AcquireLease, ReadRecord, GiveUp, CloseReview, DeleteReview
<1>3. CASE RemoveLeaseFile(t) \/ LaunchWorker(t) \/ RefuseLaunch(t)
  BY <1>3 DEF RemoveLeaseFile, LaunchWorker, RefuseLaunch
<1>4. CASE ReviewCompletes(t) \/ QuotaExceeded(t) \/ ReviewFails(t) \/ PersistOutcome(t)
           \/ LoseOutcome(t) \/ ReleaseLease(t)
  BY <1>4 DEF ReviewCompletes, QuotaExceeded, ReviewFails, PersistOutcome, LoseOutcome,
     ReleaseLease
<1>5. CASE LeaseBusy(t) \/ Unlock(t) \/ AnswerPending(t) \/ Answer(t)
  BY <1>5 DEF LeaseBusy, Unlock, AnswerPending, Answer, Finish
<1>6. CASE PollLease(t) \/ Reread(t)
  BY <1>6 DEF PollLease, Reread
<1>7. QED
  BY <1>1, <1>2, <1>3, <1>4, <1>5, <1>6 DEF Work

LEMMA ThreadStarts ==
    ASSUME IInv, NEW t \in Threads, Request(t)
    PROVE  pc[t] = "idle" /\ pc'[t] \in {"create", "acquire", "poll"}
  BY DEF IInv, TypeOK, Agents, Step, Request, StartReview, TryLock, Poll

\* What the death of a process does to its agents, and to those of the others.
LEMMA DeathSpares ==
    ASSUME IInv, NEW s \in Servers, Exit(s) \/ Crash(s)
    PROVE  /\ pc'[s] = "down" /\ todo'[s] \in {todo[s], {}} /\ pc[s] # "down"
           /\ \A t \in Threads : pc'[t] = pc[t] \/ pc'[t] = "idle"
           /\ \A z \in Servers \ {s} : pc'[z] = pc[z] /\ todo'[z] = todo[z]
           /\ workers' \subseteq workers
<1>1. Die(s) /\ pc[s] # "down"
  BY DEF Exit, Crash
<1>2. /\ todo \in [Servers -> SUBSET Reviews] /\ s \in Agents
      /\ Threads \cap Servers = {} /\ Threads \subseteq Agents /\ Servers \subseteq Agents
      /\ \A z \in Servers \ {s} : z \notin Of(s)
  BY ServiceAssumption DEF IInv, TypeOK, Agents, Of
<1>3. /\ pc'[s] = "down"
      /\ \A t \in Threads : pc'[t] = pc[t] \/ pc'[t] = "idle"
      /\ \A z \in Servers \ {s} : pc'[z] = pc[z]
  BY <1>1, <1>2 DEF Die
<1>4. /\ todo' = [todo EXCEPT ![s] = {}] /\ workers' = workers \ Of(s)
  BY <1>1 DEF Die
<1>5. QED
  BY <1>1, <1>2, <1>3, <1>4

\* A request, a worker and a process make a bounded number of steps, each.
THEOREM ServiceGoesForward == Spec => RequestsGoForward /\ ProcessesGoForward
<1>1. ASSUME IInv, [Next]_vars, NEW t \in Threads,
             pc'[t] # pc[t], ~(pc[t] = "idle" /\ pc'[t] \in {"create", "acquire", "poll"})
      PROVE  Ahead[pc'[t]] < Ahead[pc[t]]
  <2>1. pc[t] \in ThreadPoints /\ t \in Agents
    BY <1>1 DEF IInv, TypeOK, Agents
  <2>2. ASSUME NEW u \in Threads, Request(u) PROVE FALSE
    BY <1>1, <2>1, <2>2, ThreadStarts, ThreadsLocal DEF OthersRest
  <2>3. ASSUME NEW u \in Threads, Work(u) PROVE Ahead[pc'[t]] < Ahead[pc[t]]
    BY <1>1, <2>1, <2>3, ThreadStepForward, ThreadsLocal DEF OthersRest
  <2>4. ASSUME NEW s \in Servers, Exit(s) \/ Crash(s) PROVE Ahead[pc'[t]] < Ahead[pc[t]]
    <3>1. pc'[t] = "idle"
      BY <1>1, <2>4, DeathSpares
    <3>2. QED
      BY <1>1, <2>1, <3>1 DEF Ahead, ThreadPoints
  <2>5. ASSUME NEW s \in Servers, Boot(s) \/ Main(s) \/ BeginShutdown(s), ~Exit(s), ~Crash(s)
        PROVE  FALSE
    BY <1>1, <2>1, <2>5, ServersLocal, ServiceAssumption DEF OthersRest
  <2>6. QED
    BY <1>1, <2>2, <2>3, <2>4, <2>5 DEF Next, vars
<1>2. ASSUME IInv, [Next]_vars, NEW s \in Servers
      PROVE  \/ pc'[s] = pc[s] /\ todo'[s] = todo[s]
             \/ pc[s] = "down" /\ pc'[s] = "scan"
             \/ \E r \in todo[s] : todo'[s] = todo[s] \ {r} /\ pc[s] = "scan"
             \/ todo'[s] \in {todo[s], {}} /\ MainAhead[pc'[s]] < MainAhead[pc[s]]
  <2>1. pc[s] \in ServerPoints /\ s \in Agents
    BY <1>2 DEF IInv, TypeOK, Agents
  <2>2. ASSUME NEW u \in Threads, Request(u) \/ Work(u)
        PROVE  pc'[s] = pc[s] /\ todo'[s] = todo[s]
    <3>1. pc'[s] = pc[s]
      BY <1>2, <2>1, <2>2, ThreadsLocal, ServiceAssumption DEF OthersRest
    <3>2. todo' = todo
      BY <2>2 DEF Request, StartReview, TryLock, Poll, Work, CreatePending, AcquireLease,
         LeaseBusy, ReadRecord, GiveUp, MarkPending, CloseReview, DeleteReview,
         RemoveLeaseFile, LaunchWorker, RefuseLaunch, ReviewCompletes, QuotaExceeded,
         ReviewFails, PersistOutcome, LoseOutcome, ReleaseLease, Unlock, AnswerPending,
         PollLease, Reread, Answer
    <3>3. QED
      BY <3>1, <3>2
  <2>3. ASSUME NEW z \in Servers, Exit(z) \/ Crash(z)
        PROVE  \/ pc'[s] = pc[s] /\ todo'[s] = todo[s]
               \/ todo'[s] \in {todo[s], {}} /\ MainAhead[pc'[s]] < MainAhead[pc[s]]
    BY <1>2, <2>1, <2>3, DeathSpares DEF MainAhead, ServerPoints
  <2>4. ASSUME NEW z \in Servers, NEW r \in Reviews, ScanSkip(z, r) \/ ScanLease(z, r)
        PROVE  \/ pc'[s] = pc[s] /\ todo'[s] = todo[s]
               \/ \E q \in todo[s] : todo'[s] = todo[s] \ {q} /\ pc[s] = "scan"
    BY <1>2, <2>4 DEF ScanSkip, ScanLease, Step, IInv, TypeOK, Agents
  <2>5. ASSUME NEW z \in Servers,
               \/ ScanReread(z) \/ Reconcile(z) \/ LoseReconcile(z) \/ ScanRelease(z)
               \/ Serve(z) \/ WaitForWorkers(z) \/ BeginShutdown(z)
        PROVE  \/ pc'[s] = pc[s] /\ todo'[s] = todo[s]
               \/ todo'[s] \in {todo[s], {}} /\ MainAhead[pc'[s]] < MainAhead[pc[s]]
    BY <1>2, <2>5 DEF ScanReread, Reconcile, LoseReconcile, ScanRelease, Serve,
       WaitForWorkers, BeginShutdown, Step, IInv, TypeOK, Agents, MainAhead
  <2>6. ASSUME NEW z \in Servers, Boot(z)
        PROVE  \/ pc'[s] = pc[s] /\ todo'[s] = todo[s]
               \/ pc[s] = "down" /\ pc'[s] = "scan"
    BY <1>2, <2>6 DEF Boot, Step, IInv, TypeOK, Agents
  <2>7. CASE UNCHANGED vars
    BY <2>7 DEF vars
  <2>8. QED
    BY <1>2, <2>2, <2>3, <2>4, <2>5, <2>6, <2>7 DEF Next, Main
<1>3. IInv /\ [Next]_vars =>
         [\A t \in Threads :
            \/ pc'[t] = pc[t]
            \/ pc[t] = "idle" /\ pc'[t] \in {"create", "acquire", "poll"}
            \/ Ahead[pc'[t]] < Ahead[pc[t]]]_vars
  BY <1>1
<1>4. IInv /\ [Next]_vars =>
         [\A s \in Servers :
            \/ pc'[s] = pc[s] /\ todo'[s] = todo[s]
            \/ pc[s] = "down" /\ pc'[s] = "scan"
            \/ \E r \in todo[s] : todo'[s] = todo[s] \ {r} /\ pc[s] = "scan"
            \/ todo'[s] \in {todo[s], {}} /\ MainAhead[pc'[s]] < MainAhead[pc[s]]]_vars
  BY <1>2
<1>5. QED
  BY <1>3, <1>4, InvariantHolds, PTL DEF Spec, RequestsGoForward, ProcessesGoForward

\* A process that stops only loses work: it takes no request, counts no new
\* worker, and does not come back to serving.
StoppingOnlyDrains ==
    [][\A s \in Servers : ShuttingDown(s) =>
          /\ pc'[s] \in {"shutdown", "drained", "down"}
          /\ workers' \cap Of(s) \subseteq workers
          /\ \A t \in Threads \cap Of(s) : pc[t] = "idle" => pc'[t] = "idle"]_vars

\* After BeginShutdown a process can only run dry.
THEOREM ShutdownOnlyDrains == Spec => StoppingOnlyDrains
<1>1. ASSUME IInv, [Next]_vars, NEW s \in Servers, ShuttingDown(s)
      PROVE  /\ pc'[s] \in {"shutdown", "drained", "down"}
             /\ workers' \cap Of(s) \subseteq workers
             /\ \A t \in Threads \cap Of(s) : pc[t] = "idle" => pc'[t] = "idle"
  <2> DEFINE Goal == /\ pc'[s] \in {"shutdown", "drained", "down"}
                     /\ workers' \cap Of(s) \subseteq workers
                     /\ \A t \in Threads \cap Of(s) : pc[t] = "idle" => pc'[t] = "idle"
  <2>1. /\ pc[s] \in {"shutdown", "drained"} /\ s \in Agents /\ s \notin Threads
        /\ \A t \in Threads \cap Of(s) : Host[t] = s
        /\ Host \in [Threads -> Servers]
    BY <1>1, ServiceAssumption DEF ShuttingDown, Agents, Of
  <2>2. ASSUME NEW u \in Threads, Request(u) PROVE Goal
    <3>1. Host[u] # s
      BY <2>1, <2>2 DEF Request, StartReview, TryLock, Poll, Accepting
    <3>2. workers' = workers
      BY <2>2 DEF Request, StartReview, TryLock, Poll
    <3>3. QED
      BY <1>1, <2>1, <2>2, <3>1, <3>2, ThreadsLocal DEF OthersRest, Agents
  <2>3. ASSUME NEW u \in Threads, Work(u) PROVE Goal
    <3>1. pc'[s] = pc[s]
      BY <1>1, <2>1, <2>3, ThreadsLocal DEF OthersRest
    <3>2. pc[u] # "idle"
      BY <2>3 DEF Work, CreatePending, AcquireLease,
         LeaseBusy, ReadRecord, GiveUp, MarkPending, CloseReview, DeleteReview,
         RemoveLeaseFile, LaunchWorker, RefuseLaunch, ReviewCompletes, QuotaExceeded,
         ReviewFails, PersistOutcome, LoseOutcome, ReleaseLease, Unlock, AnswerPending,
         PollLease, Reread, Answer, Step
    <3>3. workers' \cap Of(s) \subseteq workers
      <4>1. CASE LaunchWorker(u)
        BY <1>1, <2>1, <4>1 DEF LaunchWorker
      <4>2. CASE ~LaunchWorker(u)
        BY <2>3, <4>2 DEF Work, CreatePending, AcquireLease,
           LeaseBusy, ReadRecord, GiveUp, MarkPending, CloseReview, DeleteReview,
           RemoveLeaseFile, RefuseLaunch, ReviewCompletes, QuotaExceeded,
           ReviewFails, PersistOutcome, LoseOutcome, ReleaseLease, Unlock, AnswerPending,
           PollLease, Reread, Answer
      <4>3. QED
        BY <4>1, <4>2
    <3>4. \A t \in Threads : pc[t] = "idle" => pc'[t] = "idle"
      BY <1>1, <2>3, <3>2, ThreadsLocal DEF OthersRest, Agents
    <3>5. QED
      BY <2>1, <3>1, <3>3, <3>4
  <2>4. ASSUME NEW z \in Servers, Exit(z) \/ Crash(z) PROVE Goal
    BY <1>1, <2>1, <2>4, DeathSpares
  <2>5. ASSUME NEW z \in Servers, Boot(z) \/ Main(z) \/ BeginShutdown(z), ~Exit(z), ~Crash(z)
        PROVE  Goal
    <3>1. workers' = workers
      BY <2>5 DEF Boot, Main, BeginShutdown, ScanSkip, ScanLease, ScanReread, Reconcile,
         LoseReconcile, ScanRelease, Serve, WaitForWorkers
    <3>2. \A t \in Threads : pc'[t] = pc[t]
      BY <1>1, <2>5, ServersLocal, ServiceAssumption DEF OthersRest, Agents
    <3>3. pc'[s] \in {"shutdown", "drained", "down"}
      <4>1. CASE z # s
        BY <1>1, <2>1, <2>5, <4>1, ServersLocal DEF OthersRest
      <4>2. CASE z = s
        BY <1>1, <2>1, <2>5, <4>2 DEF Boot, Main, BeginShutdown, ScanSkip, ScanLease,
           ScanReread, Reconcile, LoseReconcile, ScanRelease, Serve, WaitForWorkers, Step,
           IInv, TypeOK
      <4>3. QED
        BY <4>1, <4>2
    <3>4. QED
      BY <3>1, <3>2, <3>3
  <2>6. CASE UNCHANGED vars
    BY <2>1, <2>6 DEF vars
  <2>7. QED
    BY <1>1, <2>2, <2>3, <2>4, <2>5, <2>6 DEF Next
<1>2. IInv /\ [Next]_vars =>
         [\A s \in Servers : ShuttingDown(s) =>
            /\ pc'[s] \in {"shutdown", "drained", "down"}
            /\ workers' \cap Of(s) \subseteq workers
            /\ \A t \in Threads \cap Of(s) : pc[t] = "idle" => pc'[t] = "idle"]_vars
  BY <1>1
<1>3. QED
  BY <1>2, InvariantHolds, PTL DEF Spec, StoppingOnlyDrains
=============================================================================
