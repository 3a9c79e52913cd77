---------------------------- MODULE ReviewService ---------------------------
(***************************************************************************)
(* The review service of several MCP server processes that share one       *)
(* store.  A thread is a slot for one MCP request of one process together  *)
(* with the background worker the request may leave behind; the process    *)
(* itself is an agent too, its main goroutine: it reconciles the records   *)
(* of dead workers at startup, serves, and shuts down.                     *)
(*                                                                         *)
(* A step is what happens between two points where another goroutine or    *)
(* process can be observed: taking the in-process lock, trying the lease,  *)
(* reading the store, writing the store, the run of Claude, releasing the  *)
(* lease, dropping the lock.  Between its read and its write an agent      *)
(* holds a copy of the record, and it writes whole records.                *)
(*                                                                         *)
(* Requests that leave every variable alone (get_review, list_reviews, a   *)
(* poll of a review that is not pending, a request refused because the     *)
(* in-process lock is taken) have no action.                               *)
(***************************************************************************)
EXTENDS ReviewRecord

CONSTANTS
    Reviews,       \* review identifiers
    Servers,       \* MCP server processes
    Threads,       \* request slots
    Host,          \* the process of each thread
    NoReview,
    NoOwner,       \* a lease nobody holds
    MaxSequence,   \* bound: answers a client asks of one review
    MaxFaults      \* bound: processes killed at work and lost outcome writes

Agents == Threads \cup Servers

ASSUME ServiceAssumption ==
    /\ Host \in [Threads -> Servers]
    /\ Threads \cap Servers = {}
    /\ NoOwner \notin Agents
    /\ NoReview \notin Reviews
    /\ MaxSequence \in Nat
    /\ MaxFaults \in Nat

\* The tools a request may call; close_review with delete_claude_session is
\* named delete_review here.
StartTools == {"review_diff", "start_review"}
ContinueTools == {"continue_review", "start_continue_review"}
ResumeTools == ContinueTools \cup {"start_retry_review"}
CloseTools == {"close_review", "delete_review"}
Tools == StartTools \cup ResumeTools \cup CloseTools \cup {"get_review_status"}

\* The tools that leave the run of Claude to a background worker.
Background == {"start_review", "start_continue_review", "start_retry_review"}

VARIABLES
    store,    \* sessions.json: the record of each review
    lease,    \* the agent that holds the flock on the lease of each review
    locked,   \* sessionLocks.values of each process
    pc,       \* where each agent is
    tool,     \* the tool each thread is serving
    rid,      \* the review each agent is working on
    rec,      \* the copy of the record in each agent's hand (Unused: none)
    todo,     \* what is left of the listing RecoverStaleWorkers iterates over
    workers,  \* the threads workerWG counts
    faults    \* processes killed at work and outcome writes lost so far

vars == <<store, lease, locked, pc, tool, rid, rec, todo, workers, faults>>

Init ==
    /\ store = [r \in Reviews |-> Unused]
    /\ lease = [r \in Reviews |-> NoOwner]
    /\ locked = [s \in Servers |-> {}]
    /\ pc = [a \in Agents |-> IF a \in Servers THEN "down" ELSE "idle"]
    /\ tool = [t \in Threads |-> "none"]
    /\ rid = [a \in Agents |-> NoReview]
    /\ rec = [a \in Agents |-> Unused]
    /\ todo = [s \in Servers |-> {}]
    /\ workers = {}
    /\ faults = 0

-----------------------------------------------------------------------------
Stored(r) == store[r] \in Record

Pending(r) == Stored(r) /\ store[r].status = "pending"

Step(a, from, to) == pc[a] = from /\ pc' = [pc EXCEPT ![a] = to]

\* JSONStore.Update: replace the record, if there is one.
Update(r, new) == Stored(r) /\ store' = [store EXCEPT ![r] = new]

\* The end of a request: the slot is free again.
Finish(t) ==
    /\ pc' = [pc EXCEPT ![t] = "idle"]
    /\ tool' = [tool EXCEPT ![t] = "none"]
    /\ rid' = [rid EXCEPT ![t] = NoReview]
    /\ rec' = [rec EXCEPT ![t] = Unused]

\* A record that has been written, or refused, is not used again.
Forget(a) == rec' = [rec EXCEPT ![a] = Unused]

\* AcquireReviewLease opens the lease file, then locks it.  In between the file
\* of a deleted review may be removed: the lock of a removed file excludes
\* nobody who opens the path later.  LeaseFile shows this of the files.
TakeLease(a, r) ==
    \/ lease[r] = NoOwner /\ lease' = [lease EXCEPT ![r] = a]
    \/ store[r] = Deleted /\ UNCHANGED lease

FreeLease(a, r) == lease' = [lease EXCEPT ![r] = IF @ = a THEN NoOwner ELSE @]

\* AcquireReviewLease answers ErrLeaseBusy: the lease has an owner, or the lock
\* of a deleted review's file, opened before its removal, is still held.
MeetsBusy(r) == lease[r] # NoOwner \/ store[r] = Deleted

Accepting(t) == pc[t] = "idle" /\ pc[Host[t]] = "serving"

ShuttingDown(s) == pc[s] \in {"shutdown", "drained"}

Strike == faults < MaxFaults /\ faults' = faults + 1

-----------------------------------------------------------------------------
(* Preparing an operation: prepareInitialReview, prepareContinuation,      *)
(* prepareQuotaRetry and the whole of CloseReview.                         *)

\* Mutant of StartReview: the identifier of a deleted review is used again.
StartReviewReused(t, r, k) ==
    /\ Accepting(t)
    /\ k \in StartTools
    /\ store[r] \in {Unused, Deleted} /\ \A a \in Agents : rid[a] # r
    /\ Step(t, "idle", "create")
    /\ tool' = [tool EXCEPT ![t] = k]
    /\ rid' = [rid EXCEPT ![t] = r]
    /\ locked' = [locked EXCEPT ![Host[t]] = @ \cup {r}]
    /\ lease' = [lease EXCEPT ![r] = t]
    /\ UNCHANGED <<store, rec, todo, workers, faults>>

\* A fresh identifier: nobody else can be holding its lock or its lease.
StartReview(t, r, k) ==
    /\ Accepting(t)
    /\ k \in StartTools
    /\ store[r] = Unused /\ \A a \in Agents : rid[a] # r
    /\ Step(t, "idle", "create")
    /\ tool' = [tool EXCEPT ![t] = k]
    /\ rid' = [rid EXCEPT ![t] = r]
    /\ locked' = [locked EXCEPT ![Host[t]] = @ \cup {r}]
    /\ lease' = [lease EXCEPT ![r] = t]
    /\ UNCHANGED <<store, rec, todo, workers, faults>>

\* Where a prepared operation continues: the worker launch, or the run itself.
Prepared(t) == IF tool[t] \in Background THEN "launch" ELSE "run"

CreatePending(t) ==
    /\ Step(t, "create", Prepared(t))
    /\ ~Stored(rid[t])                     \* Create refuses an existing identifier
    /\ store' = [store EXCEPT ![rid[t]] = NewRecord]
    /\ rec' = [rec EXCEPT ![t] = NewRecord]
    /\ UNCHANGED <<lease, locked, tool, rid, todo, workers, faults>>

WithinBound(r) == Stored(r) => store[r].seq < MaxSequence

TryLock(t, r, k) ==
    /\ Accepting(t)
    /\ k \in ResumeTools \cup CloseTools
    /\ store[r] # Unused                    \* clients only know ids that exist or existed
    /\ k \in ResumeTools => WithinBound(r)
    /\ r \notin locked[Host[t]]             \* else review_busy
    /\ locked' = [locked EXCEPT ![Host[t]] = @ \cup {r}]
    /\ Step(t, "idle", "acquire")
    /\ tool' = [tool EXCEPT ![t] = k]
    /\ rid' = [rid EXCEPT ![t] = r]
    /\ UNCHANGED <<store, lease, rec, todo, workers, faults>>

\* Mutant of AcquireLease: ErrLeaseBusy is ignored.
AcquireLeaseUnchecked(t) ==
    /\ Step(t, "acquire", "read")
    /\ lease' = [lease EXCEPT ![rid[t]] = t]
    /\ UNCHANGED <<store, locked, tool, rid, rec, todo, workers, faults>>

AcquireLease(t) ==
    /\ Step(t, "acquire", "read")
    /\ TakeLease(t, rid[t])
    /\ UNCHANGED <<store, locked, tool, rid, rec, todo, workers, faults>>

\* Mutant of LeaseBusy: the error return forgets the in-process lock.
LeaseBusyLocked(t) ==
    /\ pc[t] = "acquire"
    /\ MeetsBusy(rid[t])
    /\ Finish(t)
    /\ UNCHANGED <<store, lease, locked, todo, workers, faults>>

\* Mutant of LeaseBusy: flock without LOCK_NB, the request waits.
LeaseBusyWaits(t) ==
    /\ pc[t] = "acquire"
    /\ MeetsBusy(rid[t])
    /\ UNCHANGED vars

\* review_busy: another process, or a poll, holds the lease.
LeaseBusy(t) ==
    /\ pc[t] = "acquire"
    /\ MeetsBusy(rid[t])
    /\ locked' = [locked EXCEPT ![Host[t]] = @ \ {rid[t]}]
    /\ Finish(t)
    /\ UNCHANGED <<store, lease, todo, workers, faults>>

\* What the record must allow for the request to go on.
Admits(k, r) ==
    CASE k \in ContinueTools -> CanContinue(r)
      [] k = "start_retry_review" -> CanRetry(r)
      [] OTHER -> TRUE

ReadRecord(t) ==
    /\ Step(t, "read", "write")
    /\ Stored(rid[t]) /\ Admits(tool[t], store[rid[t]])
    /\ rec' = [rec EXCEPT ![t] = store[rid[t]]]
    /\ UNCHANGED <<store, lease, locked, tool, rid, todo, workers, faults>>

\* Any error return before the first write: a Git error, an empty scope, an
\* invalid input, a missing or unsuitable record, a reset time not reached, a
\* store that refuses the write.
GiveUp(t) ==
    /\ pc[t] \in {"create", "read", "write"}
    /\ pc' = [pc EXCEPT ![t] = "release"]
    /\ Forget(t)
    /\ UNCHANGED <<store, lease, locked, tool, rid, todo, workers, faults>>

Marked(k, r) == IF k \in ContinueTools THEN Continuing(r) ELSE Retrying(r)

MarkPending(t) ==
    /\ tool[t] \in ResumeTools
    /\ Step(t, "write", Prepared(t))
    /\ Update(rid[t], Marked(tool[t], rec[t]))
    /\ rec' = [rec EXCEPT ![t] = Marked(tool[t], rec[t])]
    /\ UNCHANGED <<lease, locked, tool, rid, todo, workers, faults>>

CloseReview(t) ==
    /\ tool[t] = "close_review"
    /\ Step(t, "write", "release")
    /\ Update(rid[t], Closed(rec[t]))
    /\ Forget(t)
    /\ UNCHANGED <<lease, locked, tool, rid, todo, workers, faults>>

DeleteReview(t) ==
    /\ tool[t] = "delete_review"
    /\ Step(t, "write", "unlink")
    /\ Update(rid[t], Deleted)
    /\ Forget(t)
    /\ UNCHANGED <<lease, locked, tool, rid, todo, workers, faults>>

\* The path of the lease is free for a new file while t still holds the lock
\* of the old one; the removal may also fail, which is only logged.
RemoveLeaseFile(t) ==
    /\ Step(t, "unlink", "release")
    /\ FreeLease(t, rid[t]) \/ UNCHANGED lease
    /\ UNCHANGED <<store, locked, tool, rid, rec, todo, workers, faults>>

-----------------------------------------------------------------------------
(* Running an operation: launchReview, executeReview, persistReviewFailure *)

\* Mutant of LaunchWorker: shuttingDown is not looked at.
LaunchWorkerAlways(t) ==
    /\ Step(t, "launch", "run")
    /\ workers' = workers \cup {t}
    /\ UNCHANGED <<store, lease, locked, tool, rid, rec, todo, faults>>

LaunchWorker(t) ==
    /\ ~ShuttingDown(Host[t])
    /\ Step(t, "launch", "run")
    /\ workers' = workers \cup {t}
    /\ UNCHANGED <<store, lease, locked, tool, rid, rec, todo, faults>>

\* Mutant of RefuseLaunch: the refusal is not written to the record.
RefuseLaunchSilently(t) ==
    /\ ShuttingDown(Host[t])
    /\ Step(t, "launch", "release")
    /\ Forget(t)
    /\ UNCHANGED <<store, lease, locked, tool, rid, todo, workers, faults>>

\* server_shutting_down
RefuseLaunch(t) ==
    /\ ShuttingDown(Host[t])
    /\ Step(t, "launch", "persist")
    /\ rec' = [rec EXCEPT ![t] = Stopped(rec[t], NoSession)]
    /\ UNCHANGED <<store, lease, locked, tool, rid, todo, workers, faults>>

\* Claude.Run and ParseResponse succeed.
ReviewCompletes(t) ==
    /\ Step(t, "run", "persist")
    /\ \E s \in AnsweredBy(rec[t]) : rec' = [rec EXCEPT ![t] = Completed(rec[t], s)]
    /\ UNCHANGED <<store, lease, locked, tool, rid, todo, workers, faults>>

\* Claude.Run reports ErrQuotaExceeded, with or without a session and a reset time.
QuotaExceeded(t) ==
    /\ Step(t, "run", "persist")
    /\ \E s \in SessionIds \cup {NoSession}, at \in BOOLEAN :
          rec' = [rec EXCEPT ![t] = Blocked(rec[t], s, at)]
    /\ UNCHANGED <<store, lease, locked, tool, rid, todo, workers, faults>>

\* Mutant of ReviewFails: the error is returned but not persisted.
ReviewFailsSilently(t) ==
    /\ Step(t, "run", "release")
    /\ Forget(t)
    /\ UNCHANGED <<store, lease, locked, tool, rid, todo, workers, faults>>

\* Any other error of the run, cancellation and a worker's panic included.
ReviewFails(t) ==
    /\ Step(t, "run", "persist")
    /\ \E s \in SessionIds \cup {NoSession} :
          rec' = [rec EXCEPT ![t] = Stopped(rec[t], s)]
    /\ UNCHANGED <<store, lease, locked, tool, rid, todo, workers, faults>>

PersistOutcome(t) ==
    /\ Step(t, "persist", "release")
    /\ Update(rid[t], rec[t])
    /\ Forget(t)
    /\ UNCHANGED <<lease, locked, tool, rid, todo, workers, faults>>

\* The three attempts of updateDetached fail: the record stays pending.
LoseOutcome(t) ==
    /\ Step(t, "persist", "release")
    /\ Strike
    /\ Forget(t)
    /\ UNCHANGED <<store, lease, locked, tool, rid, todo, workers>>

-----------------------------------------------------------------------------
(* The release closure, then the end of the request or of the worker.      *)

ReleaseLease(t) ==
    /\ Step(t, "release", "unlock")
    /\ FreeLease(t, rid[t])
    /\ UNCHANGED <<store, locked, tool, rid, rec, todo, workers, faults>>

\* Mutant of Unlock: the worker ends without workerWG.Done.
UnlockUncounted(t) ==
    /\ pc[t] = "unlock"
    /\ locked' = [locked EXCEPT ![Host[t]] = @ \ {rid[t]}]
    /\ Finish(t)
    /\ UNCHANGED <<store, lease, todo, workers, faults>>

Unlock(t) ==
    /\ pc[t] = "unlock"
    /\ locked' = [locked EXCEPT ![Host[t]] = @ \ {rid[t]}]
    /\ workers' = workers \ {t}
    /\ Finish(t)
    /\ UNCHANGED <<store, lease, todo, faults>>

-----------------------------------------------------------------------------
(* GetReviewStatus of a review that reads as pending.  It takes the lease  *)
(* but not the in-process lock, and never writes.                          *)

Poll(t, r) ==
    /\ Accepting(t)
    /\ Pending(r)
    /\ Step(t, "idle", "poll")
    /\ tool' = [tool EXCEPT ![t] = "get_review_status"]
    /\ rid' = [rid EXCEPT ![t] = r]
    /\ UNCHANGED <<store, lease, locked, rec, todo, workers, faults>>

\* The lease is busy: the answer is the pending record read before.
AnswerPending(t) ==
    /\ pc[t] = "poll"
    /\ MeetsBusy(rid[t])
    /\ Finish(t)
    /\ UNCHANGED <<store, lease, locked, todo, workers, faults>>

\* Mutant of PollLease: a busy lease is not told from a free one.
PollLeaseUnchecked(t) ==
    /\ Step(t, "poll", "reread")
    /\ lease' = [lease EXCEPT ![rid[t]] = t]
    /\ UNCHANGED <<store, locked, tool, rid, rec, todo, workers, faults>>

PollLease(t) ==
    /\ Step(t, "poll", "reread")
    /\ TakeLease(t, rid[t])
    /\ UNCHANGED <<store, locked, tool, rid, rec, todo, workers, faults>>

\* What an observer that holds the lease makes of the record.
Observed(r) == IF r.status = "pending" THEN WorkerLost(r) ELSE r

\* The second read, under the lease; rec is what the poll will answer.
Reread(t) ==
    /\ t \in Threads
    /\ Step(t, "reread", "answer")
    /\ rec' = [rec EXCEPT ![t] =
          IF Stored(rid[t]) THEN Observed(store[rid[t]]) ELSE Unused]
    /\ UNCHANGED <<store, lease, locked, tool, rid, todo, workers, faults>>

Answer(t) ==
    /\ pc[t] = "answer"
    /\ FreeLease(t, rid[t])
    /\ Finish(t)
    /\ UNCHANGED <<store, locked, todo, workers, faults>>

-----------------------------------------------------------------------------
(* The main goroutine: run() of cmd/claude-reviewer and                    *)
(* RecoverStaleWorkers.                                                    *)

\* A process starts, and lists the pending records.
Boot(s) ==
    /\ Step(s, "down", "scan")
    /\ todo' = [todo EXCEPT ![s] = {r \in Reviews : Pending(r)}]
    /\ UNCHANGED <<store, lease, locked, tool, rid, rec, workers, faults>>

\* The lease of r is held: r is left to its holder.
ScanSkip(s, r) ==
    /\ pc[s] = "scan" /\ r \in todo[s]
    /\ MeetsBusy(r)
    /\ todo' = [todo EXCEPT ![s] = @ \ {r}]
    /\ UNCHANGED <<store, lease, locked, pc, tool, rid, rec, workers, faults>>

ScanLease(s, r) ==
    /\ r \in todo[s]
    /\ TakeLease(s, r)
    /\ rid' = [rid EXCEPT ![s] = r]
    /\ todo' = [todo EXCEPT ![s] = @ \ {r}]
    /\ Step(s, "scan", "reread")
    /\ UNCHANGED <<store, locked, tool, rec, workers, faults>>

\* Mutant of ScanReread: the listed status is trusted under the lease.
ScanRereadTrusting(s) ==
    /\ s \in Servers /\ pc[s] = "reread"
    /\ IF Stored(rid[s])
         THEN /\ Step(s, "reread", "reconcile")
              /\ rec' = [rec EXCEPT ![s] = WorkerLost(store[rid[s]])]
         ELSE Step(s, "reread", "release") /\ UNCHANGED rec
    /\ UNCHANGED <<store, lease, locked, tool, rid, todo, workers, faults>>

\* Read the record again under the lease.
ScanReread(s) ==
    /\ s \in Servers /\ pc[s] = "reread"
    /\ IF Pending(rid[s])
         THEN /\ Step(s, "reread", "reconcile")
              /\ rec' = [rec EXCEPT ![s] = WorkerLost(store[rid[s]])]
         ELSE Step(s, "reread", "release") /\ UNCHANGED rec
    /\ UNCHANGED <<store, lease, locked, tool, rid, todo, workers, faults>>

Reconcile(s) ==
    /\ Step(s, "reconcile", "release")
    /\ Update(rid[s], rec[s])
    /\ Forget(s)
    /\ UNCHANGED <<lease, locked, tool, rid, todo, workers, faults>>

LoseReconcile(s) ==
    /\ Step(s, "reconcile", "release")
    /\ Strike
    /\ Forget(s)
    /\ UNCHANGED <<store, lease, locked, tool, rid, todo, workers>>

ScanRelease(s) ==
    /\ s \in Servers
    /\ Step(s, "release", "scan")
    /\ FreeLease(s, rid[s])
    /\ rid' = [rid EXCEPT ![s] = NoReview]
    /\ UNCHANGED <<store, locked, tool, rec, todo, workers, faults>>

Serve(s) ==
    /\ todo[s] = {}
    /\ Step(s, "scan", "serving")
    /\ UNCHANGED <<store, lease, locked, tool, rid, rec, todo, workers, faults>>

BeginShutdown(s) ==
    /\ Step(s, "serving", "shutdown")
    /\ UNCHANGED <<store, lease, locked, tool, rid, rec, todo, workers, faults>>

Of(s) == {t \in Threads : Host[t] = s} \cup {s}

WaitForWorkers(s) ==
    /\ workers \cap Of(s) = {}
    /\ Step(s, "shutdown", "drained")
    /\ UNCHANGED <<store, lease, locked, tool, rid, rec, todo, workers, faults>>

\* The process is gone: its goroutines stop where they are and the operating
\* system drops its file locks.
Die(s) ==
    /\ pc' = [a \in Agents |-> IF a = s THEN "down" ELSE
                               IF a \in Of(s) THEN "idle" ELSE pc[a]]
    /\ tool' = [t \in Threads |-> IF t \in Of(s) THEN "none" ELSE tool[t]]
    /\ rid' = [a \in Agents |-> IF a \in Of(s) THEN NoReview ELSE rid[a]]
    /\ rec' = [a \in Agents |-> IF a \in Of(s) THEN Unused ELSE rec[a]]
    /\ lease' = [r \in Reviews |-> IF lease[r] \in Of(s) THEN NoOwner ELSE lease[r]]
    /\ locked' = [locked EXCEPT ![s] = {}]
    /\ todo' = [todo EXCEPT ![s] = {}]
    /\ workers' = workers \ Of(s)
    /\ UNCHANGED store

\* main returns, whatever requests are still in progress.
Exit(s) ==
    /\ pc[s] = "drained"
    /\ IF \A t \in Threads \cap Of(s) : pc[t] = "idle" THEN UNCHANGED faults ELSE Strike
    /\ Die(s)

Crash(s) ==
    /\ pc[s] # "down"
    /\ Strike
    /\ Die(s)

-----------------------------------------------------------------------------
\* What clients ask of a thread.
Request(t) ==
    \E r \in Reviews :
       \/ \E k \in StartTools : StartReview(t, r, k)
       \/ \E k \in ResumeTools \cup CloseTools : TryLock(t, r, k)
       \/ Poll(t, r)

\* What the thread then does by itself.
Work(t) ==
    \/ CreatePending(t) \/ AcquireLease(t) \/ LeaseBusy(t) \/ ReadRecord(t)
    \/ GiveUp(t) \/ MarkPending(t)
    \/ CloseReview(t) \/ DeleteReview(t) \/ RemoveLeaseFile(t)
    \/ LaunchWorker(t) \/ RefuseLaunch(t)
    \/ ReviewCompletes(t) \/ QuotaExceeded(t) \/ ReviewFails(t)
    \/ PersistOutcome(t) \/ LoseOutcome(t) \/ ReleaseLease(t) \/ Unlock(t)
    \/ AnswerPending(t) \/ PollLease(t) \/ Reread(t) \/ Answer(t)

\* What a started process does by itself, until it serves and once it stops.
Main(s) ==
    \/ \E r \in Reviews : ScanSkip(s, r) \/ ScanLease(s, r)
    \/ ScanReread(s) \/ Reconcile(s) \/ LoseReconcile(s) \/ ScanRelease(s)
    \/ Serve(s) \/ WaitForWorkers(s) \/ Exit(s)

Next ==
    \/ \E t \in Threads : Request(t) \/ Work(t)
    \/ \E s \in Servers : Boot(s) \/ Main(s) \/ BeginShutdown(s) \/ Crash(s)

Spec == Init /\ [][Next]_vars

\* Goroutines that can run do run, and Claude's runs end (every run has a
\* timeout).  No client has to ask anything, no process has to be started.
FairSpec ==
    /\ Spec
    /\ \A t \in Threads : WF_vars(Work(t))
    /\ \A s \in Servers : WF_vars(Main(s))

-----------------------------------------------------------------------------
ThreadPoints ==
    {"idle", "create", "acquire", "read", "write", "launch", "run", "persist",
     "unlink", "release", "unlock", "poll", "reread", "answer"}

ServerPoints ==
    {"down", "scan", "reread", "reconcile", "release", "serving", "shutdown",
     "drained"}

TypeOK ==
    /\ store \in [Reviews -> Record \cup {Unused, Deleted}]
    /\ lease \in [Reviews -> Agents \cup {NoOwner}]
    /\ locked \in [Servers -> SUBSET Reviews]
    /\ pc \in [Agents -> ThreadPoints \cup ServerPoints]
    /\ \A t \in Threads : pc[t] \in ThreadPoints
    /\ \A s \in Servers : pc[s] \in ServerPoints
    /\ tool \in [Threads -> Tools \cup {"none"}]
    /\ rid \in [Agents -> Reviews \cup {NoReview}]
    /\ rec \in [Agents -> Record \cup {Unused}]
    /\ todo \in [Servers -> SUBSET Reviews]
    /\ workers \in SUBSET Threads
    /\ faults \in 0..MaxFaults

-----------------------------------------------------------------------------
\* A thread runs its review from the pending write to the outcome write.
Runs(t) == pc[t] \in {"launch", "run", "persist"}

Running == {rid[t] : t \in {u \in Threads : Runs(u)}}

\* The points at which an agent holds the lease of its review.
Holding(a) ==
    pc[a] \in {"create", "read", "write", "launch", "run", "persist",
               "unlink", "release", "reread", "answer", "reconcile"}

\* A review has one owner at a time: every agent between its lease and its
\* release is the recorded holder, so no two requests, workers, polls or
\* reconcilers, of one process or of several, work on the same record.  Only
\* the lease of a deleted review is worth nothing, its file may be gone.
OneOwner ==
    \A a \in Agents : Holding(a) /\ store[rid[a]] # Deleted => lease[rid[a]] = a

\* The copy an agent holds is never out of date: from its read to its write
\* nobody else changes the stored record, so whole-record writes lose nothing.
CopiesCurrent ==
    \A a \in Agents :
       LET stored == store[rid[a]] IN
       CASE pc[a] \in {"write", "launch", "run"} -> rec[a] = stored
         [] pc[a] = "persist" -> stored.status = "pending" /\ rec[a] \in Outcomes(stored)
         [] pc[a] = "reconcile" -> stored.status = "pending" /\ rec[a] = WorkerLost(stored)
         [] OTHER -> TRUE

\* As long as no process died at work and no outcome write was lost, a review
\* that reads as pending has a live worker that will write its outcome: no
\* error return, refused launch, busy answer or poll leaves one behind.
PendingHasWorker ==
    faults = 0 => \A r \in Reviews : Pending(r) => r \in Running

\* A poll that declares a worker stopped is right: no thread of any process
\* is running that review while the poll decides its answer.
StoppedMeansNoWorker ==
    \A t \in Threads :
       pc[t] = "answer" /\ rec[t] # store[rid[t]] => rid[t] \notin Running

\* A process whose wait for its workers is over has none left to be killed by
\* its exit: BeginShutdown and launchReview cannot slip past each other.
DrainedHasNoWorker ==
    \A s \in Servers : pc[s] = "drained" =>
       \A t \in Threads \cap Of(s) : pc[t] = "run" => tool[t] \notin Background

\* The in-process lock set mirrors the requests in progress: a lock is there
\* exactly while one thread of the process needs it, whichever way the request
\* ends, so a review never stays review_busy with nobody using it.
LocksMatchRequests ==
    \A s \in Servers : locked[s] =
       {rid[t] : t \in {u \in Threads \cap Of(s) :
                          pc[u] # "idle" /\ tool[u] # "get_review_status"}}

-----------------------------------------------------------------------------
L == INSTANCE ReviewLifecycle WITH running <- Running

\* The service implements the lifecycle of one worker per review.
LifecycleSpec == L!Spec

RecordsWellFormed == L!RecordsWellFormed
ClosedIsFinal == L!ClosedIsFinal
DeletedIsGone == L!DeletedIsGone
SessionIsKept == L!SessionIsKept
SequenceCountsAnswers == L!SequenceCountsAnswers
BlockedOperationIsKept == L!BlockedOperationIsKept

-----------------------------------------------------------------------------
\* Every request ends, whatever the other threads and processes do.
RequestsEnd == \A t \in Threads : pc[t] # "idle" ~> pc[t] = "idle"

\* A process that stops serving exits: launches cannot keep it waiting.
ShutdownEnds == \A s \in Servers : pc[s] = "shutdown" ~> pc[s] = "down"

\* Without faults a pending review is eventually settled, for every poll of a
\* client that waits for it.
PendingEnds == \A r \in Reviews : Pending(r) ~> ~Pending(r)

-----------------------------------------------------------------------------
(* Statements of the documentation the code does not meet.                 *)

\* A request that runs reviews, not a poll, a closing or a reconciliation,
\* holds the lease of r.
Operating(r) ==
    lease[r] \in Threads /\ tool[lease[r]] \in StartTools \cup ResumeTools

\* README, "Status meanings": pending means "a background operation is
\* active".  GetReviewStatus answers so whenever it finds the lease busy, also
\* when the holder is another poll.
PendingAnswerMeansActive ==
    [][\A t \in Threads :
          AnswerPending(t) /\ Pending(rid[t]) => Operating(rid[t])]_vars

\* README, tool reference: start_retry_review retries "a quota-blocked or
\* interrupted retry".  A poll that reports an interrupted quota retry as
\* retryable finds a record which StartRetryReview admits.
RetryableIsAdmitted ==
    \A t \in Threads :
       /\ pc[t] = "answer" /\ Stored(rid[t]) /\ rec[t] # store[rid[t]]
       /\ store[rid[t]].active = "quota_retry"
       => CanRetry(store[rid[t]])
=============================================================================
