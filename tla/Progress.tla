------------------------------ MODULE Progress ------------------------------
(***************************************************************************)
(* The synchronous tools review_diff and continue_review of the MCP server *)
(* while the service works: each request has a handler and, if the client  *)
(* gave a progress token, a goroutine that reports progress (the           *)
(* reporter).  Both write to the one connection of the client.             *)
(***************************************************************************)
EXTENDS Naturals

CONSTANT Requests

VARIABLES
    handler,   \* where the handler of each request is
    canceled,  \* progressCtx of each request is done
    reporter,  \* where its reporter is
    tick,      \* the ticker has fired: its channel holds one tick
    last       \* what the client last received for the request

progressVars == <<handler, canceled, reporter, tick, last>>

ProgressInit ==
    /\ handler = [r \in Requests |-> "idle"]
    /\ canceled = [r \in Requests |-> FALSE]
    /\ reporter = [r \in Requests |-> "none"]
    /\ tick = [r \in Requests |-> FALSE]
    /\ last = [r \in Requests |-> "nothing"]

-----------------------------------------------------------------------------
\* A request with a token starts a reporter; one without reports nothing.
Receive(r) ==
    /\ handler[r] = "idle"
    /\ handler' = [handler EXCEPT ![r] = "working"]
    /\ reporter' \in {reporter, [reporter EXCEPT ![r] = "sending"]}
    /\ UNCHANGED <<canceled, tick, last>>

\* The client withdraws the request or the server ends: the context of the
\* handler is done, and progressCtx is derived from it.
Withdraw(r) ==
    /\ handler[r] = "working" /\ ~canceled[r]
    /\ canceled' = [canceled EXCEPT ![r] = TRUE]
    /\ UNCHANGED <<handler, reporter, tick, last>>

\* The ticker drops a tick when the last one still waits.
Tick(r) ==
    /\ reporter[r] \in {"sending", "waiting"}
    /\ tick' = [tick EXCEPT ![r] = TRUE]
    /\ UNCHANGED <<handler, canceled, reporter, last>>

\* NotifyProgress: the notification is written, or lost to the context or to
\* an error that is ignored.  A write under way when the context ends may still
\* reach the client.
Notify(r) ==
    /\ reporter[r] = "sending"
    /\ reporter' = [reporter EXCEPT ![r] = "waiting"]
    /\ last' \in {last, [last EXCEPT ![r] = "progress"]}
    /\ UNCHANGED <<handler, canceled, tick>>

\* The select of the reporter: when both are ready, either is taken.
TakeTick(r) ==
    /\ reporter[r] = "waiting" /\ tick[r]
    /\ reporter' = [reporter EXCEPT ![r] = "sending"]
    /\ tick' = [tick EXCEPT ![r] = FALSE]
    /\ UNCHANGED <<handler, canceled, last>>

TakeDone(r) ==
    /\ reporter[r] = "waiting" /\ canceled[r]
    /\ reporter' = [reporter EXCEPT ![r] = "ended"]
    /\ tick' = [tick EXCEPT ![r] = FALSE]
    /\ UNCHANGED <<handler, canceled, last>>

\* Mutant of Finish: the reporter is not told.
FinishUntold(r) ==
    /\ handler[r] = "working"
    /\ handler' = [handler EXCEPT ![r] = "stopping"]
    /\ UNCHANGED <<canceled, reporter, tick, last>>

\* The service has answered; the deferred stopProgress cancels ...
Finish(r) ==
    /\ handler[r] = "working"
    /\ handler' = [handler EXCEPT ![r] = "stopping"]
    /\ canceled' = [canceled EXCEPT ![r] = TRUE]
    /\ UNCHANGED <<reporter, tick, last>>

\* Mutant of Reply: the handler does not wait for its reporter.
ReplyAtOnce(r) ==
    /\ handler[r] = "stopping"
    /\ handler' = [handler EXCEPT ![r] = "done"]
    /\ last' = [last EXCEPT ![r] = "answer"]
    /\ UNCHANGED <<canceled, reporter, tick>>

\* ... and waits for the reporter, and only then the SDK sends the result.
Reply(r) ==
    /\ handler[r] = "stopping"
    /\ reporter[r] \in {"none", "ended"}
    /\ handler' = [handler EXCEPT ![r] = "done"]
    /\ last' = [last EXCEPT ![r] = "answer"]
    /\ UNCHANGED <<canceled, reporter, tick>>

ProgressNext ==
    \E r \in Requests :
       \/ Receive(r) \/ Withdraw(r) \/ Tick(r)
       \/ Notify(r) \/ TakeTick(r) \/ TakeDone(r)
       \/ Finish(r) \/ Reply(r)

\* The service ends every request (its runs have a deadline), goroutines run,
\* a write to the client or its failure ends.  A ready channel of a select is
\* not passed over forever: the choice is random.
ProgressFairness ==
    \A r \in Requests :
       /\ WF_progressVars(Finish(r)) /\ WF_progressVars(Reply(r))
       /\ WF_progressVars(Notify(r)) /\ SF_progressVars(TakeDone(r))

ProgressSpec == ProgressInit /\ [][ProgressNext]_progressVars /\ ProgressFairness

-----------------------------------------------------------------------------
\* No notification follows the answer of its request, whatever the ticker and
\* the select do while the handler stops: a client may forget the token.
AnswerIsLast ==
    \A r \in Requests :
       handler[r] = "done" => last[r] = "answer" /\ reporter[r] \in {"none", "ended"}

\* Waiting for the reporter does not keep the answer back forever, even when
\* ticks and the end of the context compete.
AnswerComes ==
    \A r \in Requests : handler[r] = "working" ~> handler[r] = "done"
=============================================================================
