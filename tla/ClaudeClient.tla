---------------------------- MODULE ClaudeClient ----------------------------
(***************************************************************************)
(* Runs of the Claude command line (claude.CLIClient.Run): the shared      *)
(* authentication check, the child process and its output, the deadline    *)
(* and the cancellation that race them, and the classification of what     *)
(* came out.  Each element of Runs is one call of Run; several calls share *)
(* the client and so the authentication cache behind its mutex.            *)
(*                                                                         *)
(* The child's output is a sequence of lines.  A line is what ParseStream  *)
(* makes of it: the session it names, the rate limit it announces or the   *)
(* result it carries.  Output is limited by lines where the code counts    *)
(* bytes.  Descendants of the child that leave its process group are       *)
(* outside the model.                                                      *)
(***************************************************************************)
EXTENDS Naturals, Sequences

CONSTANTS
    Runs,          \* calls of Run
    NoRun,         \* nobody holds authMu
    SessionIds,
    NoSession,
    Lines,         \* the lines the child may write
    MaxLines,      \* MaxOutputBytes, in lines
    MaxPipe        \* bound: lines written and not read yet

SessionOrNone == SessionIds \cup {NoSession}

\* A line of the child's output; the fields not of its type are ignored.
Line ==
    [type     : {"system", "rate_limit_event", "result", "long"},
     session  : SessionOrNone,
     status   : {"", "allowed", "rejected"},  \* rate_limit_info.status
     reset    : BOOLEAN,                      \* resetsAt is given
     isError  : BOOLEAN,
     maxTurns : BOOLEAN,
     api      : {"", "429", "other"},         \* api_error_status
     output   : BOOLEAN]                      \* a structured output

ASSUME ClientAssumption ==
    /\ NoRun \notin Runs
    /\ NoSession \notin SessionIds
    /\ Lines \subseteq Line
    /\ MaxLines \in Nat
    /\ MaxPipe \in Nat

VARIABLES
    pc,        \* where each call is
    resumed,   \* Request.SessionID of each call
    ctx,       \* its context: live, or why it is over
    proc,      \* its child process
    pipe,      \* lines written and not read yet
    read,      \* lines read
    out,       \* the StreamResult so far
    parse,     \* parseErr
    err,       \* what the call returned
    authOK,    \* the cached verdict of `claude auth status`
    authMu     \* the call that holds the mutex

vars == <<pc, resumed, ctx, proc, pipe, read, out, parse, err, authOK, authMu>>

StreamResult ==
    [session : SessionOrNone, status : {"", "allowed", "rejected"}, reset : BOOLEAN,
     isError : BOOLEAN, maxTurns : BOOLEAN, api : {"", "429", "other"}, output : BOOLEAN]

EmptyResult ==
    [session |-> NoSession, status |-> "", reset |-> FALSE, isError |-> FALSE,
     maxTurns |-> FALSE, api |-> "", output |-> FALSE]

Init ==
    /\ pc = [r \in Runs |-> "idle"]
    /\ resumed = [r \in Runs |-> NoSession]
    /\ ctx = [r \in Runs |-> "live"]
    /\ proc = [r \in Runs |-> "none"]
    /\ pipe = [r \in Runs |-> <<>>]
    /\ read = [r \in Runs |-> 0]
    /\ out = [r \in Runs |-> EmptyResult]
    /\ parse = [r \in Runs |-> "ok"]
    /\ err = [r \in Runs |-> "none"]
    /\ authOK = FALSE
    /\ authMu = NoRun

Step(r, from, to) == pc[r] = from /\ pc' = [pc EXCEPT ![r] = to]

Return(r, kind) == err' = [err EXCEPT ![r] = kind]

-----------------------------------------------------------------------------
(* The context: WithTimeout of the caller's context.                       *)

InProgress(r) == pc[r] \notin {"idle", "done"}

Expire(r) ==
    /\ InProgress(r) /\ ctx[r] = "live"
    /\ ctx' = [ctx EXCEPT ![r] = "deadline"]
    /\ UNCHANGED <<pc, resumed, proc, pipe, read, out, parse, err, authOK, authMu>>

Cancel(r) ==
    /\ InProgress(r) /\ ctx[r] = "live"
    /\ ctx' = [ctx EXCEPT ![r] = "canceled"]
    /\ UNCHANGED <<pc, resumed, proc, pipe, read, out, parse, err, authOK, authMu>>

-----------------------------------------------------------------------------
(* checkAuth, under authMu.  Waiting for the mutex ignores the context.    *)

Begin(r) ==
    /\ Step(r, "idle", "lock")
    /\ \E s \in SessionOrNone : resumed' = [resumed EXCEPT ![r] = s]
    /\ UNCHANGED <<ctx, proc, pipe, read, out, parse, err, authOK, authMu>>

LockAuth(r) ==
    /\ authMu = NoRun
    /\ Step(r, "lock", "auth")
    /\ authMu' = r
    /\ UNCHANGED <<resumed, ctx, proc, pipe, read, out, parse, err, authOK>>

AuthCached(r) ==
    /\ authOK
    /\ Step(r, "auth", "start")
    /\ authMu' = NoRun
    /\ UNCHANGED <<resumed, ctx, proc, pipe, read, out, parse, err, authOK>>

\* `claude auth status` ends by itself, and does not say loggedIn: false.
AuthSucceeds(r) ==
    /\ ~authOK /\ ctx[r] = "live"
    /\ Step(r, "auth", "start")
    /\ authOK' = TRUE
    /\ authMu' = NoRun
    /\ UNCHANGED <<resumed, ctx, proc, pipe, read, out, parse, err>>

\* It reports no login, or cannot be run.
AuthFails(r) ==
    /\ ~authOK
    /\ Step(r, "auth", "done")
    /\ Return(r, "not_authenticated")
    /\ authMu' = NoRun
    /\ UNCHANGED <<resumed, ctx, proc, pipe, read, out, parse, authOK>>

\* Mutant of AuthInterrupted: the error return keeps the mutex.
AuthInterruptedLocked(r) ==
    /\ ~authOK /\ ctx[r] # "live"
    /\ Step(r, "auth", "done")
    /\ Return(r, "not_authenticated")
    /\ UNCHANGED <<resumed, ctx, proc, pipe, read, out, parse, authOK, authMu>>

\* It is killed with the context, which is reported as a failed login too.
AuthInterrupted(r) ==
    /\ ~authOK /\ ctx[r] # "live"
    /\ Step(r, "auth", "done")
    /\ Return(r, "not_authenticated")
    /\ authMu' = NoRun
    /\ UNCHANGED <<resumed, ctx, proc, pipe, read, out, parse, authOK>>

-----------------------------------------------------------------------------
(* The child process.                                                      *)

\* It runs with its output open, or closed already.
Alive(r) == proc[r] \in {"running", "silent"}

Start(r) ==
    /\ ctx[r] = "live"
    /\ Step(r, "start", "stream")
    /\ proc' = [proc EXCEPT ![r] = "running"]
    /\ UNCHANGED <<resumed, ctx, pipe, read, out, parse, err, authOK, authMu>>

\* No binary, no pipe, or a context that is over already.
StartFails(r) ==
    /\ Step(r, "start", "done")
    /\ Return(r, "process")
    /\ UNCHANGED <<resumed, ctx, proc, pipe, read, out, parse, authOK, authMu>>

Write(r, line) ==
    /\ proc[r] = "running" /\ Len(pipe[r]) < MaxPipe
    /\ pipe' = [pipe EXCEPT ![r] = Append(@, line)]
    /\ UNCHANGED <<pc, resumed, ctx, proc, read, out, parse, err, authOK, authMu>>

\* It closes its output and lives on.
ClosesOutput(r) ==
    /\ proc[r] = "running"
    /\ proc' = [proc EXCEPT ![r] = "silent"]
    /\ UNCHANGED <<pc, resumed, ctx, pipe, read, out, parse, err, authOK, authMu>>

ProcessExits(r) ==
    /\ Alive(r)
    /\ \E status \in {"success", "failure"} : proc' = [proc EXCEPT ![r] = status]
    /\ UNCHANGED <<pc, resumed, ctx, pipe, read, out, parse, err, authOK, authMu>>

Killed(r) == proc' = [proc EXCEPT ![r] = IF Alive(r) THEN "killed" ELSE @]

\* cmd.Cancel, called by the watcher of the context.
CancelKills(r) ==
    /\ ctx[r] # "live" /\ Alive(r)
    /\ Killed(r)
    /\ UNCHANGED <<pc, resumed, ctx, pipe, read, out, parse, err, authOK, authMu>>

-----------------------------------------------------------------------------
(* ParseStream.                                                            *)

\* One line: the first session wins, the last rate limit and the last verdict
\* of a result count; a reset time, an API status and an output stay until
\* another line gives a new one.
Scanned(o, line) ==
    [session  |-> IF o.session = NoSession THEN line.session ELSE o.session,
     status   |-> IF line.type = "rate_limit_event" THEN line.status ELSE o.status,
     reset    |-> o.reset \/ (line.type = "rate_limit_event" /\ line.reset),
     isError  |-> IF line.type = "result" THEN line.isError ELSE o.isError,
     maxTurns |-> IF line.type = "result" THEN line.maxTurns ELSE o.maxTurns,
     api      |-> IF line.type = "result" /\ line.api # "" THEN line.api ELSE o.api,
     output   |-> o.output \/ (line.type = "result" /\ line.output)]

ScanLine(r) ==
    /\ pc[r] = "stream" /\ pipe[r] # <<>>
    /\ read[r] < MaxLines
    /\ Head(pipe[r]).type # "long"
    /\ out' = [out EXCEPT ![r] = Scanned(@, Head(pipe[r]))]
    /\ pipe' = [pipe EXCEPT ![r] = Tail(@)]
    /\ read' = [read EXCEPT ![r] = @ + 1]
    /\ UNCHANGED <<pc, resumed, ctx, proc, parse, err, authOK, authMu>>

\* A line that does not fit the scanner's buffer ends the scan with
\* bufio.ErrTooLong, more output than allowed with ErrOutputTooLarge.
\* Either way the process group is killed.
Overflow(r) ==
    IF read[r] = MaxLines THEN "too_large" ELSE "unreadable"

\* Mutant of ScanFails: Run returns without killing and reaping the child.
ScanFailsAtOnce(r) ==
    /\ pipe[r] # <<>>
    /\ read[r] = MaxLines \/ Head(pipe[r]).type = "long"
    /\ Step(r, "stream", "done")
    /\ parse' = [parse EXCEPT ![r] = Overflow(r)]
    /\ Return(r, IF read[r] = MaxLines THEN "output_too_large" ELSE "invalid_output")
    /\ UNCHANGED <<resumed, ctx, proc, pipe, read, out, authOK, authMu>>

ScanFails(r) ==
    /\ pipe[r] # <<>>
    /\ read[r] = MaxLines \/ Head(pipe[r]).type = "long"
    /\ Step(r, "stream", "wait")
    /\ parse' = [parse EXCEPT ![r] = Overflow(r)]
    /\ Killed(r)
    /\ UNCHANGED <<resumed, ctx, pipe, read, out, err, authOK, authMu>>

\* End of file: everything the child wrote has been read, and it has closed its
\* output or is gone.
ScanEnds(r) ==
    /\ pipe[r] = <<>> /\ proc[r] # "running"
    /\ Step(r, "stream", "wait")
    /\ UNCHANGED <<resumed, ctx, proc, pipe, read, out, parse, err, authOK, authMu>>

-----------------------------------------------------------------------------
(* The classification of a run that is over.                               *)

QuotaRejected(o) == o.status = "rejected" \/ o.api = "429"

\* An answer that a rejection or the turn limit does not spoil.
Usable(o) == o.output /\ ~o.isError

\* What is wrong with an otherwise successful run, in the order of the checks.
\* A resumed conversation must not name another session; it may name none.
Flaw(r) ==
    LET o == out[r] IN
    IF resumed[r] = NoSession /\ o.session = NoSession THEN "session_missing"
    ELSE IF resumed[r] # NoSession /\ o.session \notin {NoSession, resumed[r]}
           THEN "invalid_output"
    ELSE IF ~o.output THEN "invalid_output" ELSE "nil"

\* What the stream and the exit status say once the context and the parser
\* have no complaint.
Verdict(r) ==
    IF QuotaRejected(out[r]) /\ ~Usable(out[r]) THEN "quota_exceeded"
    ELSE IF out[r].maxTurns /\ ~Usable(out[r]) THEN "max_turns"
    ELSE IF proc[r] # "success" THEN "process" ELSE Flaw(r)

\* Mutant of Kind: the stream is judged before the context.
KindByStream(r) ==
    IF parse[r] = "too_large" THEN "output_too_large"
    ELSE IF parse[r] = "unreadable" THEN "invalid_output"
    ELSE IF Verdict(r) # "nil" THEN Verdict(r)
    ELSE IF ctx[r] = "deadline" THEN "timeout"
    ELSE IF ctx[r] = "canceled" THEN "canceled" ELSE "nil"

\* The context comes first: it explains a killed child and a broken stream.
Kind(r) ==
    IF ctx[r] = "deadline" THEN "timeout"
    ELSE IF ctx[r] = "canceled" THEN "canceled"
    ELSE IF parse[r] = "too_large" THEN "output_too_large"
    ELSE IF parse[r] = "unreadable" THEN "invalid_output" ELSE Verdict(r)

\* cmd.Wait has returned, which reaps the child.
Classify(r) ==
    /\ ~Alive(r)
    /\ Step(r, "wait", "done")
    /\ Return(r, Kind(r))
    /\ UNCHANGED <<resumed, ctx, proc, pipe, read, out, parse, authOK, authMu>>

-----------------------------------------------------------------------------
\* What a call does by itself, and what is up to its caller and its children.
Proceed(r) ==
    \/ LockAuth(r) \/ AuthCached(r) \/ AuthInterrupted(r)
    \/ Start(r) \/ StartFails(r)
    \/ ScanLine(r) \/ ScanFails(r) \/ ScanEnds(r)
    \/ CancelKills(r) \/ Classify(r)

Environment(r) ==
    \/ Begin(r) \/ Cancel(r)
    \/ AuthSucceeds(r) \/ AuthFails(r) \/ ClosesOutput(r) \/ ProcessExits(r)
    \/ \E line \in Lines : Write(r, line)

Next == \E r \in Runs : Proceed(r) \/ Expire(r) \/ Environment(r)

Spec == Init /\ [][Next]_vars

\* Calls proceed and deadlines pass; the children may hang for ever.
FairSpec == Spec /\ \A r \in Runs : WF_vars(Proceed(r)) /\ WF_vars(Expire(r))

-----------------------------------------------------------------------------
Errors ==
    {"not_authenticated", "process", "timeout", "canceled", "output_too_large",
     "invalid_output", "quota_exceeded", "max_turns", "session_missing"}

TypeOK ==
    /\ pc \in [Runs -> {"idle", "lock", "auth", "start", "stream", "wait", "done"}]
    /\ resumed \in [Runs -> SessionOrNone]
    /\ ctx \in [Runs -> {"live", "deadline", "canceled"}]
    /\ proc \in [Runs -> {"none", "running", "silent", "success", "failure", "killed"}]
    /\ pipe \in [Runs -> Seq(Lines)]
    /\ read \in [Runs -> 0..MaxLines]
    /\ out \in [Runs -> StreamResult]
    /\ parse \in [Runs -> {"ok", "too_large", "unreadable"}]
    /\ err \in [Runs -> Errors \cup {"none", "nil"}]
    /\ authOK \in BOOLEAN
    /\ authMu \in Runs \cup {NoRun}

Done(r) == pc[r] = "done"

\* No call returns and leaves its child running behind it, whichever way the
\* stream, the deadline and the exit of the child race.
NoChildLeft == \A r \in Runs : Done(r) => ~Alive(r)

\* A call whose context ended while its child ran says so: the broken stream
\* and the exit status of a child killed for it are never reported as a fault
\* of Claude, and never as an answer.
InterruptionsAreNamed ==
    \A r \in Runs :
       Done(r) /\ proc[r] # "none" =>
          /\ ctx[r] = "deadline" <=> err[r] = "timeout"
          /\ ctx[r] = "canceled" <=> err[r] = "canceled"
          /\ proc[r] = "killed" =>
                err[r] \in {"timeout", "canceled", "output_too_large", "invalid_output"}

\* A rejected run without an answer is reported as a quota rejection, which the
\* service can retry, however the child exits: only the end of the context or
\* of the stream comes first.
RejectionsAreRetryable ==
    \A r \in Runs :
       Done(r) /\ proc[r] # "none" /\ QuotaRejected(out[r]) /\ ~Usable(out[r]) =>
          err[r] \in {"quota_exceeded", "timeout", "canceled"} \/ parse[r] # "ok"

\* The session executeReview stores: the reported one, or else the requested.
StoredSession(r) ==
    IF out[r].session = NoSession THEN resumed[r] ELSE out[r].session

\* An answer belongs to a conversation, and the answer of a resumed
\* conversation to that one (AnsweredBy in ReviewRecord).
AnswersKeepTheirConversation ==
    \A r \in Runs : err[r] = "nil" =>
       StoredSession(r) \in
          (IF resumed[r] = NoSession THEN SessionIds ELSE {resumed[r]})

\* Every call ends, also when its child hangs, when it waits for the mutex of
\* the authentication check, and when that check fails for the call before it.
RunsEnd == \A r \in Runs : InProgress(r) ~> Done(r)

-----------------------------------------------------------------------------
(* Statements of the documentation the code does not meet.                 *)

\* README, "Core Guarantees": "resumed output must report the same Claude
\* session ID as the requested one".
ResumedSessionIsReported ==
    \A r \in Runs :
       err[r] = "nil" /\ resumed[r] # NoSession => out[r].session = resumed[r]

\* README, on quota rejections: "A bare HTTP 429 remains immediately retryable
\* because no reset time is known".  A rejection no rate_limit_event announced
\* carries no reset time.
BareRejectionIsRetryable ==
    \A r \in Runs :
       err[r] = "quota_exceeded" /\ out[r].status # "rejected" => ~out[r].reset
=============================================================================
