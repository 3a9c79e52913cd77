# TLA+ models of the Claude review relay

The relay is an MCP server that lets one coding agent ask Claude Code for an
independent review of a Git diff, and keep asking in the same Claude
conversation. A review outlives the request that started it, the server process
that ran it and often several quota rejections; several server processes share
one data directory. These modules describe how the pieces keep a review in one
consistent state through all of that, and TLC and TLAPS check the description.

## 1. Inventory

| Part (source) | State it keeps | Operations | Interacts with |
| --- | --- | --- | --- |
| Review service (`internal/reviewer/service.go`) | `sessionLocks.values`, `workerWG`, `shuttingDown`; a copy of one record per operation | `ReviewDiff`, `StartReview`, `ContinueReview`, `StartContinueReview`, `StartRetryReview`, `GetReviewStatus`, `CloseReview`, `RecoverStaleWorkers`, `BeginShutdown`, `WaitForWorkers`; the read-only `GetReview`, `ListReviews` | store, lease, Claude client, Git service |
| Review record (`internal/session/model.go`) | status, active operation, Claude session, response sequence, retry operation and time | changed by the service only, always written whole | |
| JSON store (`internal/session/json_store.go`) | `sessions.json`, `.sessions.lock`, a temporary file during a save; a mutex per process | `Create`, `Get`, `Update`, `Delete`, `List`, `Validate` | file system, other processes |
| Review lease (`internal/session/lease.go`) | one lock file per review, an advisory lock on its inode | acquire (never waits), release, removal after a delete | other processes, the operating system |
| Claude client (`internal/claude/client.go`) | `authOK` behind `authMu`; a child process per run | `Run` | the `claude` command |
| Stream parser (`internal/claude/parser.go`) | the `StreamResult` so far | `ParseStream` | the child's standard output |
| Entry point (`cmd/claude-reviewer/main.go`) | the worker context | reconcile, serve, stop accepting launches, cancel, wait, exit | service, MCP library |
| MCP server (`internal/mcp/server.go`) | a progress goroutine per synchronous call | one tool per service method | service |
| Git service, redaction, response schema, prompts | none | compute, filter, validate and format | service |
| Configuration, doctor, smoke test, application errors | none | startup and diagnostics | |

Hard behaviours: two processes and several goroutines on one review; whole-record
writes minutes after the read; a process killed while a review is pending; a
shutdown racing a launch; a poll that must tell a live worker from a dead one
without disturbing it; lost outcome writes; quota rejections of retries; a
deadline racing an answer; the removal of a locked lease file.

What makes each part correct:

- service and record: one owner per review, no lost update, every pending record
  has somebody who will end it, closing and deleting are final, the conversation
  and the blocked operation are kept, answers are counted;
- lease and lock table: held exactly while needed, on every error path;
- entry point: the wait at shutdown leaves no worker behind, and ends;
- client and parser: the outcome is named by its cause, no child stays behind,
  an answer belongs to the conversation it was asked in, every call ends, a
  stream that was cut off is not used;
- turns: the record a run leaves, the code the client is told and the advice
  that goes with it agree, whatever the run did;
- quota: whoever waits as long as it was told may retry, and a reset time does
  not outlive its rejection;
- Git service and redaction: no file a turn should show falls between two git
  commands, later turns keep the recorded commit, a diff is whole or refused;
- store: a crash leaves the old or the new contents, no update is lost, a call
  that fails has done nothing, every wait for a lock ends;
- lease file: removal and reuse of the file never let two workers at one review;
- MCP server: the answer is the last a client hears of a request, and it comes.

## 2. Modules

| Module | Models |
| --- | --- |
| `ReviewRecord` | the persisted record and every change the service makes to it |
| `ReviewLifecycle` | the abstract specification: reviews with at most one worker each, every change made from the stored record in one step |
| `ReviewService` | server processes, request threads and background workers with in-process locks, leases, separate reads and writes; implements `ReviewLifecycle` |
| `MCReviewService` | instances of `ReviewService` for TLC |
| `ReviewRecordProofs`, `ReviewServiceProofs` | lemmas about the record changes, and the theorems about `ReviewService` |
| `ClaudeClient`, `MCClaudeClient` | calls of `Run`: authentication, child process, stream, deadline and cancellation, classification |
| `ReviewTurn`, `MCReviewTurn`, `ReviewTurnProofs` | a record, one run of `ClaudeClient`, and what `executeReview` makes of the two; the theorems about both modules |
| `StoreCalls`, `SessionMap` | the calls of the store and what they answer; the abstract store, an atomic map |
| `SessionStore`, `SessionStoreProofs` | `json_store.go`: mutex, file lock, load, save; implements `SessionMap` |
| `Lease` | the abstract lease of one review |
| `LeaseFile`, `LeaseFileProofs` | `lease.go`: files, opens, locks, removal; implements `Lease` |
| `MCFiles` | `SessionStore` and `LeaseFile` for TLC |
| `QuotaRetry`, `QuotaRetryProofs` | the reset time of a review against a clock |
| `ReviewRange`, `ReviewRangeProofs` | the git commands of the turns of a review while the repository changes |
| `MCRetries` | `QuotaRetry` and `ReviewRange` for TLC |
| `DiffLimit` | one `git diff` with its pipe and its limited buffer |
| `StreamLimit` | the limits of one stream of Claude's, byte by byte |
| `Progress` | the handler of a synchronous request and its progress reporter |
| `MCWaits` | `SessionStore`, `DiffLimit`, `StreamLimit` and `Progress` for TLC |
| `WaitsProofs` | the theorems about `DiffLimit`, `StreamLimit` and `Progress` |

`ReviewService` takes three things for granted which other modules establish:
an atomic store (`SessionMap`, implemented by `SessionStore`), a lease that
excludes except for deleted reviews (`ServiceSeesLease` of `LeaseFile`), and runs
that end (`RunsEnd` of `ClaudeClient`) in one of `Outcomes` (`TurnEndsAsOutcome`
of `ReviewTurn`).

### ReviewService

A *thread* is a slot for one MCP request together with the worker it may leave
behind; a *server* is the main goroutine of a process. `pc` says where each is.

| Point of a thread | Code |
| --- | --- |
| `create` | `prepareInitialReview` between its lease and `Store.Create` |
| `acquire`, `read`, `write` | `prepareContinuation`, `prepareQuotaRetry`, `CloseReview`: lease, `Get` and the conditions on the record, the write |
| `launch` | `launchReview` looks at `shuttingDown` and counts the worker |
| `run`, `persist` | `executeReview`: the run of Claude, the outcome write (`persistReviewFailure`, `updateDetached`) |
| `unlink`, `release`, `unlock` | removal of the lease file after a delete, the release closure, the in-process lock and `workerWG.Done` |
| `poll`, `reread`, `answer` | `GetReviewStatus` of a pending record: lease, second read, answer and release |

| Point of a server | Code |
| --- | --- |
| `scan`, `reread`, `reconcile`, `release` | `RecoverStaleWorkers` |
| `serving`, `shutdown`, `drained` | `server.Run`, after `BeginShutdown`, after `WaitForWorkers` |
| `down` | no process |

`store` maps identifiers to records (`Unused`: never created, `Deleted`: created
and deleted; the program does not tell these two apart). `lease` is the holder of
the lock on the *current* lease file of a review. A delete removes the file while
its lock is held, so an agent that opened the old file may get a lock that
excludes nobody: `TakeLease` allows this for every deleted review, which includes
a few cases in which the file is still there. `rec` is the copy of the record an
agent holds between its read and its write.

Abstractions. Error returns before the first write are one action, `GiveUp`.
Whether `retry_at` has been reached is a free choice. Response payloads, error
details and timestamps are dropped. Failing to open or lock a lease file for
another reason than a busy lease, and a failing listing at startup, are left out;
failing store reads and writes are covered by `GiveUp`, `LoseOutcome` and
`LoseReconcile`. `workerWG.Done` happens with the in-process unlock, the code
does it right after. Requests that change nothing (`get_review`, `list_reviews`,
a poll of a review that is not pending, a request refused because the in-process
lock is taken) have no action. Whether requests in progress outlive `server.Run`
is up to the MCP library, which is not in this repository: the model lets `Exit`
cut them off and counts that as a fault.

### ClaudeClient

Each element of `Runs` is one call of `Run`. `ctx` is its context, `proc` its
child, `pipe` what the child wrote and nobody read yet, `out` the result so far.
A child may close its output and live on (`silent`): the scan then ends, and the
call waits for the child or for its context in `cmd.Wait`.
A line is a record of what the parser takes from it; `Scanned` is the parser's
rule for each field: first session wins, the last verdict counts, a reset time
and an output stay. `Kind`, `Verdict` and `Flaw` are the checks of `Run` in the
order of the code. Output is limited in lines where the code counts bytes, JSON
decoding, nested session identifiers and the fallback to the result text are
abstracted, descendants of the child outside its process group are left out.

`AnswersKeepTheirConversation` is the fact `ReviewRecord` relies on in
`AnsweredBy`: an answer of a resumed run never changes the stored session.

### ReviewTurn

Extends `ClaudeClient` with the record each run belongs to. A turn begins with
any record the three `prepare` functions can leave, passes its session to the
client, and ends in `Answers`, `AnswersBadly` (the response does not validate) or
`Fails`. `mapError`, `FailedRecord` and `Details` are the three functions that
decide code, record and advice. Writing the record is left to `ReviewService`.

### SessionStore

`pc` is where a call is: `mutex`, `flock`, `load`, `save` (writing the temporary
file), `sync`, `rename`, `syncdir`, `release`, `unlock`. `disk` is what the path
names now, `durable` what it may name after a power loss. Every step that can
fail can fail; a process can be killed, and the power lost, between any two
steps. A call takes effect at its rename, or at its load if it writes nothing.
`save` ignores a directory that cannot be synced, so an acknowledged write may be
undone by a power loss: `SessionMap` says so with `fallback` and `Settle`. A
failing call has no effect, which is why `updateDetached` may try three times.
README.md:194 promises the atomic writes. The file's JSON is abstracted to a map
or a torn file; reading the older file format is the same step.

### LeaseFile

One review, and the agents (requests, workers, scans of any process) that open
its lease file, lock what they opened, read the record, work, delete it, remove
the path and close, dying anywhere. Files are inodes, used again when nothing
refers to them. A request with a fresh identifier is alone with it.

### QuotaRetry

Operations on one review exclude each other, so each is a step here; clients ask,
are told seconds, wait, retry, force, and do not know of each other. The clock
ticks faster than once a second, so rounding shows; `told` is the moment each
client was told to wait for. A pending record may be continued or closed: whoever
gets hold of it under the lease has found that its worker is dead.

### ReviewRange

The steps are single git commands; in between files are written, staged,
unstaged, committed and the base reference moves or vanishes. A file of a commit
and its changed, removed or new version are told apart by their contents; one
content besides absence is enough for the run, since an added, a removed and a
changed file are all just files that differ. `steady` are the files that were
reviewable all the time since the diff and were not staged: those
`NothingMissed` is about. A file staged between the two commands is in neither
report. Scopes, size limits and private keys in a diff are failures of a command.
A review may also begin as the record of an older version (`legacy`), which names
no commit: `reviewBase` falls back to its reference then, which may have moved.

### DiffLimit, StreamLimit, Progress

`DiffLimit` counts the bytes of one diff through a pipe, the copying goroutine of
`os/exec` and `limitedBuffer`; a full buffer goes on taking output so that git is
not left blocked. Its `git` is the process and whatever inherits its output: the
command has no `WaitDelay`, so the copy waits for the last of them. `StreamLimit` has the limited reader and the scanner with its
line buffer, and integers that wrap around: the largest limit plus one is
negative, and such a limit refuses every output. `Progress` has the ticker, the
`select` that takes either of two ready channels, and the wait of the handler for
its reporter. Settings are variables that `Init` chooses and no step changes.

## 3. Runs

| Run | Instance | Shows |
| --- | --- | --- |
| `processes` | two processes, one thread each, one review, two answers, two faults | records, whole-record writes, refinement and the action properties |
| `slots` | two threads in one process, one in another, one answer, one fault | ownership, pending records, polls, shutdown, lock table |
| `liveness` | two processes, one thread each, fair, no faults | requests and shutdowns end, pending ends |
| `stream` | one turn from every pending record, ten kinds of lines, three lines read | classification, children, the record and the advice a run leaves |
| `calls` | two calls sharing the authentication check, fair | every call ends |
| `files` | two processes, two identifiers, one record, two faults; three agents, four lease files | the store is an atomic map and never torn; the lease file is a lease |
| `waits` | three callers of the store in two processes; diffs up to seven bytes under limits up to four; streams up to eight bytes in integers of four bits; one synchronous request; fair | every wait ends, what is taken in is whole |
| `retries` | two clients, three ticks to a second, two rejections; two files, one sensitive, two commits, two prompts, with a recorded commit or without | waits are long enough and current; the range of a review |
| `pending_answer`, `retryable`, `resumed`, `bare_429` | | four disagreements of section 5 |

`MCFiles`, `MCWaits` and `MCRetries` each hold components that share no state.
Every behaviour of such a pair is a shuffle of one behaviour of each, so the runs
let a component move only while the others are in their initial states: the
states add up instead of multiplying, and no property relates two of them.

Bounds. `MaxSequence` limits the answers a client asks for, `MaxFaults` the
processes killed at work, the failing steps and the writes lost, `MaxLines` and
`MaxPipe` the output, `MaxClock`, `MaxRejections` and `MaxAnswers` the history of
a blocked review, `MaxCommits` and `MaxTurns` that of a reviewed repository. One
review is enough for the safety runs: reviews share only the lock table and the
wait group, whose entries for different reviews are independent, and the theorems
hold for any set of reviews. Two answers reach every status from every other one,
two faults allow a crash during the recovery from a crash. Three lines cover an
informational event, a session and a result in any order. Two identifiers show
an update of one record that loses another's; a third lease file suffices for
one agent that removes, one that still holds the old file and one that makes a
new one, and the fourth for the path. Three ticks tell rounding up from rounding
down and from a second too many. The sizes of `waits` put every limit below, at
and above the buffers and outputs around it.

Type invariants: `TypeOK` of `ReviewService` is checked by `slots`; those of the
other modules with proofs are theorems, and TLC does not repeat them.

Symmetry: Claude sessions, the two processes of `processes` and of `files`, the
two threads of one process in `slots`, identifiers, records and agents in `files`,
clients in `retries`. Only runs without liveness properties use it.

Fairness. A goroutine that can run does run (`WF` of each thread's and each main
goroutine's own steps). Running Claude is such a step because `CLIClient.Run`
ends: `RunsEnd` of `ClaudeClient` shows it from the deadline each call has and
from the kill that follows it; there, neither the authentication command nor the
child has to end by itself. Nobody has to send requests, start processes or stop
them. In `SessionStore` the two locks are strongly fair: a Go mutex hands itself
to a goroutine that has waited long, and the kernel wakes the waiters of a file
lock. Overlapping readers can still keep a writer out for ever (it takes three
processes), so `CallsEnd` presumes that reads cease; the instance has a writer
wait for two goroutines of another process behind their mutex. In `DiffLimit` git goes on
while its pipe has room and ends. In `Progress` the end of the context is
strongly fair against ticks because `select` chooses at random; a notification
ends, and so does the service's work.

`CHECK_DEADLOCK FALSE` is used where calls, turns, diffs, streams or requests
that have ended are over, or a review that is closed: `stream`, `calls`, `waits`,
`retries` and the runs about `ClaudeClient`'s disagreements.

## 4. Theorems

For every number of processes, threads, reviews, sessions, answers and faults:

- `InvariantHolds`: `IInv` is inductive. Type correctness and `OneOwner` are not
  inductive by themselves. That the lease excludes others follows from every
  agent that holds it being its recorded holder, except for deleted reviews
  (`OneOwner`); that a copy is current (`CopiesKept`) needs exclusion and in turn
  gives that a settled record is one of `Outcomes` of the stored one, which keeps
  the stored records well formed (`StoreKept`). `BusyHaveReview` ties `pc` to `rid`.
- `TypesHold`, `OwnersAreUnique`, `CopiesStayCurrent`,
  `StoredRecordsAreWellFormed` are its parts.
- `ServiceImplementsLifecycle`: every step of the service is a step of
  `ReviewLifecycle` or a stutter, with `running` the reviews between the pending
  write and the outcome write. `ClosedReviewsStayClosed`,
  `DeletedReviewsStayDeleted`, `SessionsAreKept`, `AnswersAreCounted` and
  `BlockedOperationsAreKept` are proved of the lifecycle's steps and carried over.
- `StoppedReportsAreRight`, `DrainedProcessesAreIdle` (with the invariant that
  `workers` counts exactly the running background workers),
  `PendingReviewsHaveWorkers`, `LocksFollowRequests`.
- `RecordsChangeUnderLease`: a record changes only by a step of the holder of its
  lease, which is at that review, and never once deleted. This is why the step
  between the read and the write of a request can be treated as its own.
- `ShutdownOnlyDrains`: after `BeginShutdown` a process only loses work. It is what
  lets `WaitForWorkers` look at the wait group once.
- `ReviewTurnProofs`. Of `ClaudeClient`: `ClientInvariantHolds` says that what a
  finished call returned is `Kind` of a state that no longer changes;
  `NoChildIsLeft`, `InterruptionsAreReported`, `RejectionsAreReported`,
  `ConversationsAreKept` follow. `TurnsRunClaude` carries them over to turns;
  with them a finished turn is related to the run that ended it, which gives
  `AdviceIsSound`, `RejectionsWait` and `TurnsAreOutcomes`. A turn ends once, and
  the code and the advice its client gets say what the record says
  (`ClientsAreToldTheTruth`): no error for an open review, a quota error exactly
  for a waiting one, resumable exactly where a session is stored.
- `SessionStoreProofs`: a writer that has the file lock has it alone, so the file
  it loaded is still there at its rename (`NoLostUpdate`); files are whole
  (`NeverTorn`); every step is one of the atomic map (`StoreIsMap`). Though every
  writer writes the whole file, it changes its own record only (`OthersAreKept`).
  A power loss can undo an acknowledged write only after a step of the store had
  failed or a process had died in one (`AcknowledgedWritesLast`); until then the
  only write at risk is the one whose caller still waits for `syncdir`.
- `LeaseFileProofs`: an open file that is not the one the path names belongs to a
  deleted review. From this `WorkIsExclusive`, `ServiceIsRight` and the refinement
  `FilesAreLease`. No lock outlives its agent (`LocksEndWithTheirAgents`).
- `QuotaRetryProofs`: a review that waits keeps the time of its last rejection
  (`NoStaleReset`), a client was told a time less than a second after it
  (`TheWaitIsExact`), a run before it was forced (`QuotaIsRespected`), and the
  flag `ReviewRecord` has for the time is true (`FlagIsTrue`).
- `ReviewRangeProofs`: `LaterRangeIsStable`, `FilesAreCovered` (what was reported
  stays a superset of the steady files), `EmptyScopesAreEmpty`, `FailuresAreUndone`.
- `WaitsProofs`. `DiffLimit`: the buffer holds all that was copied until it is
  exceeded and exactly the limit from then on; `DiffTyped` bounds the memory,
  `DiffsAreExact`. `StreamLimit`, for integers of any width: what was read is at
  most the limit and a byte, and nothing where the limit wraps (`StreamTyped`,
  `StreamsAreExact`). `Progress`, for any number of requests: a reporter runs only
  between the start of its handler and the end of its `stopProgress`
  (`AnswersAreLast`).

What is proved towards liveness. That something happens at last needs fairness
and `ENABLED`, out of the prover's reach. Two facts that make up most of such an
argument are not, and are proved for every instance, with crashes and failing
steps:

- nothing goes round in circles: each step of a call lowers a number that nobody
  else raises. `StoreCallsGoForward` (nine steps), `LeasesEnd` (six),
  `ServiceGoesForward` (ten for a request with its worker; a process takes each
  listed review once), `DiffsEnd`, `RunsRunOut`. The last needs what is left of
  points, child, output, lines, room in the pipe and deadline together, because a child
  fills what the scanner empties;
- nobody waits in a circle: `StoreNeverStuck` (the file lock is waited for under
  the mutex, which no holder of the file lock asks for), `ServiceNeverStuck` (locks
  and leases are tried, the record a request is about to write is there, a
  process that stops waits for workers that can go on), `RunsNeverStuck` (a call
  whose context is over does not depend on its child), `HandlersWaitForTheTold`.
  They name the guards of the steps (`CanGo`, `CanWork`, `CanMain`, `CanProceed`),
  each of which is read off the actions.

Assumptions: `NoSessionAssumption`, `AbsentAssumption`, `ServiceAssumption`,
`ClientAssumption`, `TurnAssumption`, `CallsAssumption`, `StoreAssumption`,
`LeaseAssumption`, `QuotaAssumption`, `RangeAssumption`, `DiffAssumption`,
`StreamAssumption`, which only say that special values differ from ordinary ones,
that maps are maps and that bounds and sizes are numbers in their order.

Only model-checked: the liveness properties `RequestsEnd`, `ShutdownEnds`,
`PendingEnds`, `RunsEnd`, `CallsEnd`, `CallReturns` and `AnswerComes`. Every safety
property and every action property the passing runs check is a theorem.

The proof of `OutputIsExact` corrected its statement: the exception for a limit that
wraps around belongs to the limit in force, which may be the default, and not to
the setting.

## 5. Where the code and its documents differ

1. *pending means a background operation is active* (README.md:352). A poll that
   meets another poll of a dead review finds the lease busy and answers pending.
2. *retry an interrupted retry* (README.md:440). A poll reports a dead quota retry
   as interrupted but does not write that down; `start_retry_review` reads the
   pending record and refuses.
3. *resumed output must report the same session* (README.md:200). Output without
   any session is accepted; the stored session stays right.
4. *a bare 429 has no reset time* (README.md:534). It inherits the reset time of an
   earlier informational event.
5. *the original range stays stable if a reference moves* (README.md:466-468). It
   does for later turns (`LaterRangeIsRecorded`). The first turn resolves the
   reference (service.go:200) and then diffs against its name again
   (service.go:204); if it moves in between, that one turn shows another range
   than the one recorded. `ReviewRange` has this step (`Diff` of an initial turn);
   no run is about it.
6. *output over the limit is `claude_output_too_large`* (client_test.go:318, for
   short lines). One line that fills the buffer first is `invalid_claude_output`;
   see the comment of `OutputIsExact`.

Items 1 to 4 are shown by a run each.

## 6. Not modelled

Prompts, the response schema, configuration, the doctor and the smoke test are
sequential, keep no state and mostly read, check or format text: a test says as
much of them as a model would. The same holds of the patterns of the redaction,
of the check of references and path scopes, of JSON decoding and of error
wording, which appear as the sets and failures the steps above distinguish. The
MCP library is outside. An orphaned `claude` process of a killed server only reads
and cannot reach the store. Whether the authentication command of the client
leaves a descendant behind that keeps its output open is up to that command.

## 7. Plan

Done: record, lifecycle, service, client, turns, store, lease file, quota times,
ranges, limits and progress, with the theorems of section 4. Left for later:

1. A composition of `SessionStore` with two steps of `ReviewService` (read and
   write) that replaces the step-by-step argument by which `ReviewService` treats
   store calls as atomic.
2. Writers against overlapping readers of three processes, to show the starvation
   that the premise of `CallsEnd` excludes.
