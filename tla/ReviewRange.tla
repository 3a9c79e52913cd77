----------------------------- MODULE ReviewRange ----------------------------
(***************************************************************************)
(* What the turns of one review show Claude of a repository that is edited *)
(* while they are prepared.  A turn runs several git commands after each   *)
(* other (rev-parse, diff, ls-files) and each sees the repository of its   *)
(* own moment: the base reference may move, and files may be written,      *)
(* staged and committed in between.                                        *)
(*                                                                         *)
(* A file has one of a few contents; the limits of the diff and the        *)
(* private keys that make prepareDiff fail are failures of git here.  The  *)
(* request holds the lease of the review (ReviewService), so its turns     *)
(* follow each other.                                                      *)
(***************************************************************************)
EXTENDS ReviewRecord, Sequences

CONSTANTS
    Files,
    InScope,      \* what include_paths and exclude_paths select
    Sensitive,    \* the files with a SensitiveFilename
    Contents,
    NoFile,       \* the content of a file that is not there
    NoCommit,     \* a reference to nothing, and BaseSHAAtStart = ""
    MaxCommits,   \* bound: commits of the repository
    MaxTurns      \* bound: prompts of the review

ContentOrNone == Contents \cup {NoFile}

Trees == [Files -> ContentOrNone]

Commits == 1..MaxCommits

ASSUME RangeAssumption ==
    /\ InScope \subseteq Files
    /\ NoFile \notin Contents
    /\ MaxCommits \in Nat \ {0}
    /\ NoCommit \notin Commits
    /\ MaxTurns \in Nat

VARIABLES
    \* the repository
    trees,       \* the trees of its commits
    ref,         \* the commit BaseRef names
    index,       \* the tracked files
    work,        \* the working tree
    \* the review
    record,      \* its record, without BaseSHAAtStart
    base,        \* ... which is here
    legacy,      \* a version that recorded no commit began the review
    turns,       \* how many prompts Claude was given for it
    \* the turn being prepared, or run
    pc,
    kind,        \* its ActiveOperation
    resolved,    \* the commit ResolveCommit found
    against,     \* the commit git diff compared with
    diff,        \* the files git diff reported
    untracked,   \* the files git ls-files reported
    steady       \* files that were reviewable ever since, and not staged

repository == <<trees, ref, index, work>>
review == <<record, base, legacy, turns>>
turn == <<kind, resolved, against, diff, untracked, steady>>
rangeVars == <<repository, review, pc, turn>>

-----------------------------------------------------------------------------
(* What git reports.                                                       *)

\* A file as git diff <commit> sees it.
Tracked(f) == IF f \in index THEN work[f] ELSE NoFile

Untracked(f) == f \notin index /\ work[f] # NoFile

Differs(f, commit) == Tracked(f) # trees[commit][f]

Reviewable(f) == f \in InScope /\ (Differs(f, against) \/ Untracked(f))

\* A legacy record lacks other fields too; none of them matters here.
RangeInit ==
    /\ \E tree \in Trees :
          /\ trees = <<tree>>
          /\ work = tree
          /\ index = {f \in Files : tree[f] # NoFile}
    /\ ref = 1
    /\ legacy \in BOOLEAN
    /\ \/ ~legacy /\ record = Unused
       \/ legacy /\ record \in {Completed(NewRecord, s) : s \in SessionIds}
    /\ base = NoCommit /\ turns = 0
    /\ pc = "idle" /\ kind = "initial"
    /\ resolved = NoCommit /\ against = NoCommit
    /\ diff = {} /\ untracked = {} /\ steady = {}

-----------------------------------------------------------------------------
(* The user and the coding agent, who go on working meanwhile.             *)

Edited ==
    /\ UNCHANGED <<review, pc, kind, resolved, against, diff, untracked>>
    /\ steady' = {f \in steady : Reviewable(f)' /\ (f \in index' => f \in index)}

Edit(f) ==
    /\ \E content \in ContentOrNone : work' = [work EXCEPT ![f] = content]
    /\ UNCHANGED <<trees, ref, index>>
    /\ Edited

Stage(f) ==
    /\ Untracked(f)
    /\ index' = index \cup {f}
    /\ UNCHANGED <<trees, ref, work>>
    /\ Edited

Unstage(f) ==
    /\ index' = index \ {f}
    /\ UNCHANGED <<trees, ref, work>>
    /\ Edited

\* commit --all, on the branch BaseRef names or on another.
Commit ==
    /\ Len(trees) < MaxCommits
    /\ trees' = Append(trees, [f \in Files |-> Tracked(f)])
    /\ ref' \in {ref, Len(trees) + 1}
    /\ index' = {f \in index : work[f] # NoFile}
    /\ UNCHANGED work
    /\ Edited

\* A fetch, a rebase, a deleted branch.
MoveRef ==
    /\ ref' \in 1..Len(trees) \cup {NoCommit}
    /\ UNCHANGED <<trees, index, work>>
    /\ Edited

-----------------------------------------------------------------------------
(* The preparation of a turn.                                              *)

Step(from, to) == pc = from /\ pc' = to

\* The locals of a turn end with it.
EndTurn ==
    /\ pc' = "idle" /\ kind' = "initial"
    /\ resolved' = NoCommit /\ against' = NoCommit
    /\ diff' = {} /\ untracked' = {} /\ steady' = {}

StartInitial ==
    /\ Step("idle", "resolve")
    /\ record = Unused
    /\ UNCHANGED <<repository, review, turn>>

\* Mutant of StartLater: the review is marked pending before git is asked.
StartLaterMarked(op) ==
    /\ Step("idle", "diff")
    /\ record # Unused
    /\ IF op = "continuation" THEN CanContinue(record) ELSE CanRetry(record)
    /\ kind' = op
    /\ record' = IF op = "continuation" THEN Continuing(record) ELSE Retrying(record)
    /\ UNCHANGED <<repository, base, legacy, turns>>
    /\ UNCHANGED <<resolved, against, diff, untracked, steady>>

\* A continuation with refresh_diff, or a quota retry.
StartLater(op) ==
    /\ Step("idle", "diff")
    /\ record # Unused
    /\ IF op = "continuation" THEN CanContinue(record) ELSE CanRetry(record)
    /\ kind' = op
    /\ UNCHANGED <<repository, review, resolved, against, diff, untracked, steady>>

Resolve ==
    /\ Step("resolve", "diff")
    /\ ref # NoCommit
    /\ resolved' = ref
    /\ UNCHANGED <<repository, review, kind, against, diff, untracked, steady>>

\* Mutant of reviewBase: a later turn compares with the reference again.
reviewBaseMoving == ref

\* What a later turn compares with: the recorded commit, or the reference when
\* none was recorded.
reviewBase == IF base # NoCommit THEN base ELSE ref

\* Git.Diff, for the first turn with BaseRef as it was given.
Diff ==
    /\ Step("diff", "list")
    /\ against' = IF kind = "initial" THEN ref ELSE reviewBase
    /\ against' # NoCommit
    /\ diff' = {f \in InScope : Differs(f, against')}
    /\ steady' = {f \in InScope : Differs(f, against') \/ Untracked(f)}
    /\ UNCHANGED <<repository, review, kind, resolved, untracked>>

\* Mutant of List: sensitive untracked files are dropped, not reported.
ListSafe ==
    /\ Step("list", "decide")
    /\ untracked' = {f \in InScope : Untracked(f) /\ f \notin Sensitive}
    /\ UNCHANGED <<repository, review, kind, resolved, against, diff, steady>>

\* Git.UntrackedFiles
List ==
    /\ Step("list", "decide")
    /\ untracked' = {f \in InScope : Untracked(f)}
    /\ UNCHANGED <<repository, review, kind, resolved, against, diff, steady>>

\* SanitizeDiff and FilterUntracked.
shown == diff \ Sensitive
safeUntracked == untracked \ Sensitive
excluded == (diff \cup untracked) \cap Sensitive

\* Mutant of Nothing: untracked files do not count.
NothingTracked ==
    /\ kind = "initial" \/ (kind = "quota_retry" /\ record.session = NoSession)
    /\ shown = {}

\* A conversation is not begun about nothing.
Nothing ==
    /\ kind = "initial" \/ (kind = "quota_retry" /\ record.session = NoSession)
    /\ shown = {} /\ safeUntracked = {}

\* empty_review_scope
Empty ==
    /\ pc = "decide" /\ Nothing
    /\ EndTurn
    /\ UNCHANGED <<repository, review>>

\* Any command may fail: a missing reference, a diff too large, a private key,
\* the deadline of the request, the store.
GiveUp ==
    /\ pc \in {"resolve", "diff", "list", "decide"}
    /\ EndTurn
    /\ UNCHANGED <<repository, review>>

\* The record is written and Claude is given a prompt: the diff against the
\* commit, what is shown, and the names of the untracked and excluded files.
Send ==
    /\ Step("decide", "running")
    /\ ~Nothing /\ turns < MaxTurns
    /\ record' = CASE kind = "initial" -> NewRecord
                   [] kind = "continuation" -> Continuing(record)
                   [] OTHER -> Retrying(record)
    /\ base' = IF kind = "initial" THEN resolved ELSE base
    /\ turns' = turns + 1
    /\ UNCHANGED <<repository, legacy, turn>>

Finish ==
    /\ pc = "running"
    /\ record' \in Outcomes(record)
    /\ EndTurn
    /\ UNCHANGED <<repository, base, legacy, turns>>

RangeNext ==
    \/ StartInitial
    \/ \E op \in LaterOperations : StartLater(op)
    \/ Resolve \/ Diff \/ List \/ Empty \/ GiveUp \/ Send \/ Finish
    \/ \E f \in Files : Edit(f) \/ Stage(f) \/ Unstage(f)
    \/ Commit \/ MoveRef

RangeSpec == RangeInit /\ [][RangeNext]_rangeVars

-----------------------------------------------------------------------------
\* Every variable keeps to what git and the service may make of it.
RangeTypeOK ==
    /\ trees \in Seq(Trees) /\ Len(trees) \in Commits
    /\ ref \in 1..Len(trees) \cup {NoCommit}
    /\ index \subseteq Files
    /\ work \in Trees
    /\ record \in Record \cup {Unused}
    /\ base \in 1..Len(trees) \cup {NoCommit}
    /\ legacy \in BOOLEAN
    /\ turns \in Nat
    /\ pc \in {"idle", "resolve", "diff", "list", "decide", "running"}
    /\ kind \in Operations
    /\ resolved \in 1..Len(trees) \cup {NoCommit}
    /\ against \in 1..Len(trees) \cup {NoCommit}
    /\ diff \subseteq InScope /\ untracked \subseteq InScope /\ steady \subseteq InScope

\* Continuations and quota retries compare with the commit that was recorded
\* when the review began, wherever its reference has moved since, unless a
\* version of the program that recorded none began it.
LaterRangeIsRecorded ==
    pc = "running" /\ kind # "initial" /\ ~legacy => against = base

\* No file falls between two commands: one that is reviewable from the diff to
\* the end of the listing is shown, named or reported as excluded, unless it
\* was staged in between.  (A file staged then is in neither report.)
NothingMissed ==
    pc = "decide" => steady \subseteq shown \cup safeUntracked \cup excluded

\* An empty scope is only reported of a scope without anything to review.
EmptyIsEmpty == [][Empty => steady \subseteq Sensitive]_rangeVars

\* However far a preparation came before it failed, it leaves no review behind
\* that looks pending and that nobody works on.
FailedTurnIsUndone ==
    pc # "running" /\ record # Unused => record.status # "pending"
=============================================================================
