-------------------------- MODULE ReviewRangeProofs -------------------------
(***************************************************************************)
(* The turns of a review in a repository that is edited meanwhile, for any *)
(* files, contents, commits and number of turns.                           *)
(***************************************************************************)
EXTENDS ReviewRange, ReviewRecordProofs

\* What a preparation was started on still holds when it is sent, a run works on
\* a pending record, and a review of this version has recorded its commit.
RecordFollows ==
    /\ record # Unused => WellFormed(record)
    /\ FailedTurnIsUndone
    /\ pc = "running" => record # Unused /\ record.status = "pending"
    /\ record # Unused /\ ~legacy => base # NoCommit
    /\ pc \in {"resolve", "diff", "list", "decide"} =>
          /\ kind = "initial" => record = Unused
          /\ kind = "continuation" => record # Unused /\ CanContinue(record)
          /\ kind = "quota_retry" => record # Unused /\ CanRetry(record)

\* git diff has compared with a commit, a later turn with the recorded one; the
\* first turn knows the commit to record.
RangeFollows ==
    /\ pc \in {"list", "decide", "running"} =>
          /\ against # NoCommit
          /\ kind # "initial" /\ ~legacy => against = base
    /\ pc \in {"diff", "list", "decide"} /\ kind = "initial" => resolved # NoCommit
    /\ pc \notin {"list", "decide", "running"} => steady = {}
    /\ pc \in {"idle", "resolve"} => kind = "initial"

\* A steady file that is not in the diff is one git has never heard of: it is
\* still untracked when the files are listed.
SteadyFollows ==
    /\ pc = "list" =>
          \A f \in steady \ diff : Untracked(f) /\ trees[against][f] = NoFile
    /\ pc = "decide" => steady \subseteq diff \cup untracked

IInv == RangeTypeOK /\ RecordFollows /\ RangeFollows /\ SteadyFollows

-----------------------------------------------------------------------------
LEMMA RangeConstants ==
    /\ InScope \subseteq Files
    /\ NoFile \notin Contents
    /\ MaxCommits \in Nat /\ MaxCommits > 0
    /\ \A n \in 1..MaxCommits : n # NoCommit
    /\ Unused \notin Record
BY RangeAssumption, AbsentAssumption DEF Commits

\* The record of an older version is one of an answered review.
LEMMA LegacyGood ==
    \A s \in SessionIds :
       LET rec == Completed(NewRecord, s) IN
       rec \in Record /\ WellFormed(rec) /\ rec.status = "open"
BY NoSessionAssumption
   DEF Completed, NewRecord, Record, Statuses, Operations, LaterOperations, WellFormed

LEMMA InitKept == RangeInit => IInv
<1> SUFFICES ASSUME RangeInit PROVE IInv
  OBVIOUS
<1> USE DEF RangeInit
<1>1. PICK tree \in Trees :
         trees = <<tree>> /\ work = tree /\ index = {f \in Files : tree[f] # NoFile}
  OBVIOUS
<1>2. trees \in Seq(Trees) /\ Len(trees) = 1
  BY <1>1
<1>3. record # Unused =>
         record \in Record /\ WellFormed(record) /\ record.status = "open" /\ legacy
  BY LegacyGood
<1>4. RangeTypeOK /\ RecordFollows
  BY <1>1, <1>2, <1>3, RangeConstants
     DEF RangeTypeOK, Commits, Operations, LaterOperations, RecordFollows, FailedTurnIsUndone
<1>5. RangeFollows /\ SteadyFollows
  BY DEF RangeFollows, SteadyFollows
<1>6. QED
  BY <1>4, <1>5 DEF IInv

-----------------------------------------------------------------------------
(* The repository changes under the turn.                                  *)

\* Commits are only ever added.
LEMMA EditedKept ==
    ASSUME IInv, Edited,
           trees' \in Seq(Trees), Len(trees') \in Commits, Len(trees) <= Len(trees'),
           \A c \in 1..Len(trees) : trees'[c] = trees[c],
           ref' \in 1..Len(trees') \cup {NoCommit},
           index' \subseteq Files, work' \in Trees
    PROVE  IInv'
<1> USE DEF IInv, Edited
<1>1. Len(trees) \in Nat /\ Len(trees') \in Nat
  BY RangeConstants DEF RangeTypeOK, Commits
<1>2. 1..Len(trees) \subseteq 1..Len(trees')
  BY <1>1
<1>3. RangeTypeOK'
  BY <1>2 DEF RangeTypeOK, review
<1>4. RecordFollows'
  BY DEF RecordFollows, FailedTurnIsUndone, review
<1>5. RangeFollows'
  BY DEF RangeFollows, review
<1>6. SteadyFollows'
  <2>1. CASE pc = "list"
    <3>1. against \in 1..Len(trees) /\ trees'[against] = trees[against]
      BY <2>1 DEF RangeFollows, RangeTypeOK
    <3>2. ASSUME NEW f \in steady', f \notin diff
          PROVE  Untracked(f)' /\ trees'[against][f] = NoFile
      <4>1. f \in steady /\ Untracked(f) /\ trees[against][f] = NoFile
        BY <2>1, <3>2 DEF SteadyFollows
      <4>2. Reviewable(f)' /\ (f \in index' => f \in index)
        BY <3>2
      <4>3. f \notin index'
        BY <4>1, <4>2 DEF Untracked
      <4>4. trees'[against][f] = NoFile
        BY <3>1, <4>1
      <4>5. ~ Differs(f, against)'
        BY <4>3, <4>4 DEF Differs, Tracked
      <4>6. QED
        BY <4>2, <4>4, <4>5 DEF Reviewable
    <3>3. QED
      BY <2>1, <3>2 DEF SteadyFollows
  <2>2. CASE pc = "decide"
    BY <2>2 DEF SteadyFollows
  <2>3. CASE pc \notin {"list", "decide"}
    BY <2>3 DEF SteadyFollows
  <2>4. QED
    BY <2>1, <2>2, <2>3
<1>7. QED
  BY <1>3, <1>4, <1>5, <1>6

LEMMA RepositoryKept ==
    ASSUME IInv,
           \/ \E f \in Files : Edit(f) \/ Stage(f) \/ Unstage(f)
           \/ Commit
           \/ MoveRef
    PROVE  IInv'
<1>1. /\ trees \in Seq(Trees) /\ Len(trees) \in Commits /\ Len(trees) \in Nat
      /\ ref \in 1..Len(trees) \cup {NoCommit} /\ index \subseteq Files /\ work \in Trees
  BY RangeConstants DEF IInv, RangeTypeOK, Commits
<1>2. ASSUME NEW f \in Files, Edit(f) PROVE IInv'
  <2>1. work' \in Trees
    BY <1>1, <1>2 DEF Edit, Trees
  <2>2. QED
    BY <1>1, <1>2, <2>1, EditedKept DEF Edit
<1>3. ASSUME NEW f \in Files, Stage(f) PROVE IInv'
  BY <1>1, <1>3, EditedKept DEF Stage
<1>4. ASSUME NEW f \in Files, Unstage(f) PROVE IInv'
  BY <1>1, <1>4, EditedKept DEF Unstage
<1>5. CASE Commit
  <2> DEFINE tree == [f \in Files |-> Tracked(f)]
  <2>1. tree \in Trees
    BY <1>1 DEF Tracked, Trees, ContentOrNone
  <2>2. trees' = Append(trees, tree)
    BY <1>5 DEF Commit
  <2> HIDE DEF tree
  <2>3. /\ trees' \in Seq(Trees) /\ Len(trees') = Len(trees) + 1
        /\ \A c \in 1..Len(trees) : trees'[c] = trees[c]
    BY <1>1, <2>1, <2>2
  <2>4. Len(trees') \in Commits
    BY <1>1, <1>5, <2>3, RangeConstants DEF Commits, Commit
  <2>5. ref' \in 1..Len(trees') \cup {NoCommit}
    BY <1>1, <1>5, <2>3 DEF Commit
  <2>6. QED
    BY <1>1, <1>5, <2>3, <2>4, <2>5, EditedKept DEF Commit
<1>6. CASE MoveRef
  BY <1>1, <1>6, EditedKept DEF MoveRef
<1>7. QED
  BY <1>2, <1>3, <1>4, <1>5, <1>6

-----------------------------------------------------------------------------
(* The steps of a turn.                                                    *)

LEMMA StartInitialKept == ASSUME IInv, StartInitial PROVE IInv'
<1> USE DEF IInv, StartInitial, Step, repository, review, turn
<1>1. RangeTypeOK'
  BY DEF RangeTypeOK
<1>2. RecordFollows' /\ RangeFollows' /\ SteadyFollows'
  BY DEF RecordFollows, FailedTurnIsUndone, RangeFollows, SteadyFollows
<1>3. QED
  BY <1>1, <1>2

LEMMA StartLaterKept ==
    ASSUME IInv, NEW op \in LaterOperations, StartLater(op)
    PROVE  IInv'
<1> USE DEF IInv, StartLater, Step, repository, review, LaterOperations
<1>1. RangeTypeOK'
  BY DEF RangeTypeOK, Operations
<1>2. RecordFollows' /\ RangeFollows' /\ SteadyFollows'
  BY DEF RecordFollows, FailedTurnIsUndone, RangeFollows, SteadyFollows
<1>3. QED
  BY <1>1, <1>2

LEMMA ResolveKept == ASSUME IInv, Resolve PROVE IInv'
<1> USE DEF IInv, Resolve, Step, repository, review
<1>1. RangeTypeOK'
  BY DEF RangeTypeOK
<1>2. RecordFollows' /\ RangeFollows' /\ SteadyFollows'
  BY DEF RecordFollows, FailedTurnIsUndone, RangeFollows, SteadyFollows
<1>3. QED
  BY <1>1, <1>2

LEMMA DiffKept == ASSUME IInv, Diff PROVE IInv'
<1> USE DEF IInv, Diff, Step, repository, review
<1>1. against' \in 1..Len(trees) \cup {NoCommit}
  BY DEF RangeTypeOK, reviewBase
<1>2. RangeTypeOK'
  BY <1>1 DEF RangeTypeOK
<1>3. kind # "initial" /\ ~legacy => base # NoCommit
  BY DEF RecordFollows, RangeTypeOK, Operations, LaterOperations
<1>4. RecordFollows' /\ RangeFollows'
  BY <1>3 DEF RecordFollows, FailedTurnIsUndone, RangeFollows, reviewBase
<1>5. SteadyFollows'
  <2>1. ASSUME NEW f \in steady', f \notin diff'
        PROVE  Untracked(f)' /\ trees'[against'][f] = NoFile
    BY <2>1 DEF Untracked, Differs, Tracked
  <2>2. QED
    BY <2>1 DEF SteadyFollows
<1>6. QED
  BY <1>2, <1>4, <1>5

LEMMA ListKept == ASSUME IInv, List PROVE IInv'
<1> USE DEF IInv, List, Step, repository, review
<1>1. RangeTypeOK'
  BY DEF RangeTypeOK
<1>2. RecordFollows' /\ RangeFollows'
  BY DEF RecordFollows, FailedTurnIsUndone, RangeFollows
<1>3. SteadyFollows'
  BY DEF SteadyFollows, RangeTypeOK
<1>4. QED
  BY <1>1, <1>2, <1>3

LEMMA EndKept ==
    ASSUME IInv, EndTurn, UNCHANGED <<repository, base, legacy, turns>>,
           record' \in Record \cup {Unused}, record' # Unused => record # Unused,
           record' # Unused => WellFormed(record') /\ record'.status # "pending"
    PROVE  IInv'
<1> USE DEF IInv, EndTurn, repository
<1>1. RangeTypeOK'
  BY DEF RangeTypeOK, Operations, LaterOperations
<1>2. RecordFollows' /\ RangeFollows' /\ SteadyFollows'
  BY DEF RecordFollows, FailedTurnIsUndone, RangeFollows, SteadyFollows
<1>3. QED
  BY <1>1, <1>2

LEMMA SendKept == ASSUME IInv, Send PROVE IInv'
<1> USE DEF IInv, Send, Step, repository, turn
<1>1. record' \in Record /\ WellFormed(record') /\ record'.status = "pending"
  <2>1. CASE kind = "initial"
    BY <2>1, NewRecordGood
  <2>2. CASE kind = "continuation"
    <3>1. record \in Record /\ WellFormed(record) /\ CanContinue(record)
      BY <2>2 DEF RangeTypeOK, RecordFollows
    <3>2. QED
      BY <2>2, <3>1, ContinuingGood
  <2>3. CASE kind = "quota_retry"
    <3>1. record \in Record /\ WellFormed(record) /\ CanRetry(record)
      BY <2>3 DEF RangeTypeOK, RecordFollows
    <3>2. record' = Retrying(record)
      BY <2>3
    <3>3. QED
      BY <3>1, <3>2, RetryingGood
  <2>4. QED
    BY <2>1, <2>2, <2>3 DEF RangeTypeOK, Operations, LaterOperations
<1>2. RangeTypeOK'
  BY <1>1 DEF RangeTypeOK
<1>3. RecordFollows'
  BY <1>1, RangeConstants DEF RecordFollows, FailedTurnIsUndone, RangeFollows
<1>4. RangeFollows' /\ SteadyFollows'
  BY DEF RangeFollows, SteadyFollows
<1>5. QED
  BY <1>2, <1>3, <1>4

-----------------------------------------------------------------------------
\* Records, ranges and reports fit each other at every moment of every turn.
THEOREM Invariant == RangeSpec => []IInv
<1>1. ASSUME IInv, [RangeNext]_rangeVars PROVE IInv'
  <2>1. CASE StartInitial \/ \E op \in LaterOperations : StartLater(op)
    BY <1>1, <2>1, StartInitialKept, StartLaterKept
  <2>2. CASE Resolve \/ Diff \/ List
    BY <1>1, <2>2, ResolveKept, DiffKept, ListKept
  <2>3. CASE Empty \/ GiveUp
    <3>1. EndTurn /\ UNCHANGED <<repository, review>> /\ pc # "running"
      BY <2>3 DEF Empty, GiveUp
    <3>2. record \in Record \cup {Unused}
      BY <1>1 DEF IInv, RangeTypeOK
    <3>3. record # Unused => WellFormed(record) /\ record.status # "pending"
      BY <1>1, <3>1 DEF IInv, RecordFollows, FailedTurnIsUndone
    <3>4. QED
      BY <1>1, <3>1, <3>2, <3>3, EndKept DEF review
  <2>4. CASE Send
    BY <1>1, <2>4, SendKept
  <2>5. CASE Finish
    <3>1. record \in Record /\ WellFormed(record) /\ record.status = "pending"
      BY <1>1, <2>5 DEF IInv, RangeTypeOK, RecordFollows, Finish
    <3>2. record' \in Record /\ WellFormed(record') /\ record'.status # "pending"
      BY <2>5, <3>1, OutcomesGood DEF Finish
    <3>3. record # Unused
      BY <1>1, <2>5 DEF IInv, RecordFollows, Finish
    <3>4. QED
      BY <1>1, <2>5, <3>2, <3>3, EndKept DEF Finish
  <2>6. CASE \/ \E f \in Files : Edit(f) \/ Stage(f) \/ Unstage(f)
             \/ Commit
             \/ MoveRef
    BY <1>1, <2>6, RepositoryKept
  <2>7. CASE UNCHANGED rangeVars
    BY <1>1, <2>7
       DEF rangeVars, repository, review, turn, IInv, RangeTypeOK, RecordFollows,
           FailedTurnIsUndone, RangeFollows, SteadyFollows, Untracked
  <2>8. QED
    BY <1>1, <2>1, <2>2, <2>3, <2>4, <2>5, <2>6, <2>7 DEF RangeNext
<1>2. QED
  BY InitKept, <1>1, PTL DEF RangeSpec

\* The variables keep to their values.
THEOREM RangeTyped == RangeSpec => []RangeTypeOK
<1>1. IInv => RangeTypeOK
  BY DEF IInv
<1>2. QED
  BY <1>1, Invariant, PTL

\* A continuation or a retry is shown what changed since the recorded commit.
THEOREM LaterRangeIsStable == RangeSpec => []LaterRangeIsRecorded
<1>1. IInv => LaterRangeIsRecorded
  BY DEF IInv, RangeFollows, LaterRangeIsRecorded
<1>2. QED
  BY <1>1, Invariant, PTL

\* No file falls between the diff and the list unless it was staged in between.
THEOREM FilesAreCovered == RangeSpec => []NothingMissed
<1>1. IInv => NothingMissed
  BY DEF IInv, SteadyFollows, NothingMissed, shown, safeUntracked, excluded
<1>2. QED
  BY <1>1, Invariant, PTL

\* A preparation that fails leaves the review as it was.
THEOREM FailuresAreUndone == RangeSpec => []FailedTurnIsUndone
<1>1. IInv => FailedTurnIsUndone
  BY DEF IInv, RecordFollows
<1>2. QED
  BY <1>1, Invariant, PTL

\* What is reported as empty holds nothing but sensitive files.
THEOREM EmptyScopesAreEmpty == RangeSpec => EmptyIsEmpty
<1>1. IInv /\ Empty => steady \subseteq Sensitive
  BY DEF IInv, SteadyFollows, Empty, Nothing, shown, safeUntracked
<1>2. IInv /\ [RangeNext]_rangeVars => [Empty => steady \subseteq Sensitive]_rangeVars
  BY <1>1
<1>3. QED
  BY <1>2, Invariant, PTL DEF RangeSpec, EmptyIsEmpty
=============================================================================
