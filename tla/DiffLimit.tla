------------------------------ MODULE DiffLimit ------------------------------
(***************************************************************************)
(* One call of git.Service.Diff while git still prints: a process that     *)
(* writes into a pipe, the goroutine of os/exec that copies the pipe into  *)
(* a limitedBuffer, and the call that waits for both.  What git prints is  *)
(* counted, not named: the buffer keeps bytes in the order they come, so   *)
(* as many bytes as were printed are the bytes that were printed.          *)
(*                                                                         *)
(* The process stands for git and whatever inherits its output from it:    *)
(* the command has no WaitDelay, so that the copy reads until the last of  *)
(* them has closed the pipe.                                               *)
(***************************************************************************)
EXTENDS Integers

CONSTANTS
    Settings,      \* the values MaxDiffBytes is tried with
    DefaultLimit,  \* the limit when it is not set
    Sizes,         \* how much a diff may print
    PipeSize,      \* capacity of the pipe between git and the copy
    ChunkSize      \* what the copy reads at a time

ASSUME DiffAssumption ==
    /\ Settings \subseteq Int
    /\ Sizes \subseteq Nat
    /\ DefaultLimit \in Nat \ {0}
    /\ PipeSize \in Nat \ {0}
    /\ ChunkSize \in Nat \ {0}

VARIABLES
    maxDiffBytes,  \* the field of the service
    size,          \* what this diff would print
    git,           \* the process
    printed,       \* bytes it has written into the pipe
    copied,        \* bytes the copy has handed to the buffer
    kept,          \* bytes in the buffer
    exceeded,      \* the buffer has dropped some
    result         \* what the call returns

diffVars == <<maxDiffBytes, size, git, printed, copied, kept, exceeded, result>>

Limit(setting) == IF setting <= 0 THEN DefaultLimit ELSE setting

DiffInit ==
    /\ maxDiffBytes \in Settings
    /\ size \in Sizes
    /\ git = "idle"
    /\ printed = 0 /\ copied = 0 /\ kept = 0
    /\ exceeded = FALSE
    /\ result = "none"

\* The reference or a path of the scope is not valid, and git is not run.
Invalid ==
    /\ git = "idle" /\ result = "none"
    /\ result' = "error"
    /\ UNCHANGED <<maxDiffBytes, size, git, printed, copied, kept, exceeded>>

StartGit ==
    /\ git = "idle" /\ result = "none"
    /\ git' = "running"
    /\ UNCHANGED <<maxDiffBytes, size, printed, copied, kept, exceeded, result>>

GitPrints ==
    /\ git = "running"
    /\ printed < size /\ printed - copied < PipeSize
    /\ printed' = printed + 1
    /\ UNCHANGED <<maxDiffBytes, size, git, copied, kept, exceeded, result>>

\* git ends with status 0 when it has printed the diff.
GitSucceeds ==
    /\ git = "running" /\ printed = size
    /\ git' = "succeeded"
    /\ UNCHANGED <<maxDiffBytes, size, printed, copied, kept, exceeded, result>>

\* It fails at any point, or the context of the call kills it.
GitFails ==
    /\ git = "running"
    /\ git' = "failed"
    /\ UNCHANGED <<maxDiffBytes, size, printed, copied, kept, exceeded, result>>

Remaining == Limit(maxDiffBytes) - kept

\* Mutants of Write: what does not fit is dropped without a word, ...
WriteCuts ==
    \E n \in 1..ChunkSize :
       /\ n <= printed - copied
       /\ copied' = copied + n
       /\ kept' = IF n > Remaining THEN kept + Remaining ELSE kept + n
       /\ UNCHANGED <<maxDiffBytes, size, git, printed, exceeded, result>>

\* ... or a full buffer takes nothing more, and the copy stops.
WriteStops ==
    \E n \in 1..ChunkSize :
       /\ ~exceeded /\ n <= printed - copied
       /\ copied' = copied + n
       /\ kept' = IF n > Remaining THEN kept + Remaining ELSE kept + n
       /\ exceeded' = (n > Remaining)
       /\ UNCHANGED <<maxDiffBytes, size, git, printed, result>>

\* limitedBuffer.Write with the n bytes of a read of the pipe: once a chunk did
\* not fit, all that follows is dropped, but always taken.
Write ==
    \E n \in 1..ChunkSize :
       /\ n <= printed - copied
       /\ copied' = copied + n
       /\ exceeded' = (exceeded \/ n > Remaining)
       /\ kept' = CASE exceeded -> kept
                    [] ~exceeded /\ n > Remaining -> kept + Remaining
                    [] OTHER -> kept + n
       /\ UNCHANGED <<maxDiffBytes, size, git, printed, result>>

\* Run returns when git has ended and the copy has read the end of the pipe.
Conclude ==
    /\ git \in {"succeeded", "failed"} /\ copied = printed /\ result = "none"
    /\ result' = CASE exceeded -> "too_large"
                   [] ~exceeded /\ git = "failed" -> "error"
                   [] OTHER -> "diff"
    /\ UNCHANGED <<maxDiffBytes, size, git, printed, copied, kept, exceeded>>

DiffNext ==
    Invalid \/ StartGit \/ GitPrints \/ GitSucceeds \/ GitFails \/ Write \/ Conclude

\* git goes on as long as the pipe has room, the goroutines as long as they can.
DiffFairness ==
    /\ WF_diffVars(GitPrints) /\ WF_diffVars(GitSucceeds)
    /\ WF_diffVars(Write) /\ WF_diffVars(Conclude)

DiffSpec == DiffInit /\ [][DiffNext]_diffVars /\ DiffFairness

-----------------------------------------------------------------------------
\* The memory of the call is bounded by the limit, whatever git prints.
DiffTypeOK ==
    /\ maxDiffBytes \in Settings /\ size \in Sizes
    /\ git \in {"idle", "running", "succeeded", "failed"}
    /\ printed \in 0..size
    /\ copied \in 0..printed
    /\ kept \in 0..Limit(maxDiffBytes)
    /\ exceeded \in BOOLEAN
    /\ result \in {"none", "too_large", "error", "diff"}

\* A diff that is reviewed is the whole diff: neither the limit nor a git that
\* fails halfway leaves a part of it that passes for all.  The limit itself
\* still fits, one byte more does not, and a git that failed after that is
\* reported as too large a diff, not as an error of git.
DiffIsExact ==
    /\ result = "diff" => git = "succeeded" /\ kept = size
    /\ result # "none" => (result = "too_large" <=> printed > Limit(maxDiffBytes))

\* A diff far over the limit does not leave git blocked on a full pipe: the
\* call returns.
CallReturns == git = "running" ~> result # "none"
=============================================================================
