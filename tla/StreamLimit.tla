----------------------------- MODULE StreamLimit -----------------------------
(***************************************************************************)
(* How much of Claude's output one run reads: ParseStream puts a reader    *)
(* that ends one byte past the limit under a scanner whose buffer holds    *)
(* one line.  ClaudeClient takes the ends of the scan as outcomes; here    *)
(* they are counted out byte by byte.  The integers are those of the       *)
(* program: the limit is an int64, and limit + 1 wraps around.             *)
(***************************************************************************)
EXTENDS Integers

CONSTANTS
    OutputSettings,      \* the values maxBytes is tried with
    DefaultOutputLimit,  \* the limit when it is not set
    FirstBuffer,   \* size of the buffer the scanner starts with
    MaxToken,      \* no line may be longer, whatever the limit
    Outputs,       \* how many bytes Claude may print
    MaxInt         \* the largest int64

ASSUME StreamAssumption ==
    /\ MaxInt \in Nat \ {0}
    /\ OutputSettings \subseteq Int /\ \A setting \in OutputSettings : setting <= MaxInt
    /\ DefaultOutputLimit \in 1..MaxInt
    /\ FirstBuffer \in Nat \ {0} /\ MaxToken \in Nat \ {0}
    /\ Outputs \subseteq Nat

VARIABLES
    maxBytes,  \* the argument
    output,    \* bytes Claude prints before it closes its standard output
    got,       \* bytes read
    line,      \* bytes in the buffer since the last end of a line
    verdict    \* how the scan ends

streamVars == <<maxBytes, output, got, line, verdict>>

OutputLimit == IF maxBytes <= 0 THEN DefaultOutputLimit ELSE maxBytes

Wrap(n) == ((n + MaxInt + 1) % (2 * (MaxInt + 1))) - (MaxInt + 1)

\* LimitedReader.N at the start.
Readable == Wrap(OutputLimit + 1)

\* LimitedReader.N after got bytes.
Left == Readable - got

\* Scanner.Buffer: the size to which the buffer may grow.
Capacity ==
    LET maxToken == IF OutputLimit > MaxToken THEN MaxToken ELSE OutputLimit
    IN  IF maxToken > FirstBuffer THEN maxToken ELSE FirstBuffer

StreamInit ==
    /\ maxBytes \in OutputSettings
    /\ output \in Outputs
    /\ got = 0 /\ line = 0
    /\ verdict = "none"

\* A byte arrives, as the end of a line or as a part of one.
Read ==
    /\ verdict = "none"
    /\ got < output /\ Left > 0 /\ line < Capacity
    /\ got' = got + 1
    /\ line' \in {0, line + 1}
    /\ UNCHANGED <<maxBytes, output, verdict>>

\* Scan fails as soon as one line fills the buffer.
LineTooLong ==
    /\ verdict = "none" /\ line = Capacity
    /\ verdict' = "unreadable"
    /\ UNCHANGED <<maxBytes, output, got, line>>

\* Mutant of EndOfStream: the end of the reader is that of the output.
EndOfStreamUnchecked ==
    /\ verdict = "none" /\ line < Capacity
    /\ got = output \/ Left <= 0
    /\ verdict' = "ok"
    /\ UNCHANGED <<maxBytes, output, got, line>>

\* The reader ends, with the output or one byte past the limit.
EndOfStream ==
    /\ verdict = "none" /\ line < Capacity
    /\ got = output \/ Left <= 0
    /\ verdict' = IF Left <= 0 THEN "too_large" ELSE "ok"
    /\ UNCHANGED <<maxBytes, output, got, line>>

StreamNext == Read \/ LineTooLong \/ EndOfStream

StreamSpec == StreamInit /\ [][StreamNext]_streamVars

-----------------------------------------------------------------------------
\* What is taken for the answer of Claude is all that Claude printed: a result
\* in a stream that was cut off is not used.  Output of exactly the limit is not
\* refused for its size.  (A limit of MaxInt leaves nothing to read, and refuses
\* every output.  A single line may fill the buffer before the limit is passed;
\* such an output is reported as unreadable.)
OutputIsExact ==
    /\ verdict = "ok" => got = output /\ output <= OutputLimit
    /\ verdict = "too_large" => output > OutputLimit \/ OutputLimit = MaxInt
=============================================================================
