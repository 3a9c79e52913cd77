--------------------------- MODULE MCClaudeClient ---------------------------
(***************************************************************************)
(* Instances of ClaudeClient for TLC.                                      *)
(***************************************************************************)
EXTENDS ClaudeClient, TLC

CONSTANTS r1, r2, a, b

Plain ==
    [type |-> "system", session |-> NoSession, status |-> "", reset |-> FALSE,
     isError |-> FALSE, maxTurns |-> FALSE, api |-> "", output |-> FALSE]

System(s) == [Plain EXCEPT !.session = s]

Limit(status) ==
    [Plain EXCEPT !.type = "rate_limit_event", !.status = status, !.reset = TRUE]

ResultLine == [Plain EXCEPT !.type = "result"]

\* Lines of a stream that goes right, is rejected, fails or is broken.
AllLines ==
    {System(a), System(b), Limit("allowed"), Limit("rejected"),
     [ResultLine EXCEPT !.output = TRUE],
     [ResultLine EXCEPT !.output = TRUE, !.maxTurns = TRUE],
     [ResultLine EXCEPT !.isError = TRUE, !.api = "other"],
     [ResultLine EXCEPT !.isError = TRUE, !.maxTurns = TRUE],
     [ResultLine EXCEPT !.isError = TRUE, !.api = "429"],
     [Plain EXCEPT !.type = "long"]}

FewLines == {System(a), [ResultLine EXCEPT !.output = TRUE]}

OneLine == {[ResultLine EXCEPT !.session = a, !.output = TRUE]}
=============================================================================
