----------------------------- MODULE StoreCalls -----------------------------
(***************************************************************************)
(* The calls of the session store and what each does to the map from       *)
(* review identifiers to records.  A record is an opaque value here: the   *)
(* store never looks inside one.  Validate reads like List and is not told *)
(* apart from it.                                                          *)
(***************************************************************************)
CONSTANTS
    Ids,        \* review identifiers
    Values,     \* records
    NoRecord,   \* what an unused identifier is mapped to
    NoRequest,  \* a caller that is not calling
    Nothing     \* a caller that has loaded nothing

ASSUME CallsAssumption ==
    /\ NoRecord \notin Values
    /\ NoRequest \notin [op : {"create", "update", "delete", "get", "list"},
                         id : Ids, value : Values]
    /\ Nothing \notin [Ids -> Values \cup {NoRecord}]

\* What a sessions.json file can hold.
Contents == [Ids -> Values \cup {NoRecord}]

\* No file at all, which load takes for a file without records.
Empty == [i \in Ids |-> NoRecord]

WriteOps == {"create", "update", "delete"}
ReadOps == {"get", "list"}

Request == [op : WriteOps \cup ReadOps, id : Ids, value : Values]

Writes(q) == q.op \in WriteOps

\* "ok", or why the store refuses: a record that is there already, or is not.
Answer(q, m) ==
    CASE q.op = "list"   -> "ok"
      [] q.op = "create" -> IF m[q.id] = NoRecord THEN "ok" ELSE "exists"
      [] OTHER           -> IF m[q.id] = NoRecord THEN "notfound" ELSE "ok"

\* The map after the call.
After(q, m) ==
    IF Writes(q) /\ Answer(q, m) = "ok"
    THEN [m EXCEPT ![q.id] = IF q.op = "delete" THEN NoRecord ELSE q.value]
    ELSE m

Answers == {"ok", "exists", "notfound", "error"}
=============================================================================
