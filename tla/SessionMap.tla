----------------------------- MODULE SessionMap -----------------------------
(***************************************************************************)
(* What the session store promises the review service: a map on which each *)
(* call takes effect at one instant between its start and its answer, or   *)
(* fails and has no effect at all.  A process that dies leaves its call    *)
(* undone or done, never half done.  A power loss may undo the calls since *)
(* the map was last settled on the disk, and leaves a map that once was.   *)
(***************************************************************************)
EXTENDS StoreCalls

CONSTANT Callers

VARIABLES
    map,       \* the record of each identifier
    fallback,  \* the maps a power loss may leave
    request,   \* what each caller asks for
    answer,    \* what it was answered ("none": nothing yet)
    view       \* the map its answer comes from

vars == <<map, fallback, request, answer, view>>

Init ==
    /\ map = Empty
    /\ fallback = {Empty}
    /\ request = [c \in Callers |-> NoRequest]
    /\ answer = [c \in Callers |-> "none"]
    /\ view = [c \in Callers |-> Nothing]

Waiting(c) == request[c] # NoRequest /\ answer[c] = "none"

Call(c, q) ==
    /\ request[c] = NoRequest
    /\ request' = [request EXCEPT ![c] = q]
    /\ UNCHANGED <<map, fallback, answer, view>>

Serve(c) ==
    /\ Waiting(c)
    /\ answer' = [answer EXCEPT ![c] = Answer(request[c], map)]
    /\ map' = After(request[c], map)
    /\ fallback' = fallback \cup {map'}
    /\ view' = [view EXCEPT ![c] = map']
    /\ UNCHANGED request

Fail(c) ==
    /\ Waiting(c)
    /\ answer' = [answer EXCEPT ![c] = "error"]
    /\ UNCHANGED <<map, fallback, request, view>>

\* The callers of D are gone, whatever they were doing.
Drop(D) ==
    /\ request' = [c \in Callers |-> IF c \in D THEN NoRequest ELSE request[c]]
    /\ answer' = [c \in Callers |-> IF c \in D THEN "none" ELSE answer[c]]
    /\ view' = [c \in Callers |-> IF c \in D THEN Nothing ELSE view[c]]

Return(c) == answer[c] # "none" /\ Drop({c}) /\ UNCHANGED <<map, fallback>>

Settle == fallback' = {map} /\ UNCHANGED <<map, request, answer, view>>

Crash(D) == Drop(D) /\ UNCHANGED <<map, fallback>>

PowerLoss ==
    /\ map' \in fallback
    /\ fallback' = {map'}
    /\ Drop(Callers)

Next ==
    \/ \E c \in Callers : \/ \E q \in Request : Call(c, q)
                          \/ Serve(c)
                          \/ Fail(c)
                          \/ Return(c)
    \/ Settle
    \/ \E D \in SUBSET Callers : Crash(D)
    \/ PowerLoss

Spec == Init /\ [][Next]_vars
=============================================================================
