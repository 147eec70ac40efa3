----------------------------- MODULE EndpointLog -----------------------------
(***************************************************************************)
(* What an endpoint promises: a log of objects.  An object is appended at   *)
(* the next id and is never moved or replaced, until the endpoint is       *)
(* deleted with its whole log.                                             *)
(***************************************************************************)
EXTENDS Naturals, Sequences

CONSTANTS
    Urls,         \* the urls clients name
    Registered,   \* those of them that are endpoints at the start
    Objects       \* what clients store

VARIABLES
    exists,   \* the urls that are endpoints
    log       \* for each url its objects, the one with id i at position i + 1

logVars == <<exists, log>>

LogInit == exists = Registered /\ log = [u \in Urls |-> <<>>]

AppendObject(u) ==
    /\ u \in exists
    /\ \E o \in Objects : log' = [log EXCEPT ![u] = Append(@, o)]
    /\ UNCHANGED exists

DeleteLog(u) ==
    /\ u \in exists
    /\ exists' = exists \ {u}
    /\ log' = [log EXCEPT ![u] = <<>>]

LogNext == \E u \in Urls : AppendObject(u) \/ DeleteLog(u)

LogSpec == LogInit /\ [][LogNext]_logVars
=============================================================================
