------------------------------ MODULE Requests ------------------------------
(***************************************************************************)
(* One request, from the factories that make its handler to the end of its  *)
(* transaction, for every handler but FileServerRequestHandler (module      *)
(* FileServer has it).                                                      *)
(*                                                                         *)
(* Callbacks of the connection, the lambdas given to runInLoop and the      *)
(* callbacks of the connection to another server all run on the event base  *)
(* of the connection, one after the other; the second part of POST /__users *)
(* runs on the CPU pool.  What a handler does to the database is in modules *)
(* Endpoints and Accounts; here it may only throw or end the process, most  *)
(* of it when other requests disturb it: when they register or delete       *)
(* endpoints while this one is under way, which races for _cfh_map, or have *)
(* left a family this one needs without a handle, or with a null one.       *)
(*                                                                         *)
(* Between handler and connection are three filters of which the            *)
(* AuthenticationFilter is next to the handler.  They delete themselves     *)
(* when the transaction ends, after they have told the handler, and         *)
(* downstream_ is a dangling pointer from then on.                          *)
(***************************************************************************)
EXTENDS Integers, FiniteSets

CONSTANT Paths    \* paths that are asked for, each given by the factories that match it

\* the factories in the order they are asked, the last of main's chain first; "direct" stands for
\* the handler RestDbRequestHandlerFactory makes for a path it does not take, "blacklist" for the
\* one of FiltersFactory
Rank == [direct |-> 0, rest |-> 1, xkcd |-> 2, giphy |-> 3, users |-> 4, endpoints |-> 5,
         authenticate |-> 6, blacklist |-> 7]
Handlers == DOMAIN Rank

\* What a handler distinguishes: methods, and paths with a method where they matter.  Methods it
\* treats alike have one name here: OPTIONS of RestDbRequestHandler includes HEAD, PATCH, TRACE
\* and CONNECT, LIST is GET of a collection, PUT stands for methods without a case, JSON and HTML
\* are formats, BAD is a path that is no query of giphy, or a server that is not resolved.  For a
\* method that proxygen does not know _method is left uninitialized, and the request is treated
\* like any other or, NONE, matches no case.  The cases for the root are never reached, because
\* the empty path is not valid.
Methods ==
    [direct |-> {"GET"}, blacklist |-> {"GET"},
     rest |-> {"GET", "POST", "PUT", "DELETE", "OPTIONS", "NONE"},
     users |-> {"LIST", "GET", "POST", "OPTIONS", "PUT"},
     endpoints |-> {"LIST", "GET", "POST", "DELETE", "OPTIONS", "PUT"},
     authenticate |-> {"POST", "OPTIONS", "GET"},
     xkcd |-> {"GET", "POST"},
     giphy |-> {"JSON", "HTML", "BAD"}]

ASSUME PathsAssumption == Paths \subseteq SUBSET (Handlers \ {"direct"})

VARIABLES
    path,       \* the factories that match the request's path
    handler,    \* the handler the chain has ended with
    method,
    token,      \* the token in the headers: "absent", "valid", "invalid", or "unchecked" when the
                \* look-up of it does not come to an end
    disturbed,  \* do other requests disturb this one at _cfh_map?
    body,       \* the body, when all of it is there: "none", "bad" (no JSON) or "good"
    heap,       \* the handlers made for this request that are not deleted
    conn,       \* the transaction: "new", "headers" (in onRequest), "open", "complete" or "failed"
    ingress,    \* what the client sends: "open", "paused" or "eom"
    starts,     \* how often a response was started
    egress,     \* the response: "none", "open" or "eom"
    lambda,     \* what waits in the event base: "none", "work", "reply" or "html"
    pool,       \* does something wait in the pool?
    upstream,   \* the request to another server, with its answer; "chain" is a second piece of one
    process     \* "up" or "died"

request == <<path, handler, method, token, disturbed>>
response == <<starts, egress>>
work == <<lambda, pool, upstream>>
vars == <<request, body, heap, conn, ingress, response, work, process>>

Is(h, ms) == handler = h /\ method \in ms
\* the filters have deleted themselves
Gone == conn \in {"complete", "failed"}

Init ==
    /\ path = {} /\ handler = "direct" /\ method = "GET" /\ token = "absent"
    /\ disturbed = FALSE
    /\ body = "none"
    /\ heap = {}
    /\ conn = "new"
    /\ ingress = "open"
    /\ starts = 0 /\ egress = "none"
    /\ lambda = "none" /\ pool = FALSE /\ upstream = "none"
    /\ process = "up"

-----------------------------------------------------------------------------
(* Effects *)

\* the use of memory that was freed
Undefined == process' \in {"up", "died"}

\* A response is begun through downstream_.  If that is gone anything may happen; if there was a
\* response already the transaction does not allow another, which may end the process.
Begin(e) ==
    IF Gone
    THEN Undefined /\ UNCHANGED response
    ELSE /\ starts' = starts + 1
         /\ egress' = e
         /\ IF starts = 0 THEN UNCHANGED process ELSE Undefined

\* ResponseBuilder(downstream_) ... sendWithEOM()
Answer == Begin("eom")

\* onError and requestComplete of the handlers: delete this, except for giphy.  With an
\* XkcdRequestHandler its JsonClient goes, which cancels a connection not yet made.
Release == heap' = IF handler = "giphy" THEN heap ELSE heap \ {handler}
CancelConnect == upstream' = IF handler = "xkcd" /\ upstream = "connecting" THEN "none" ELSE upstream

-----------------------------------------------------------------------------
(* The factories *)

Tokens == {"absent", "valid", "invalid", "unchecked"}
Made(p) == IF "rest" \in p THEN p ELSE p \cup {"direct"}

\* each factory that matches makes a handler and drops the one it was given
Receive ==
    /\ conn = "new"
    /\ conn' = "headers"
    /\ \E p \in Paths : \E h \in Made(p) :
         /\ \A g \in Made(p) : Rank[g] <= Rank[h]
         /\ path' = p /\ handler' = h /\ heap' = Made(p)
         /\ method' \in Methods[h]
         /\ token' \in IF h = "blacklist" THEN {"absent"} ELSE Tokens
         /\ disturbed' \in IF token' = "unchecked" THEN {TRUE} ELSE BOOLEAN
    /\ UNCHANGED <<body, ingress, response, work, process>>

-----------------------------------------------------------------------------
(* onRequest *)

InRequest == conn = "headers" /\ conn' = "open" /\ UNCHANGED <<request, body>>

\* AuthenticationFilter: the handler is told of an error, and of nothing after that
RejectQuietly ==   \* mutant
    /\ InRequest
    /\ token = "invalid"
    /\ Answer
    /\ UNCHANGED <<heap, ingress, work>>
Reject ==
    /\ InRequest
    /\ token = "invalid"
    /\ Release
    /\ Answer
    /\ UNCHANGED <<ingress, work>>

\* ... and nothing survives a look into the family of the tokens that is disturbed
FilterDies == InRequest /\ token = "unchecked" /\ process' = "died"
              /\ UNCHANGED <<heap, ingress, response, work>>

ReachAll(h) == handler = h   \* mutant
Reached(h) == handler = h /\ token \in {"absent", "valid"}

\* handlers that only take note of method and path
NoteRequest ==
    /\ InRequest
    /\ \E h \in {"rest", "users", "direct", "blacklist"} : Reached(h)
    /\ UNCHANGED <<heap, ingress, response, work, process>>

EndpointsOnRequest ==
    /\ InRequest
    /\ Reached("endpoints")
    /\ IF method \in {"GET", "OPTIONS"} THEN Answer ELSE UNCHANGED <<response, process>>
    /\ lambda' = IF method \in {"LIST", "DELETE"} THEN "work" ELSE lambda
    /\ UNCHANGED <<heap, ingress, pool, upstream>>

EndpointsOnRequestDies ==
    /\ InRequest
    /\ Reached("endpoints") /\ method = "GET" /\ disturbed
    /\ process' = "died"
    /\ UNCHANGED <<heap, ingress, response, work>>

AuthenticateOnRequest ==
    /\ InRequest
    /\ Reached("authenticate")
    /\ IF method # "POST" THEN Answer ELSE UNCHANGED <<response, process>>
    /\ UNCHANGED <<heap, ingress, work>>

XkcdOnRequest ==
    /\ InRequest
    /\ Reached("xkcd")
    /\ IF method # "GET" THEN Answer ELSE UNCHANGED <<response, process>>
    /\ lambda' = IF method = "GET" THEN "work" ELSE lambda
    /\ UNCHANGED <<heap, ingress, pool, upstream>>

GiphyOnRequest ==
    /\ InRequest
    /\ Reached("giphy")
    /\ IF method = "BAD"
         THEN Answer /\ UNCHANGED <<ingress, upstream>>
         ELSE /\ ingress' = "paused"
              /\ upstream' = "connecting"
              /\ UNCHANGED <<response, process>>
    /\ UNCHANGED <<heap, lambda, pool>>

OnRequest == Reject \/ FilterDies \/ NoteRequest \/ EndpointsOnRequest
             \/ EndpointsOnRequestDies \/ AuthenticateOnRequest \/ XkcdOnRequest \/ GiphyOnRequest

-----------------------------------------------------------------------------
(* onBody and onEOM *)

InEOM ==
    /\ conn = "open" /\ ingress = "open"
    /\ ingress' = "eom"
    /\ body' \in {"none", "bad", "good"}
    /\ UNCHANGED <<request, heap, conn, pool, upstream>>

\* with the set of methods that are answered here, and of those for which work is queued
EOMWithBody(answered, queued) ==   \* mutant
    /\ IF method \in answered THEN Answer ELSE UNCHANGED <<response, process>>
    /\ lambda' = IF method \in queued /\ body' # "none" THEN "work" ELSE lambda
EOM(answered, queued) ==
    /\ IF method \in answered THEN Answer ELSE UNCHANGED <<response, process>>
    /\ lambda' = IF method \in queued THEN "work" ELSE lambda

RestOnEOMFallsThrough ==   \* mutant
    InEOM /\ Reached("rest") /\ EOM({"POST", "DELETE", "OPTIONS"}, {"GET", "POST", "PUT"})
RestOnEOM ==
    InEOM /\ Reached("rest") /\ EOM({"DELETE", "OPTIONS"}, {"GET", "POST", "PUT"})
EndpointsOnEOM == InEOM /\ Reached("endpoints") /\ EOM({}, {"POST"})
UsersOnEOM == InEOM /\ Reached("users") /\ EOM({"OPTIONS"}, {"LIST", "GET", "POST"})
\* whatever onRequest did
AuthenticateOnEOMFallsThrough ==   \* mutant
    InEOM /\ Reached("authenticate") /\ EOM({method}, IF body' = "none" THEN {} ELSE {method})
AuthenticateOnEOM ==
    InEOM /\ Reached("authenticate")
          /\ IF body' = "none" THEN EOM({method}, {}) ELSE EOM({}, {method})
DirectOnEOM == InEOM /\ (Reached("direct") \/ Reached("blacklist")) /\ EOM({"GET"}, {})
IgnoreEOM == InEOM /\ (token = "invalid" \/ Reached("xkcd") \/ Reached("giphy")) /\ EOM({}, {})

OnEOM == RestOnEOM \/ EndpointsOnEOM \/ UsersOnEOM \/ AuthenticateOnEOM \/ DirectOnEOM \/ IgnoreEOM

-----------------------------------------------------------------------------
(* The event base and the pool *)

InLambda(l) == lambda = l /\ UNCHANGED <<request, body, conn, ingress, heap>>

\* Lambdas that end the process by what they are given: the JSON of a PUT is not tried but taken,
\* and the counter may be locked for too long; registering /__endpoints makes the handle null by
\* which the new descriptor is read; and a name is not resolved.
Throws ==
    \/ Is("rest", {"PUT"})
    \/ Is("endpoints", {"POST"}) /\ body = "good"
    \/ Is("xkcd", {"GET"})

\* the handlers that look into _cfh_map, and may not survive that when they are disturbed
UsesStore ==
    \/ Is("rest", {"GET", "POST", "PUT"})
    \/ Is("endpoints", {"LIST", "GET", "POST", "DELETE"})
    \/ Is("users", {"LIST", "GET", "POST"})
    \/ handler = "authenticate"

\* the lambdas queued by onRequest and onEOM that answer
WorkDropsErrors ==   \* mutant
    /\ InLambda("work") /\ handler \in heap
    /\ ~Is("users", {"POST"}) /\ handler # "xkcd"
    /\ lambda' = "none"
    /\ IF body = "good" THEN Answer ELSE UNCHANGED <<response, process>>
    /\ UNCHANGED <<pool, upstream>>
Work ==
    /\ InLambda("work") /\ handler \in heap
    /\ ~Is("users", {"POST"}) /\ handler # "xkcd"
    /\ ~(Is("rest", {"PUT"}) /\ body # "good")
    /\ lambda' = "none"
    /\ Answer
    /\ UNCHANGED <<pool, upstream>>

WorkThrows ==
    /\ InLambda("work") /\ handler \in heap
    /\ ~Is("users", {"POST"})
    /\ Throws \/ (disturbed /\ UsesStore)
    /\ lambda' = "none"
    /\ process' = "died"
    /\ UNCHANGED <<response, pool, upstream>>

\* POST /__users parses the body here and goes on in the pool
ParseEarly ==   \* mutant
    /\ InLambda("work") /\ handler \in heap
    /\ Is("users", {"POST"})
    /\ lambda' = "none" /\ pool' = TRUE
    /\ Answer
    /\ UNCHANGED upstream
Parse ==
    /\ InLambda("work") /\ handler \in heap
    /\ Is("users", {"POST"})
    /\ lambda' = "none" /\ pool' = TRUE
    /\ UNCHANGED <<response, upstream, process>>

\* ... which needs nothing of the handler, and gives what it has found back to the event base
Compute ==
    /\ pool
    /\ pool' = FALSE /\ lambda' = "reply"
    /\ UNCHANGED <<request, body, heap, conn, ingress, response, upstream, process>>

ComputeDies ==
    /\ pool /\ disturbed
    /\ pool' = FALSE
    /\ process' = "died"
    /\ UNCHANGED <<request, body, heap, conn, ingress, response, lambda, upstream>>

\* 201, or one of the three errors
Reply ==
    /\ InLambda("reply") /\ handler \in heap
    /\ lambda' = "none"
    /\ Answer
    /\ UNCHANGED <<pool, upstream>>

\* JsonClient::fetch
Fetch ==
    /\ InLambda("work") /\ handler \in heap
    /\ handler = "xkcd"
    /\ lambda' = "none" /\ upstream' = "connecting"
    /\ UNCHANGED <<response, pool, process>>

\* a lambda that finds its handler deleted
RunDeleted ==
    /\ lambda # "none" /\ handler \notin heap
    /\ lambda' = "none"
    /\ Undefined
    /\ UNCHANGED <<request, body, conn, ingress, heap, response, pool, upstream>>

\* the page of giphy: a null pointer without a body, no answer if it is not the JSON expected
RunHtml ==
    /\ InLambda("html")
    /\ lambda' = "none"
    /\ \/ upstream = "empty" /\ process' = "died" /\ UNCHANGED <<response, upstream>>
       \/ upstream = "done" /\ Answer /\ UNCHANGED upstream
       \/ upstream = "done" /\ upstream' = "bad" /\ UNCHANGED <<response, process>>
    /\ UNCHANGED pool

Loop == Work \/ WorkThrows \/ Parse \/ Reply \/ Fetch \/ RunDeleted \/ RunHtml

-----------------------------------------------------------------------------
(* The connection to another server, of JsonClient and GiphySearchRequestHandler *)

Upstream(a, b) ==
    /\ upstream \in a
    /\ upstream' = b
    /\ UNCHANGED <<request, body, conn, heap, pool>>

ConnectSuccess ==
    /\ Upstream({"connecting"}, "open")
    /\ IF handler = "xkcd" THEN UNCHANGED <<ingress, process>>
       ELSE IF Gone THEN Undefined /\ UNCHANGED ingress
       ELSE ingress' = "open" /\ UNCHANGED process
    /\ UNCHANGED <<response, lambda>>

\* refused, or not made within a second: neither class does anything
ConnectError == Upstream({"connecting"}, "refused") /\ UNCHANGED <<ingress, response, lambda, process>>

\* xkcd: pieces are chained, and only the first of them is parsed
XkcdBody ==
    /\ handler = "xkcd"
    /\ Upstream({"open"}, "body") \/ Upstream({"body"}, "chain")
    /\ IF handler \in heap THEN UNCHANGED process ELSE Undefined
    /\ UNCHANGED <<ingress, lambda, response>>

\* setException is given a std::exception, which no onError matches
XkcdEOM ==
    /\ handler = "xkcd"
    /\ UNCHANGED <<ingress, lambda>>
    /\ IF handler \notin heap
         THEN Upstream({"open", "body", "chain"}, "done") /\ Undefined /\ UNCHANGED response
         ELSE \/ Upstream({"body", "chain"}, "done") /\ Answer
              \/ Upstream({"open", "body", "chain"}, "bad") /\ UNCHANGED <<response, process>>

XkcdError ==
    /\ handler = "xkcd"
    /\ Upstream({"open", "body", "chain"}, "bad")
    /\ IF handler \in heap THEN UNCHANGED process ELSE Undefined
    /\ UNCHANGED <<ingress, lambda, response>>

\* headers and chunks are passed on as they come, unless a page is made of them
GiphyHeaders ==
    /\ handler = "giphy"
    /\ Upstream({"open"}, "headers")
    /\ IF method = "JSON" THEN Begin("open") ELSE UNCHANGED <<response, process>>
    /\ UNCHANGED <<ingress, lambda>>

GiphyBody ==
    /\ handler = "giphy"
    /\ Upstream({"headers"}, "body")
    /\ IF method = "JSON" /\ Gone THEN Undefined ELSE UNCHANGED process
    /\ UNCHANGED <<ingress, lambda, response>>

\* the end is not passed on
GiphyEOM ==
    /\ handler = "giphy"
    /\ \/ Upstream({"headers"}, "empty")
       \/ Upstream({"body"}, "done")
    /\ lambda' = IF method = "HTML" THEN "html" ELSE lambda
    /\ UNCHANGED <<ingress, response, process>>

GiphyError ==
    /\ handler = "giphy"
    /\ Upstream({"open", "headers", "body"}, "failed")
    /\ Answer
    /\ UNCHANGED <<ingress, lambda>>

Server == ConnectSuccess \/ ConnectError \/ XkcdBody \/ XkcdEOM \/ XkcdError \/ GiphyHeaders \/ GiphyBody
          \/ GiphyEOM \/ GiphyError

-----------------------------------------------------------------------------
(* The end of the transaction *)

\* requestComplete or onError goes through the filters; one that has rejected the request keeps
\* it from the handler
End(c) ==
    /\ conn = "open"
    /\ conn' = c
    /\ IF token = "invalid" THEN UNCHANGED heap ELSE Release
    /\ CancelConnect
    /\ UNCHANGED <<request, body, ingress, response, lambda, pool, process>>

Complete == egress = "eom" /\ ingress = "eom" /\ End("complete")
\* the connection is lost, or has been idle for 600 ms
Fail == End("failed")

Next == process = "up" /\ (Receive \/ OnRequest \/ OnEOM \/ Loop \/ Compute \/ ComputeDies \/ Server \/ Complete \/ Fail)

Spec == Init /\ [][Next]_vars

\* The event base and the pool run on.  Connecting is bounded by a second, and so is the silence
\* of the other server; nothing makes the connection to the client fail.
FairSpec ==
    /\ Spec
    /\ WF_vars(process = "up" /\ (OnRequest \/ Loop \/ Complete))
    /\ WF_vars(process = "up" /\ (Compute \/ ComputeDies))
    /\ WF_vars(process = "up" /\ Server)

-----------------------------------------------------------------------------
(* Properties *)

\* The type of every variable.
TypeOK ==
    /\ path \in Paths \cup {{}}
    /\ handler \in Handlers /\ method \in Methods[handler]
    /\ token \in Tokens /\ disturbed \in BOOLEAN
    /\ body \in {"none", "bad", "good"}
    /\ heap \subseteq Handlers
    /\ conn \in {"new", "headers", "open", "complete", "failed"}
    /\ ingress \in {"open", "paused", "eom"}
    /\ starts \in 0 .. 2
    /\ egress \in {"none", "open", "eom"}
    /\ lambda \in {"none", "work", "reply", "html"}
    /\ pool \in BOOLEAN
    /\ upstream \in {"none", "connecting", "refused", "open", "headers", "body", "chain", "empty", "done",
                     "bad", "failed"}
    /\ process \in {"up", "died"}

\* Only two handlers ever begin a second response: AuthenticationRequestHandler for methods other
\* than POST, and giphy's when the other server fails after its headers were passed on.
AnsweredOnce ==
    starts > 1 => \/ handler = "authenticate" /\ method # "POST"
                  \/ Is("giphy", {"JSON"}) /\ upstream = "failed"

\* When a transaction ends regularly, nothing is under way that would still use the handler, the
\* one exception being an AuthenticationRequestHandler that was sent a body with another method.
CompleteIsQuiet ==
    conn = "complete" =>
        \/ lambda = "none" /\ ~pool /\ upstream \notin {"connecting", "open", "headers", "body", "chain"}
        \/ handler = "authenticate" /\ method # "POST"

\* A request with a token that is not valid gets one response, and no part of a handler works on it.
RejectedIsUntouched ==
    token = "invalid" /\ conn \notin {"new", "headers"} =>
        starts = 1 /\ egress = "eom" /\ lambda = "none" /\ ~pool /\ upstream = "none"

\* While its connection lasts, a request that other requests do not disturb at _cfh_map ends the
\* process only in the cases of Throws, with a second response, and with an empty answer of giphy.
\* A disturbed one can besides when its token is looked up, and when its handler uses the store.
Survives ==
    process = "died" =>
        \/ conn = "failed" \/ Throws
        \/ disturbed /\ (token = "unchecked" \/ UsesStore)
        \/ handler = "authenticate" /\ method # "POST"
        \/ handler = "giphy" /\ upstream \in {"failed", "empty"}

\* The handlers left when a request is over are those that were replaced by a later factory, and
\* giphy's.
LeftBehind ==
    Gone => heap = {h \in Made(path) : h # handler \/ h = "giphy"}

\* The methods without a case, and what another server does not answer as it should.
Silent ==
    \/ Is("rest", {"NONE"})
    \/ handler \in {"endpoints", "users"} /\ method = "PUT"
    \/ Is("giphy", {"JSON"}) /\ upstream \in {"done", "empty"}
    \/ handler \in {"giphy", "xkcd"} /\ upstream \in {"refused", "bad"}

\* A request that came as a whole and is not answered is being worked on: a lambda waits that will
\* find its handler, or the pool has it, or another server has yet to be heard.  None of the ways
\* through onRequest, onEOM, the lambdas and the callbacks of the other server drops it, but for
\* those Silent names.
AnswerIsComing ==
    conn = "open" /\ ingress = "eom" /\ egress # "eom" /\ process = "up" /\ ~Silent =>
        \/ lambda # "none" /\ handler \in heap
        \/ pool
        \/ upstream \in {"connecting", "open", "headers", "body", "chain"}

\* ... and it is answered, or its connection ends, or the process, with the same exceptions.
Answered == (conn = "open" /\ ingress = "eom") ~> (egress = "eom" \/ Gone \/ process = "died" \/ Silent)
=============================================================================
