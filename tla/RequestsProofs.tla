--------------------------- MODULE RequestsProofs ---------------------------
(***************************************************************************)
(* Proofs about a request, for every set of paths.  The argument is one     *)
(* about debts: what is under way for a request owes it its response, so    *)
(* that none was begun before, and at most one thing is under way.          *)
(***************************************************************************)
EXTENDS Requests, TLAPS

Active == {"connecting", "open", "headers", "body", "chain"}
Busy == lambda # "none" \/ pool \/ upstream \in Active
Twice == handler = "authenticate" /\ method # "POST"
Kept == {h \in Made(path) : h # handler \/ h = "giphy"}

\* nothing happens before onRequest
Unstarted ==
    conn \in {"new", "headers"} => starts = 0 /\ ingress = "open" /\ ~Busy /\ upstream = "none"

\* the handlers that are left, from the factories to the end
Heap ==
    /\ conn # "new" => handler \in Made(path)
    /\ conn = "headers" => heap = Made(path)
    /\ conn = "open" => heap = IF token = "invalid" THEN Kept ELSE Made(path)
    /\ LeftBehind

Unchecked ==
    token = "unchecked" => disturbed /\ (conn \notin {"new", "headers"} => process = "died")

\* who may have what under way
Kinds ==
    /\ lambda = "reply" \/ pool => Is("users", {"POST"})
    /\ pool => lambda = "none"
    /\ lambda = "html" => Is("giphy", {"HTML"}) /\ upstream \in {"done", "empty"}
    /\ lambda = "work" => handler # "giphy" /\ upstream = "none"
    /\ upstream # "none" => handler \in {"xkcd", "giphy"}

\* a response has started if and only if it is begun
Counted == (starts = 0) <=> (egress = "none")

\* what is under way owes the response
Owed == handler # "giphy" /\ ~Twice => starts \in {0, 1} /\ (Busy => starts = 0)

OwedTwice == Twice /\ lambda = "work" => starts \in {0, 1}

\* a response that is passed on is begun with the headers and not ended
OwedGiphy ==
    handler = "giphy" =>
        /\ upstream \in {"connecting", "open"} \/ lambda = "html" => starts = 0
        /\ upstream \in Active /\ method # "JSON" => starts = 0
        /\ egress = "eom" => ~Busy
        /\ starts > 1 => method = "JSON" /\ upstream = "failed"

\* before onEOM nothing is under way for those who answer there
Fresh ==
    conn = "open" /\ ingress = "open" /\ token # "invalid" =>
        /\ handler \in {"rest", "users", "direct", "blacklist"} => starts = 0 /\ ~Busy
        /\ Is("endpoints", {"POST", "PUT"}) => starts = 0 /\ ~Busy
        /\ Is("authenticate", {"POST"}) => starts = 0 /\ ~Busy
        /\ Twice => starts \in {0, 1} /\ ~Busy

Places == Unstarted /\ Heap /\ Unchecked
Debts == Kinds /\ Counted /\ Owed /\ OwedTwice /\ OwedGiphy /\ Fresh
Claims == CompleteIsQuiet /\ RejectedIsUntouched /\ Survives

IInv == TypeOK /\ Places /\ Debts /\ Claims

-----------------------------------------------------------------------------

LEMMA HandlersAre ==
    Handlers = {"direct", "rest", "xkcd", "giphy", "users", "endpoints", "authenticate", "blacklist"}
  BY DEF Handlers, Rank

LEMMA InitIInv == Init => IInv
<1> SUFFICES ASSUME Init PROVE IInv
  OBVIOUS
<1>1. TypeOK
  <2>1. "GET" \in Methods["direct"] /\ "direct" \in Handlers
    BY HandlersAre DEF Methods
  <2>2. handler \in Handlers /\ method \in Methods[handler]
    BY <2>1 DEF Init
  <2>3. starts \in 0 .. 2 /\ heap \subseteq Handlers
    BY DEF Init
  <2>4. pool \in BOOLEAN
    BY DEF Init
  <2> QED
    BY <2>2, <2>3, <2>4 DEF Init, TypeOK, Tokens
<1>2. Places
  BY DEF Init, Places, Unstarted, Heap, LeftBehind, Unchecked, Busy, Active, Gone
<1>3. Debts
  BY DEF Init, Debts, Kinds, Counted, Owed, OwedTwice, OwedGiphy, Fresh, Busy, Active, Twice
<1>4. Claims
  BY DEF Init, Claims, CompleteIsQuiet, RejectedIsUntouched, Survives
<1> QED
  BY <1>1, <1>2, <1>3, <1>4 DEF IInv

LEMMA StutterIInv == IInv /\ UNCHANGED vars => IInv'
<1> SUFFICES ASSUME IInv, UNCHANGED vars PROVE IInv'
  OBVIOUS
<1> USE DEF vars, request, response, work, Busy, Gone, Made, Kept, Twice, Is
<1>1. TypeOK'
  BY DEF IInv, TypeOK
<1>2. Places'
  BY DEF IInv, Places, Unstarted, Heap, LeftBehind, Unchecked
<1>3. Debts'
  BY DEF IInv, Debts, Kinds, Counted, Owed, OwedTwice, OwedGiphy, Fresh
<1>4. Claims'
  BY DEF IInv, Claims, CompleteIsQuiet, RejectedIsUntouched, Survives, Throws, UsesStore
<1> QED
  BY <1>1, <1>2, <1>3, <1>4 DEF IInv

\* The factories.
LEMMA ReceiveIInv == IInv /\ process = "up" /\ Receive => IInv'
<1> SUFFICES ASSUME IInv, process = "up", Receive PROVE IInv'
  OBVIOUS
<1> USE DEF IInv, TypeOK, Places, Unstarted, Heap, LeftBehind, Unchecked, Kinds, Counted, Owed,
       OwedTwice, OwedGiphy, Fresh, Debts, Claims, CompleteIsQuiet, RejectedIsUntouched, Survives,
       Throws, UsesStore, Undefined, request, response, work, Busy, Active, Gone, Made, Kept, Twice, Is
<1>1. CASE Receive
  <2> USE <1>1 DEF Receive
  <2>0. /\ disturbed' \in BOOLEAN
        /\ token' = "unchecked" => disturbed' = TRUE
        /\ conn' = "headers"
    OBVIOUS
  <2>1. TypeOK'
    <3>0. PICK p \in Paths : \E h \in Made(p) :
            path' = p /\ handler' = h /\ heap' = Made(p) /\ method' \in Methods[h] /\ token' \in Tokens
      BY DEF Tokens
    <3>1. PICK h \in Made(p) :
            path' = p /\ handler' = h /\ heap' = Made(p) /\ method' \in Methods[h] /\ token' \in Tokens
      BY <3>0
    <3>2. Made(p) \subseteq Handlers
      BY PathsAssumption, HandlersAre DEF Made
    <3> HIDE <1>1 DEF Receive
    <3>3. UNCHANGED <<body, ingress, response, work, process>>
      BY <1>1 DEF Receive
    <3> QED
      BY <2>0, <3>1, <3>2, <3>3 DEF TypeOK
  <2>2. Places'
    <3>1. Unchecked'
      BY <2>0
    <3>2. Unstarted' /\ Heap'
      OBVIOUS
    <3> QED
      BY <3>1, <3>2
  <2>3. Debts'
    OBVIOUS
  <2>4. Claims'
    OBVIOUS
  <2> QED BY <2>1, <2>2, <2>3, <2>4
<1> QED
  BY <1>1

\* onRequest, of the filter and of each handler.
LEMMA OnRequestIInv == IInv /\ process = "up" /\ OnRequest => IInv'
<1> SUFFICES ASSUME IInv, process = "up", OnRequest PROVE IInv'
  OBVIOUS
<1> USE DEF IInv, TypeOK, Places, Unstarted, Heap, LeftBehind, Unchecked, Kinds, Counted, Owed,
       OwedTwice, OwedGiphy, Fresh, Debts, Claims, CompleteIsQuiet, RejectedIsUntouched, Survives,
       Throws, UsesStore, Undefined, request, response, work, Busy, Active, Gone, Made, Kept, Twice, Is
<1>1. CASE Reject
  BY <1>1 DEF Reject, InRequest, Answer, Begin, Release
<1>2. CASE FilterDies
  BY <1>2 DEF FilterDies, InRequest
<1>3. CASE NoteRequest
  BY <1>3 DEF NoteRequest, InRequest, Reached
<1>4. CASE EndpointsOnRequest
  BY <1>4 DEF EndpointsOnRequest, InRequest, Reached, Answer, Begin
<1>5. CASE EndpointsOnRequestDies
  BY <1>5 DEF EndpointsOnRequestDies, InRequest, Reached
<1>6. CASE AuthenticateOnRequest
  BY <1>6 DEF AuthenticateOnRequest, InRequest, Reached, Answer, Begin
<1>7. CASE XkcdOnRequest
  BY <1>7 DEF XkcdOnRequest, InRequest, Reached, Answer, Begin
<1>8. CASE GiphyOnRequest
  BY <1>8 DEF GiphyOnRequest, InRequest, Reached, Answer, Begin
<1> QED
  BY <1>1, <1>2, <1>3, <1>4, <1>5, <1>6, <1>7, <1>8 DEF OnRequest

\* onEOM.
LEMMA OnEOMIInv == IInv /\ process = "up" /\ OnEOM => IInv'
<1> SUFFICES ASSUME IInv, process = "up", OnEOM PROVE IInv'
  OBVIOUS
<1> USE DEF IInv, TypeOK, Places, Unstarted, Heap, LeftBehind, Unchecked, Kinds, Counted, Owed,
       OwedTwice, OwedGiphy, Fresh, Debts, Claims, CompleteIsQuiet, RejectedIsUntouched, Survives,
       Throws, UsesStore, Undefined, request, response, work, Busy, Active, Gone, Made, Kept, Twice, Is
<1>1. CASE RestOnEOM
  BY <1>1 DEF RestOnEOM, InEOM, Reached, EOM, Answer, Begin
<1>2. CASE EndpointsOnEOM
  BY <1>2 DEF EndpointsOnEOM, InEOM, Reached, EOM, Answer, Begin
<1>3. CASE UsersOnEOM
  BY <1>3 DEF UsersOnEOM, InEOM, Reached, EOM, Answer, Begin
<1>4. CASE AuthenticateOnEOM
  BY <1>4 DEF AuthenticateOnEOM, InEOM, Reached, EOM, Answer, Begin
<1>5. CASE DirectOnEOM
  BY <1>5 DEF DirectOnEOM, InEOM, Reached, EOM, Answer, Begin
<1>6. CASE IgnoreEOM
  BY <1>6 DEF IgnoreEOM, InEOM, Reached, EOM, Answer, Begin
<1> QED
  BY <1>1, <1>2, <1>3, <1>4, <1>5, <1>6 DEF OnEOM

\* The lambdas.
LEMMA LoopIInv == IInv /\ process = "up" /\ Loop => IInv'
<1> SUFFICES ASSUME IInv, process = "up", Loop PROVE IInv'
  OBVIOUS
<1> USE DEF IInv, TypeOK, Places, Unstarted, Heap, LeftBehind, Unchecked, Kinds, Counted, Owed,
       OwedTwice, OwedGiphy, Fresh, Debts, Claims, CompleteIsQuiet, RejectedIsUntouched, Survives,
       Throws, UsesStore, Undefined, request, response, work, Busy, Active, Gone, Made, Kept, Twice, Is
<1>1. CASE Work
  BY <1>1 DEF Work, InLambda, Answer, Begin
<1>2. CASE WorkThrows
  BY <1>2 DEF WorkThrows, InLambda
<1>3. CASE Parse
  BY <1>3 DEF Parse, InLambda
<1>4. CASE Reply
  BY <1>4 DEF Reply, InLambda, Answer, Begin
<1>5. CASE Fetch
  BY <1>5 DEF Fetch, InLambda
<1>6. CASE RunDeleted
  BY <1>6 DEF RunDeleted, Undefined
<1>7. CASE RunHtml
  BY <1>7 DEF RunHtml, InLambda, Answer, Begin
<1> QED
  BY <1>1, <1>2, <1>3, <1>4, <1>5, <1>6, <1>7 DEF Loop

\* The pool.
LEMMA ComputeIInv == IInv /\ process = "up" /\ (Compute \/ ComputeDies) => IInv'
<1> SUFFICES ASSUME IInv, process = "up", Compute \/ ComputeDies PROVE IInv'
  OBVIOUS
<1> USE DEF IInv, TypeOK, Places, Unstarted, Heap, LeftBehind, Unchecked, Kinds, Counted, Owed,
       OwedTwice, OwedGiphy, Fresh, Debts, Claims, CompleteIsQuiet, RejectedIsUntouched, Survives,
       Throws, UsesStore, Undefined, request, response, work, Busy, Active, Gone, Made, Kept, Twice, Is
<1>1. CASE Compute
  BY <1>1 DEF Compute
<1>2. CASE ComputeDies
  BY <1>2 DEF ComputeDies
<1> QED
  BY <1>1, <1>2

\* The connection to another server.
LEMMA ServerIInv == IInv /\ process = "up" /\ Server => IInv'
<1> SUFFICES ASSUME IInv, process = "up", Server PROVE IInv'
  OBVIOUS
<1> USE DEF IInv, TypeOK, Places, Unstarted, Heap, LeftBehind, Unchecked, Kinds, Counted, Owed,
       OwedTwice, OwedGiphy, Fresh, Debts, Claims, CompleteIsQuiet, RejectedIsUntouched, Survives,
       Throws, UsesStore, Undefined, request, response, work, Busy, Active, Gone, Made, Kept, Twice, Is,
       Undefined
<1>1. CASE ConnectSuccess
  BY <1>1 DEF ConnectSuccess, Upstream
<1>2. CASE ConnectError
  BY <1>2 DEF ConnectError, Upstream
<1>3. CASE XkcdBody
  <2> USE <1>3 DEF XkcdBody, Upstream
  <2>1. TypeOK'
    OBVIOUS
  <2>2. Places'
    OBVIOUS
  <2>3. Debts'
    OBVIOUS
  <2>4. Claims'
    OBVIOUS
  <2> QED BY <2>1, <2>2, <2>3, <2>4
<1>4. CASE XkcdEOM
  <2> USE <1>4 DEF XkcdEOM, Upstream, Answer, Begin
  <2>1. TypeOK'
    <3>1. CASE handler \notin heap
      BY <3>1
    <3>2. CASE handler \in heap
      <4>1. CASE Upstream({"body", "chain"}, "done") /\ Answer
        <5>1. starts = 0 /\ conn = "open"
          BY <3>2, <4>1
        <5> QED
          BY <4>1, <5>1
      <4>2. CASE Upstream({"open", "body", "chain"}, "bad") /\ UNCHANGED <<response, process>>
        BY <4>2
      <4> QED
        BY <3>2, <4>1, <4>2
    <3> QED
      BY <3>1, <3>2
  <2>2. Places'
    OBVIOUS
  <2>3. Debts'
    OBVIOUS
  <2>4. Claims'
    OBVIOUS
  <2> QED BY <2>1, <2>2, <2>3, <2>4
<1>5. CASE XkcdError
  BY <1>5 DEF XkcdError, Upstream
<1>6. CASE GiphyHeaders
  BY <1>6 DEF GiphyHeaders, Upstream, Begin
<1>7. CASE GiphyBody
  BY <1>7 DEF GiphyBody, Upstream
<1>8. CASE GiphyEOM
  <2> USE <1>8 DEF GiphyEOM, Upstream
  <2>1. TypeOK'
    OBVIOUS
  <2>2. Places'
    OBVIOUS
  <2>3. Debts'
    OBVIOUS
  <2>4. Claims'
    OBVIOUS
  <2> QED BY <2>1, <2>2, <2>3, <2>4
<1>9. CASE GiphyError
  BY <1>9 DEF GiphyError, Upstream, Answer, Begin
<1> QED
  BY <1>1, <1>2, <1>3, <1>4, <1>5, <1>6, <1>7, <1>8, <1>9 DEF Server

\* The regular end of the transaction: what was answered owes nothing.
LEMMA CompleteIInv == IInv /\ process = "up" /\ Complete => IInv'
<1> SUFFICES ASSUME IInv, process = "up", Complete PROVE IInv'
  OBVIOUS
<1> USE DEF IInv, TypeOK, Places, Unstarted, Heap, LeftBehind, Unchecked, Kinds, Counted, Owed,
       OwedTwice, OwedGiphy, Fresh, Debts, Claims, CompleteIsQuiet, RejectedIsUntouched, Survives,
       Throws, UsesStore, Undefined, request, response, work, Busy, Active, Gone, Made, Kept, Twice, Is
<1>1. CASE Complete
  BY <1>1 DEF Complete, End, Release, CancelConnect
<1> QED
  BY <1>1

\* The loss of the connection, at any time.
LEMMA FailIInv == IInv /\ process = "up" /\ Fail => IInv'
<1> SUFFICES ASSUME IInv, process = "up", Fail PROVE IInv'
  OBVIOUS
<1> USE DEF IInv, TypeOK, Places, Unstarted, Heap, LeftBehind, Unchecked, Kinds, Counted, Owed,
       OwedTwice, OwedGiphy, Fresh, Debts, Claims, CompleteIsQuiet, RejectedIsUntouched, Survives,
       Throws, UsesStore, Undefined, request, response, work, Busy, Active, Gone, Made, Kept, Twice, Is
<1>1. CASE Fail
  BY <1>1 DEF Fail, End, Release, CancelConnect
<1> QED
  BY <1>1

LEMMA NextIInv == IInv /\ [Next]_vars => IInv'
<1> SUFFICES ASSUME IInv, [Next]_vars PROVE IInv'
  OBVIOUS
<1> QED
  BY StutterIInv, ReceiveIInv, OnRequestIInv, OnEOMIInv, LoopIInv, ComputeIInv, ServerIInv,
     CompleteIInv, FailIInv DEF Next

-----------------------------------------------------------------------------

LEMMA Invariance == Spec => []IInv
  BY InitIInv, NextIInv, PTL DEF Spec

\* Every variable keeps its type; no response is begun a third time.
THEOREM RequestsTypeCorrect == Spec => []TypeOK
<1>1. IInv => TypeOK
  BY DEF IInv
<1> QED
  BY Invariance, <1>1, PTL

\* No handler but the two begins a second response.
THEOREM RequestsAnsweredOnce == Spec => []AnsweredOnce
<1>1. IInv => AnsweredOnce
  BY DEF IInv, TypeOK, Debts, Owed, OwedGiphy, Twice, AnsweredOnce, Is
<1> QED
  BY Invariance, <1>1, PTL

\* A transaction that ends regularly leaves nothing under way, but for the case named.
THEOREM CompletionIsQuiet == Spec => []CompleteIsQuiet
<1>1. IInv => CompleteIsQuiet
  BY DEF IInv, Claims
<1> QED
  BY Invariance, <1>1, PTL

\* A request the filter rejects gets one response and reaches no handler.
THEOREM RejectedRequestsAreUntouched == Spec => []RejectedIsUntouched
<1>1. IInv => RejectedIsUntouched
  BY DEF IInv, Claims
<1> QED
  BY Invariance, <1>1, PTL

\* For every set of paths: while its connection lasts, a request ends the process in the cases named
\* only, and one that is not disturbed at _cfh_map in fewer of them.
THEOREM RequestsSurvive == Spec => []Survives
<1>1. IInv => Survives
  BY DEF IInv, Claims
<1> QED
  BY Invariance, <1>1, PTL

\* Exactly the replaced handlers and giphy's are left when a request is over.
THEOREM HandlersLeftBehind == Spec => []LeftBehind
<1>1. IInv => LeftBehind
  BY DEF IInv, Places, Heap
<1> QED
  BY Invariance, <1>1, PTL

-----------------------------------------------------------------------------
(* No request is dropped *)

\* who answers before the request has come as a whole
Prompt == handler \in {"xkcd", "giphy"} \/ Is("endpoints", {"LIST", "GET", "DELETE", "OPTIONS"}) \/ Twice

\* AnswerIsComing, and the same from onRequest on for those who do not wait for onEOM; a query that
\* is none is not sent to giphy
Promised ==
    /\ conn = "open" /\ egress # "eom" /\ process = "up" /\ ~Silent /\ (ingress = "eom" \/ Prompt) => Busy
    /\ Is("giphy", {"BAD"}) => upstream = "none"

\* A lambda of a request that is not answered finds its handler.
LEMMA HandlerStays ==
    ASSUME IInv, conn = "open", egress # "eom"
    PROVE  token # "invalid" /\ handler \in heap
BY DEF IInv, Claims, RejectedIsUntouched, Places, Heap

\* onRequest answers, queues the work, connects, or waits for onEOM.
LEMMA PromisedOnRequest ==
    ASSUME IInv, Promised, process = "up", OnRequest
    PROVE  Promised'
<1> USE DEF Promised, Prompt, Silent, Twice, Is, Busy, Active, Answer, Begin, Gone, request, response,
            work
<1>0. handler \in Handlers /\ method \in Methods[handler]
  BY DEF IInv, TypeOK
<1>1. /\ ~Gone /\ starts = 0 /\ ingress = "open" /\ UNCHANGED <<handler, method>>
  BY DEF OnRequest, Reject, FilterDies, NoteRequest, EndpointsOnRequest, EndpointsOnRequestDies,
         AuthenticateOnRequest, XkcdOnRequest, GiphyOnRequest, InRequest, IInv, Places, Unstarted
<1>2. CASE Reject
  BY <1>1, <1>2 DEF Reject
<1>3. CASE FilterDies \/ EndpointsOnRequestDies
  BY <1>1, <1>3 DEF FilterDies, EndpointsOnRequestDies
<1>4. CASE NoteRequest
  BY <1>1, <1>4 DEF NoteRequest, Reached
<1>5. CASE EndpointsOnRequest
  BY <1>1, <1>5 DEF EndpointsOnRequest, Reached
<1>6. CASE AuthenticateOnRequest
  BY <1>1, <1>6 DEF AuthenticateOnRequest, Reached
<1>7. CASE XkcdOnRequest
  BY <1>0, <1>1, <1>7, HandlersAre DEF XkcdOnRequest, Reached, Methods
<1>8. CASE GiphyOnRequest
  BY <1>1, <1>8 DEF GiphyOnRequest, Reached
<1> QED BY <1>2, <1>3, <1>4, <1>5, <1>6, <1>7, <1>8 DEF OnRequest

\* onEOM answers or queues the work, for every method of those who have waited for it.
LEMMA PromisedOnEOM ==
    ASSUME IInv, Promised, process = "up", OnEOM
    PROVE  Promised'
<1> USE DEF Promised, Prompt, Silent, Twice, Is, Busy, Active, EOM, Answer, Begin, Gone, request,
            response, work, InEOM
<1>0. handler \in Handlers /\ method \in Methods[handler]
  BY DEF IInv, TypeOK
<1>1. RejectedIsUntouched
  BY DEF IInv, Claims
<1>2. /\ ~Gone /\ UNCHANGED <<handler, method, upstream, pool>>
  BY DEF OnEOM, RestOnEOM, EndpointsOnEOM, UsersOnEOM, AuthenticateOnEOM, DirectOnEOM, IgnoreEOM
<1>3. CASE RestOnEOM
  BY <1>0, <1>2, <1>3, HandlersAre DEF RestOnEOM, Reached, Methods
<1>4. CASE EndpointsOnEOM
  BY <1>0, <1>2, <1>4, HandlersAre DEF EndpointsOnEOM, Reached, Methods
<1>5. CASE UsersOnEOM
  BY <1>0, <1>2, <1>5, HandlersAre DEF UsersOnEOM, Reached, Methods
<1>6. CASE AuthenticateOnEOM
  BY <1>2, <1>6 DEF AuthenticateOnEOM, Reached
<1>7. CASE DirectOnEOM
  BY <1>0, <1>2, <1>7, HandlersAre DEF DirectOnEOM, Reached, Methods
<1>8. CASE IgnoreEOM
  BY <1>1, <1>2, <1>8 DEF IgnoreEOM, Reached, RejectedIsUntouched
<1> QED BY <1>3, <1>4, <1>5, <1>6, <1>7, <1>8 DEF OnEOM

\* A lambda answers, throws, or hands the request on.
LEMMA PromisedLoop ==
    ASSUME IInv, Promised, process = "up", Loop \/ Compute \/ ComputeDies
    PROVE  Promised'
<1> USE DEF Promised, Prompt, Silent, Twice, Is, Busy, Active, Answer, Begin, Gone, request, response,
            work, InLambda
<1>1. CASE Work
  BY <1>1 DEF Work
<1>2. CASE WorkThrows
  BY <1>2 DEF WorkThrows
<1>3. CASE Parse
  BY <1>3 DEF Parse
<1>4. CASE Reply
  BY <1>4 DEF Reply
<1>5. CASE Fetch
  BY <1>5 DEF Fetch
<1>6. CASE RunDeleted
  <2>1. conn = "open" => egress = "eom"
    BY <1>6, HandlerStays DEF RunDeleted
  <2> QED BY <1>6, <2>1 DEF RunDeleted
<1>7. CASE RunHtml
  <2>1. Is("giphy", {"HTML"})
    BY <1>7 DEF RunHtml, IInv, Debts, Kinds
  <2> QED BY <1>7, <2>1 DEF RunHtml
<1>8. CASE Compute
  BY <1>8 DEF Compute
<1>9. CASE ComputeDies
  BY <1>9 DEF ComputeDies
<1> QED BY <1>1, <1>2, <1>3, <1>4, <1>5, <1>6, <1>7, <1>8, <1>9 DEF Loop

\* What the other server says, or its silence, leads to an answer or to one of the exceptions.
LEMMA PromisedServer ==
    ASSUME IInv, Promised, process = "up", Server
    PROVE  Promised'
<1> USE DEF Promised, Prompt, Silent, Twice, Is, Busy, Active, Answer, Begin, Gone, request, response,
            work, Upstream
<1>0. handler \in Handlers /\ method \in Methods[handler]
  BY DEF IInv, TypeOK
<1>1. handler \in {"xkcd", "giphy"}
  BY DEF Server, ConnectSuccess, ConnectError, XkcdBody, XkcdEOM, XkcdError, GiphyHeaders, GiphyBody,
         GiphyEOM, GiphyError, IInv, Debts, Kinds
<1>2. CASE ConnectSuccess
  BY <1>2 DEF ConnectSuccess
<1>3. CASE ConnectError
  BY <1>1, <1>3 DEF ConnectError
<1>4. CASE XkcdBody
  BY <1>4 DEF XkcdBody
<1>5. CASE XkcdEOM
  <2>1. CASE handler \notin heap
    <3>1. conn = "open" => egress = "eom"
      BY <2>1, HandlerStays
    <3> QED BY <1>5, <2>1, <3>1 DEF XkcdEOM
  <2>2. CASE handler \in heap
    BY <1>5, <2>2 DEF XkcdEOM
  <2> QED BY <2>1, <2>2
<1>6. CASE XkcdError
  BY <1>6 DEF XkcdError
<1>7. CASE GiphyHeaders
  BY <1>7 DEF GiphyHeaders
<1>8. CASE GiphyBody
  BY <1>8 DEF GiphyBody
<1>9. CASE GiphyEOM
  <2>1. method \in {"JSON", "HTML"}
    BY <1>0, <1>9, HandlersAre DEF GiphyEOM, Methods
  <2> QED BY <1>9, <2>1 DEF GiphyEOM
<1>10. CASE GiphyError
  BY <1>10 DEF GiphyError
<1> QED BY <1>2, <1>3, <1>4, <1>5, <1>6, <1>7, <1>8, <1>9, <1>10 DEF Server

\* Whatever is promised is kept, until the transaction ends.
LEMMA PromisedNext == IInv /\ Promised /\ [Next]_vars => Promised'
<1> SUFFICES ASSUME IInv, Promised, [Next]_vars PROVE Promised'
  OBVIOUS
<1>1. CASE UNCHANGED vars
  BY <1>1 DEF vars, request, response, work, Promised, Prompt, Silent, Twice, Is, Busy, Active
<1>2. CASE Receive \/ Complete \/ Fail
  <2>1. conn' # "open"
    BY <1>2 DEF Receive, Complete, Fail, End
  <2>2. CASE Receive
    BY <2>2, <2>1 DEF Receive, IInv, Places, Unstarted, Promised, work
  <2>3. CASE Complete \/ Fail
    BY <2>1, <2>3 DEF Complete, Fail, End, CancelConnect, Promised, Is, request
  <2> QED BY <1>2, <2>2, <2>3
<1> QED BY <1>1, <1>2, PromisedOnRequest, PromisedOnEOM, PromisedLoop, PromisedServer DEF Next

\* For every set of paths: no request that came as a whole is dropped, whatever its handler, its
\* method, its token and its body, but for the cases Silent names.
THEOREM RequestsAreNotDropped == Spec => []AnswerIsComing
<1>1. Init => Promised
  BY DEF Init, Promised
<1>2. IInv /\ Promised => AnswerIsComing
  BY HandlerStays DEF Promised, Busy, Active, AnswerIsComing
<1> QED BY <1>1, <1>2, InitIInv, NextIInv, PromisedNext, PTL DEF Spec
=============================================================================
