# restdbxx in TLA+

restdbxx is an HTTP server on proxygen that keeps JSON objects in RocksDB.
Clients register endpoints (urls), post, put, get and list objects under them,
manage users and tokens, fetch files, and use two proxies (xkcd, giphy).  This
directory models the parts of it in which the order of events matters, checks
them with TLC on small instances, and proves the main results with TLAPS for
every value of the constants.

Paths are relative to the repository's `src/`; `PROJECT.json` maps every
definition to the lines it stands for and lists the runs, theorems, hazards
and disagreements between code and documentation that are quoted below.

## 1. The system

### Threads and how the parts interact

* `FLAGS_threads` event-base threads.  Each connection belongs to one; all
  callbacks of its handlers, and whatever they queue with `runInLoop` or
  `runInEventBaseThread`, run there, one after the other.
* A CPU pool of `FLAGS_threads` threads (`folly::getCPUExecutor`), used by
  `FileServerRequestHandler` and `UserRequestHandler`.
* One `DbManager` for the process, called by all of them without a lock of its
  own.  It holds the `rocksdb::TransactionDB`, whose transactions lock keys,
  and `_cfh_map`, a plain `std::map` from url to column family handle.
* For each request a chain of factories picks a handler: each is asked, from
  the last of `main`'s list to the first, and one that matches replaces what it
  was given.  `FiltersFactory` puts Logging, Cors and Authentication filters in
  front.  Handlers delete themselves in `requestComplete` or `onError`.  Paths
  that begin with `__`, and the root, are not valid for
  `RestDbRequestHandlerFactory`, which makes a handler with a fixed answer for
  them.
* The two proxies open a connection of their own to another server, whose
  callbacks run on the same event base.

### Components

| component | state | operations | what is hard | what makes it correct |
|---|---|---|---|---|
| DbManager, endpoint store | column families on disk: counters, descriptors, a family per endpoint, a second copy of all objects; `_cfh_map`, key locks | `post`, `put`, `add_endpoint`, `delete_endpoint`, `get`, `get_all` | calls of several threads overlap in every order; writes fail and are only logged; lock timeouts; crashes between steps | ids are unique, listings dense, the handle map current, a failed call blocks its own url at most, every call answered |
| DbManager, start-up | which families exist, which endpoints are registered | `is_initialized`, `perform_database_init_tasks`, constructor, `cleanTokens`, `init_services` | starts cut short anywhere; databases clients have changed | a start gets up, with usable handles; the user admin is made |
| FileServerRequestHandler | open file, `paused_`, `finished_`, `readFileScheduled_`, queued lambdas | `onRequest`, `readFile`, `listFiles`, `onEgressPaused/Resumed`, `requestComplete`, `onError` | pool thread against event base; pause against resume; who deletes last | one reader; the response is the file; no lost wake-up; no use after delete |
| DbManager, users and tokens | families `/__users`, `/__tokens` | `raw_save`, `raw_get`, `get_user`, `cleanTokens` | writes fail and are only logged; expiry at a boundary; a key read after the iterator moved | a token is valid for its lifetime, and nobody else's |
| UserManager, User | none | `create_user`, `authenticate`, `get_access_token`, `validate_access_token` | check and use in separate calls | one creation per name; a token comes from a password |
| UserRequestHandler | body, request | GET, POST, OPTIONS | check-then-create on the pool; handler deleted meanwhile | no user is created twice; nothing runs in a deleted handler |
| AuthenticationFilter | `upstream_`, `downstream_` | every callback | a rejection deletes the handler, not the filter; a look-up that throws | nothing reaches a deleted handler |
| AuthenticationRequestHandler | body | POST, OPTIONS | answers in `onRequest` and again in `onEOM` | one answer per request |
| RestDbRequestHandler, EndpointController | body, request | the methods of the store and of `/__endpoints` | queued lambdas and `delete this`; lambdas that throw; methods without an answer | one answer per request |
| JsonClient, XkcdRequestHandler | connector, transaction, promise | `fetch`, callbacks of the other server | errors that never fulfil the promise; exceptions sliced on the way | every fetch ends |
| GiphySearchRequestHandler | session, transaction, collected body | relays headers, chunks, end | two connections with lives of their own | one answer; the handler is deleted |
| factories, routing, Validations | a list of paths | choose a handler | a later factory replaces the handler of an earlier one | one handler per request |
| Logging and Cors filters | almost none | forward | nothing that depends on order | - |
| EndpointDescriptor, RestDbConfiguration, main | values | conversions, getters, wiring | nothing that depends on order | - |

## 2. What is modelled

### Endpoints: the endpoint store

State and code: `counter` is the default column family (a url is an endpoint
when its counter is there), `descr` the family `/__endpoints`, `family` and
`rows` an endpoint's own family and its objects, `objects` the family
`/___all_objects___`, `handle` is `_cfh_map`, `lock` the key locks of
`TransactionDB`.  `family` numbers the generations of a url's family, so that a
handle of a dropped one can be told from a handle of its successor.

The default column family also gets objects.  A write through a null handle
names no other family, so the object's key `url/id` lands there (`stray`), and
from then on its path is taken for an endpoint, one without a handle; `Fetched`
is what a GET of the path of an object shows.  And `delete_endpoint` deletes its
objects' keys in that family, where they are not, and so locks them
(`DelObjects`), one after the other in the order of the iterator, before it asks
for the counter.  `req[t].keys` are the keys of objects a request has locked
there, `leaked` those that a deletion which threw has left locked.

Every call is cut where another thread could see a difference: `post` in four
steps, and a fifth through a null handle, `put` in seven, `add_endpoint` in six,
`delete_endpoint` in eight, `get` in four.  `pc[t]` is the step request `t` is about to take, `req[t]` are the
call's local variables.  A write may fail (`Outcomes`); a locking write fails
if somebody else has the lock, which stands for the timeout of one second.  Two
threads of which one changes `_cfh_map` while the other is in it race: the
process may die (`MapRace`) or survive.  `Crash` may come at any time; `Restart`
opens the families that are there.

`EndpointLog` is the abstract specification: an endpoint is a log to which
objects are appended, deleted as a whole.  `ImplementsLog` says that every step
of the store is an append, a deletion, or nothing.

Left out: the locks of an object's key in the two families that hold the object
(who wants one has the lock of the url's counter); urls that
are paths of each other's objects (`/a` and `/a/0`: a deletion of the one then
deletes the counter of the other); `remove`, which changes nothing in the code; the JSON of the objects.  A
family created through `GetBaseDB()` may be unknown to the transaction layer
until the next start, depending on the version of RocksDB; the model has the
failing writes this leads to among `Outcomes`.

### FileServer: one request for a file

`FileServer` is one `FileServerRequestHandler` from creation to `delete this`:
the callbacks (`Callback`), the pool (`Pool`), which runs `readFile` or
`listFiles`, and the event base (`Loop`), which runs the queued lambdas in
order.  `readFile` is cut at its test of `paused_`, the read, the queueing of
the chunk and its last lambda.  The use of a `downstream_` that has deleted
itself is undefined behaviour: it does nothing or ends the process.

`FileStream` is its abstract specification: the response is a prefix of the
file, in order, and all of it if it ends regularly.

Left out: the contents of the listing, and the request's path apart from the
four ways `onRequest` can go (refused, undecodable, file, directory).

### Boot: start-up

`Boot` is the constructor of `DbManager` and `init_services`, on a database that
is new or that earlier starts, crashes and clients left behind: which families
exist, which urls have a counter, whether the user admin is there.
`perform_database_init_tasks` makes the missing families one by one; a crash may
come between any two.  It names the built-in families only, and RocksDB opens a
database only if all its families are named (`CreateRefused`).  `add_endpoint`
of a family that exists installs a null handle (`NewHandle`), and `cleanTokens`
iterates through the handle of the tokens (`Clean`).  Clients' registrations
and deletions come one at a time here, each in two steps, which is all a start
can see of them; `removed` remembers which built-in endpoints clients deleted.
Clients may register and delete any url, those of the built-in endpoints and
families too, while they are there or after a deletion (`Registrable`,
`Deletable`); a deletion through a null handle ends the process (`DropNull`).
The writes of the constructor do not fail here.  That of the user admin may
(`Users`), for the start goes on and serves without it.

### Accounts: users and access tokens

`users` and `tokens` are the contents of the two families, `families` those of
the two that exist, `handle` their entries in `_cfh_map`, `now` the clock in seconds, `pc[c]`
the step a call is about to take.  A call of POST `/__users` is cut where it
goes to the database on the pool: `Check` (`get_user`), `Create`
(`create_user`); a login at `Authenticate`, `CreateToken` (which reads the
clock) and `SaveToken`.  `ValidateAccessToken` is the filter's question.  A
write may fail, which `raw_save` only logs (`Outcomes`).

Both families belong to endpoints, which clients may delete (`DropFamily`) and
register (`RegisterFamily`) at any moment; `Touched` says which of the two they
do that to.  Without an entry `at()` throws (`IfThere`).  A registration of an
endpoint whose family is there installs a null handle: a look-up through it ends
the process (`GetUserDies`, `FilterDies`, and `DropDies` for a deletion), a write
goes to the default family and is lost to the accounts (`Reaches`).  In the
filter nobody catches the exception either, so that there both end the process.

The process may end at any time (`Kill`); `Start` makes both
families again and goes through `cleanTokens` in two loops: `Collect`, then one
`Delete` per key.  The loop reads the slice of a key after moving the iterator;
the slice may then show the next entry's key, so `Collect` chooses among
`KeysSeen`.  The slice of the value, read as late, is assumed unharmed: were it
not, a token of any age could be taken for expired.

`late` and `fresh` are history: the creations that came when their user was
there, and the logins whose token was stored since the last start and the last
deletion of `/__tokens`.

Left out: hashes, the random token (a login's number stands for it, and its
order for the order of the keys), the flag `is_active`, which nobody reads, a
clock that is set back, the copies `raw_save` puts into `/___all_objects___`, the
user admin, which is not among the creations, and the steps of a deletion or
registration, which Endpoints has: here each is one step.

### Requests: one request and its handlers

`Requests` is one request for any handler but the file server's: the factories
(`Receive`), the filter's three outcomes and `onRequest` (`OnRequest`), `onEOM`,
the lambdas of the event base (`Loop`) and the continuation in the pool
(`Compute`, `ComputeDies`), the connection to another server (`Server`), and the end of the
transaction, regular or not (`Complete`, `Fail`), at any moment.  `heap` is the
set of handlers that exist, `starts` counts responses begun, `lambda`, `pool`
and `upstream` are what is under way.  Methods that a handler treats alike have
one name.  A second response is refused by proxygen's state machine, which may
end the process; so may a lambda that runs in a deleted handler or a response
through a `downstream_` that is gone (`Undefined`).  Exceptions that leave a
lambda or a `noexcept` callback end it for certain.  Some cases need nobody else
(`Throws`).  Others need other requests, which register or delete endpoints while
this one looks into `_cfh_map`, or have left what it looks for without a handle
or with a null one: `disturbed` says whether they do, and then the check of the
token (`FilterDies`) and every handler that uses the store (`UsesStore`) may end
the process.

Left out: contents and status of responses, trailers and upgrades (the
callbacks are empty), back-pressure other than giphy's own pause, and the two
outer filters, which forward everything.

## 3. What TLC checks

| run | question | instance |
|---|---|---|
| `all_calls` | Do the guarantees that must survive anything survive? Types, `CounterStable`, `MapNeverStale`, `RowsHaveCopies`. Who owns the locks, and what stays locked after a deletion that failed (`LocksOwned`)? Which calls can wait for each other in a circle (`DeadlocksMixCalls`)? Is every call answered (`EveryCallReturns`)? | two requests at once, one url with an object in it, every call, failing writes, crashes, 3 calls |
| `log` | Is an endpoint an append-only log with dense ids, whose listing shows what the paths of its objects show (`ImplementsLog`, `ListingsTrue`), is a 201 true (`CreatedIsStored`), do counter and descriptor never stay locked (`RecordsComeFree`)? | two requests, two endpoints; posts overlap with nothing, puts, deletions and reads with each other; crashes, 4 calls |
| `records` | Do counter, descriptor and family of an endpoint come and go in an order crashes cannot spoil (`DescribedIffCounted`, `CountedHasFamily`)? | two requests, two urls; posts and registrations overlap with nothing; crashes, 4 calls |
| `file` | One reader, no use after delete, the response is the file, no lost wake-up (`NoWakeUpLost`, and `ResponseEnds` with a peer that takes data), the handler goes away when nobody uses it any more, and not before (`DeletedInTime`, `HandlerDeleted`) | two pool threads, a file of three chunks, three pauses, an error at any moment |
| `start` | Does a start get up, with the right handles (`StartsWhole`, `ServesAgain`)? When does one die (`DiesAtMostOnce`), and does the next one survive (`DeathsExplained`)? | one url of the clients, who register and delete it, every built-in endpoint and a built-in family that is none; three crashes |
| `accounts` | Is an accepted token always one that was issued for the right password (`AcceptedWasIssued`), does a fresh one work to its last second (`TokenHonoured`), does a late creation never write (`LateCreationRefused`), does every call and every start come to its end (`CallsAnswered`, `GetsUp`)? | two creations and a login of one user with two passwords, a clock of three values, failing writes, one end of the process, both families deleted and registered again |
| `requests` | Which requests get two responses, none, or end the process (`AnsweredOnce`, `Answered`, `Survives`)? What runs after a regular end (`CompleteIsQuiet`), what of a rejected request (`RejectedIsUntouched`), which handlers stay (`LeftBehind`)? Who is working on a request that has no answer yet (`AnswerIsComing`)? | every path, method, token and body, disturbed by other requests or not; every failure of both connections, at any moment |

`AnsweredOnce`, `Answered`, `Survives`, `CompleteIsQuiet` and `LeftBehind` name
their exceptions.  Those are what the code does wrong today: a second response
for a wrong method of `/authenticate`; no answer for a method without a case or
when the other server cannot be reached, sends no JSON, or sends it in pieces;
the end of the process by a PUT without JSON or one that waits too long for the
counter, by a registration of `/__endpoints` itself, by a name that is not
resolved, and by an empty answer of giphy; a handler lost for each path of two
factories, and for each request to giphy.  `Survives` allows no others to a request
that keeps its connection and is not disturbed.  A disturbed one can end it where its
handler uses the store, and with the check of its token: which of these cases
really come about, and after which calls of other clients, is decided in
Endpoints (`MapRace`, `GetOpen`, `DelDrop`) and Accounts (`GetUserDies`,
`FilterDies`).

Runs that show a disagreement between the code and what the repository says:

| run | says | the code |
|---|---|---|
| `register_again` | `README.md:30` "POST will register a new endpoint" | if the family exists, as after a crash halfway, the endpoint gets a null handle |
| `delete_objects` | `DbManager.cpp:511` "Deleting key" | deletes from the wrong family; the objects are still served |
| `start_without_test` | `DbManager.cpp:79` "Test endpoint inexistent, creating." | once `/test_endpoint` is deleted while another endpoint exists, no start succeeds |
| `users_twice` | `UserRequestHandler.cpp:104` "user with same username already exists" | two overlapping creations of one user are both answered 201 |
| `token_lost` | `README.md:49` "if valid, request will proceed" | a start may delete a token that has not expired in place of one that has |

Three more that the models contain without a run of their own: the first start of
a new database ends in `cleanTokens`, on a null handle, and the second one works
(`main.cpp:126` "force db init"; it is the one death `DiesAtMostOnce` allows);
a start whose save of the user admin fails logs "admin user created"
(`main.cpp:134`) and serves without one (`Users` in Boot);
and a post to a url that is no endpoint stores nothing and is answered 201
without an ID (`DbManager.h:57` "will add ID property to data"; `PostCan`).

### Workloads

Some guarantees hold only for some workloads, and the constants say which:
`Ops` are the calls clients make and `Alone` those they do not let overlap with
others.  `post` reads the counter without a lock, so two posts at once can give
one id, and a post can bring back the counter of an endpoint that is being
deleted; registering a registered url resets its counter.  With posts that run
alone and no registration the store is a log; TLC finds the counterexample when
either is allowed.

### Bounds, and why they are enough

* Two requests: every lock has one owner, and each property speaks of one
  request against another or of one url; a third request repeats the second,
  but for the circles of three that `DeadlocksMixCalls` also speaks of, which the
  theorem covers.
  Three calls: create and delete an endpoint with a call in between; four
  where a listing has to grow first.  `all_calls` needs both outcomes of every
  write, so it has one url, and that has an object from the start (`Stocked`): a
  deletion that has locked the object's key, a registration that meanwhile resets
  the counter and nulls the handle, and a write through that handle are three
  calls, and the last one and the deletion wait for each other; `log` and `records` have two, for calls on
  different urls that share the lock of the count.
* Three chunks and three pauses: a pause before, between and after the reads of
  two `readFile` calls in a row, and a chunk in each of queue, thread and file.
* Three crashes: in the creation of the families, the registrations and after
  them, or one of them again in the next start; two counted deaths, where the
  property allows one.
* Two creations and one login: a creation overlaps another or comes late, and
  a login finds either one's password; the second name is nobody's, so that a
  token under a wrong name would show.  A lifetime of one second in a clock of
  three values has a second before, at and after the expiry.  One end of the
  process is enough for a clean-up at each of them.  A family whose creation or
  drop fails is left to the theorems.  `token_lost` has two logins, for a key
  that follows another; `users_twice` needs no login.  In both, clients leave the
  two endpoints alone and nothing fails, so that what they show is not the doing
  of a deletion.
* `requests` has no bound: a request has finitely many states.

The theorems of section 4 do not depend on any of these.

### Fairness, and what justifies it

* `FairSpec` of Endpoints: weak fairness of each request's next step.  A call
  runs inside one callback of an event base, which never stops running it, and
  the only waits in it are for locks, which end after one second.  Clients,
  crashes and restarts have no fairness.
* `FairSpec` of FileServer: the pool's threads and the event base run what they
  were given, and a peer that has stopped taking data takes some again.  The
  last is an assumption about the peer, used for `ResponseEnds`;
  otherwise `idleTimeout` (`main.cpp:96`) ends the connection.
  `HandlerDeleted` only assumes that the connection has ended.
* `FairSpec` of Accounts: weak fairness of each call in progress and of the
  start: event base and pool run on, and somebody starts a server that is down.
  A write may fail each time it is tried.  Clients and clock have no fairness.
* `FairSpec` of Requests: weak fairness of the event base (callbacks that are
  due and lambdas), of the pool, and of the other server, whose connection is
  made or refused within a second (`JsonClient.cpp:48`,
  `GiphySearchRequestHandler.cpp:69`) and whose silence ends by the session's
  own timeout.  Nothing makes the client go on, or its connection fail.
* `FairSpec` of Boot: a process that runs continues, and one that has ended is
  started again.

## 4. What is proved

All proofs are checked by TLAPS without exceptions, for every value of the
constants that satisfies the assumptions stated with them: any number of
requests and urls, any workload, any failures, any file and any pool.

**EndpointsProofs**

* `TypeCorrect`: types; strengthened by the facts that a request in progress
  names a url (`UrlsNamed`) and that an id is known where it is used
  (`IdsKnown`).
* `PutIdStable` (`CounterStable`) and `LocksAreOwned` (`LocksOwned`): from
  `LockInv`, which says for every request what it owns.  From the read of the
  counter until the commit a put has the counter's lock; deletions and
  registrations change a counter only when they have its lock, and a post's
  batch only when nobody has it.  So no step of another request changes the counter
  (`OthersKept`).  `CounterStable` alone is not inductive, for it says nothing
  about locks.
* `OnlyMixedDeadlocks` (`DeadlocksMixCalls`), also from `LockInv`, which says
  which keys a request owns at each place of its call.  `WaitedFor` lists who
  waits and is waited for.  Registrations lock descriptor, number of endpoints
  and counter in that order, and a write through a null handle locks the counter
  before the object's key: only a deletion takes any of these the other way
  round.  So a circle has a deletion in it, and whoever of another kind waits for
  it is a registration at the reset of the counter or a write through a null
  handle.  What is left are circles of deletions alone, all at the keys of their
  objects.  They take these in one order, so that in a finite circle the one at
  the greatest key waits for nobody (`DeletionsAlone`).  Circles of three exist,
  so that a statement about pairs would miss some.
* The second half of `LocksOwned`, on what leaked transactions keep
  (`LeaksStayLocal`): a deletion leaves locks behind at the counter or at the
  descriptor, where `LockInv` gives it the keys of its objects and its counter
  only.
* `MapIsFresh` (`MapNeverStale`): from `OwnerInv`.  The handle of a live family
  is in one place: in the map, with the registration that made it, or with the
  deletion that erased it.
* `EveryRowHasItsCopy` (`RowsHaveCopies`): every write of a row, or of an
  object that a null handle sends to the default family, writes the copy with it,
  and nothing deletes a copy.

**FileServerProofs**

* `FileTypeCorrect`; `ReadersExclude` (`OneReader`) and the first half of
  `DeletedInTime` (`AliveWhileUsed`) from `ControlInv`: the one call of `readFile` or
  `listFiles` is in one place (`OnePlace`), every place agrees with what was
  asked for (`KindsAgree`), and the flags agree with the handler's life
  (`Lifetime`).
* `HandlersGoInTime` (`DeletedInTime`, whose second half is `NoHandlerLeaks`) and `WakeUpsAreHeard` (`NoWakeUpLost`), from
  `InTime`: a file under way has its call until `readFileScheduled_` is cleared,
  a finished handler is deleted with the end of its last call, and a read loop
  ends in a pause, an error or the end of the file, of which only the pause
  leaves something to do.  These are what the liveness properties
  `HandlerDeleted` and `ResponseEnds` rest on; fairness adds that what is under
  way is done and that the peer takes data again.
* `FileIsStreamed` (`ImplementsStream`): with `ChunksInOrder` each step of the
  handler is a step of `FileStream` or changes nothing the client sees.  The
  chunks queued follow those sent, the chunk a thread holds follows those
  queued, and an end is queued behind the last chunk.

**BootProofs**

* `BootTypeCorrect`, `NullHandlesEndTheStart` (`StartsWhole`), from `StartInv`: at `cleanTokens` either the handles are
  those of the families or the handle of the tokens is null.
* `OneDeathOnly` (`DiesAtMostOnce`), from `OnceInv`: until clients delete a
  built-in endpoint, `/test_endpoint`, once registered, stays registered, and
  only the start that registers it can have null handles.
* `DeathsAreExplained` (`DeathsExplained`, of the parts `DyingHeals` and
  `LostForGood`), whatever clients delete, from `WayUp`: a start reaches `perform_database_init_tasks`
  on a database of built-in families or on one that lacks one of them, and
  reaches `cleanTokens` only with `/test_endpoint` registered.  A start that
  finds an unopenable database changes nothing on disk, so that no sequence of
  starts and crashes leads out.

**AccountsProofs**

* `AccountsTypeCorrect`; `AcceptedTokensWereIssued` (`AcceptedWasIssued`),
  `TokensAreHonoured` (`TokenHonoured`) and `LateCreationsAreRefused`
  (`LateCreationRefused`), from one invariant: a user's password is that of a
  stored creation (`UsersStored`), a login past `Authenticate` has such a
  password (`KnownStored`), each token is that of a login as it was made
  (`TokensStored`), a fresh one is there (`FreshThere`), and a late creation has
  its user still and stops at its check (`LateRefused`).  For any number of calls,
  ends of the process, deletions that hit the wrong key, and deletions and
  registrations of the two families, which may fail.

**RequestsProofs**

* `RequestsTypeCorrect` (no third response), `RequestsAnsweredOnce`,
  `CompletionIsQuiet`, `RejectedRequestsAreUntouched`, `RequestsSurvive` and
  `HandlersLeftBehind`, for every set of paths.  The argument is one about
  debts (`Debts`): what is under way for a request owes it its response, so that
  none was begun before and at most one thing is under way; `AnsweredOnce` alone
  says nothing about what is still to come.  `Places` follows the handlers from
  the factories to the end.
* `RequestsAreNotDropped` (`AnswerIsComing`), from `Promised`: each handler's
  `onEOM`, each lambda and each callback of the other server answers, hands the
  request on, or is one of the silent cases.  It is the step-by-step part of
  `Answered`.

**EndpointsWorkloadProofs**, for workloads in which writes do not fail and
posts and registrations, if clients make them, overlap with nothing (`Calm`, the
assumption of the run `records`)

* `RecordsAreFreed` (`RecordsComeFree`): from `DescrOwned`.  A deletion that
  does not get the counter throws while it has locked keys of objects only; the
  next lock it asks for is that of the descriptor, which only a registration can
  have without the counter's; and registrations run alone (`Solo`).
* `RecordsComeTogether` (`DescribedIffCounted`) and `EndpointsHaveFamilies`
  (`CountedHasFamily`), from `Records`, which adds what each request may count
  on in between (`CalmAt`): a registration that its values are staged, a
  deletion that its url is still no endpoint when it drops the family.

**EndpointsLogProofs**, for the same workloads without registrations (`Serial`,
the assumption of the run `log`) and endpoints that are empty at the start

* `ListingsAreTrue` (`ListingsTrue`, of the parts `IdsDense` and `CopiesAgree`)
  and `CreatedObjectsAreStored` (`CreatedIsStored`), from `Ready` (the process has the handle of every
  endpoint's family, and so has who is about to write) and `Dense`.  A put
  appends at the counter because it has its lock, a post because it runs alone.
  The copies agree because with the family's own handle each write
  reaches both places under the same id (`StoreAppends`), and an object without
  an id is no row's copy.
* `StoreImplementsLog` (`ImplementsLog`): every step of a request is one of
  `ListingSteps`, and each of those is a step of `EndpointLog` or none.

Only model-checked: liveness (`EveryCallReturns`, `ResponseEnds`,
`HandlerDeleted`, `ServesAgain`, `CallsAnswered`, `GetsUp`, `Answered`), which
is out of the prover's reach.  What can be proved of it is its safety part: that
no state is reached in which nothing is left that could bring the promised event
about (`NoWakeUpLost`, `DeletedInTime`, `AnswerIsComing`), which calls can wait
for each other at all (`DeadlocksMixCalls`), and from where a start can never
succeed (`DeathsExplained`).  That fair steps then do bring it about is TLC's part.

## 5. Not modelled

* Logging and Cors filters, EndpointDescriptor, RestDbConfiguration, the wiring
  in `main`: no state whose changes depend on an order of events.
* `SimpleRoutingRequestHandlerFactory`, which the program does not use.
* HTML and JSON text, log messages, the elapsed time `JsonClient` measures.
* What spans modules: the deletion and registration of `/__users` and
  `/__tokens` is in Accounts and Boot, with what their null handles do there;
  Endpoints has the calls themselves, for urls whose families hold objects only.
  `Start` of Accounts always succeeds, the starts that fail are in Boot; a request
  in Requests has no database, so that what a lambda does to it, and which
  exceptions it meets, is a choice there, limited by `disturbed`.

## 6. Plan

* Requests in front of FileServer, whose filter is modelled only as far as it
  deletes itself.
* Urls that are paths of each other's objects in Endpoints, whose deletions
  touch each other's records.
* Two requests of one connection in Requests, for a client that pipelines.

The number of runs is kept small: one passing run per module that checks its
invariants, action properties and liveness together, and one per workload where
that makes a difference.
