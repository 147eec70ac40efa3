------------------------------ MODULE Endpoints ------------------------------
(***************************************************************************)
(* The endpoint store of DbManager: what the calls post, put, add_endpoint, *)
(* delete_endpoint and get do to the database and to the handle map, one    *)
(* step per access to state that other threads see.                        *)
(*                                                                         *)
(* An endpoint is a url.  The database keeps for it                         *)
(*   - a counter, the next object id, under the url in the default column  *)
(*     family (its presence there is what makes the url an endpoint),      *)
(*   - a descriptor in the family /__endpoints,                            *)
(*   - a column family of its own, holding its objects by id,              *)
(*   - a second copy of every object in the family /___all_objects___.     *)
(* The process keeps _cfh_map, from url to column family handle, which no  *)
(* lock protects although every event-base thread uses it.                 *)
(*                                                                         *)
(* An element of Threads is one request being served.  Handlers run their  *)
(* DbManager call inside one event-base callback, so with a single element *)
(* the calls are serial, as with FLAGS_threads = 1.                        *)
(*                                                                         *)
(* Locks are those of rocksdb::TransactionDB: per key, owned by a          *)
(* transaction until it commits or rolls back, waited for at most one      *)
(* second.  An object's key url/id is locked in the default family by a    *)
(* deletion, for each object it lists, and by a write through a null       *)
(* handle, which names that family.  Its locks in the two families that    *)
(* hold the object are left out: who wants one has the url's counter.      *)
(*                                                                         *)
(* No element of Urls is the path of an object of another, such as /a/0    *)
(* for /a: the deletion of /a would delete the counter of /a/0.            *)
(***************************************************************************)
EXTENDS Integers, FiniteSets

CONSTANTS
    Threads,      \* requests that can be in progress at once
    Urls,         \* the urls clients name
    Registered,   \* those that are endpoints at the start
    Stocked,      \* and those of them that have an object then
    Ops,          \* the workload: the calls clients make
    Alone,        \* those of them that no other call overlaps
    Outcomes,     \* what a RocksDB write may report: TRUE, it was done
    MaxCalls,     \* bound on the calls of one behaviour
    Free,         \* a lock nobody owns
    Orphan        \* a lock owned by a transaction nobody will ever end

AllOps == {"post", "put", "add", "delete", "get"}

ASSUME ThreadsAssumption ==
    /\ Free \notin Threads /\ Orphan \notin Threads /\ Free # Orphan
    /\ IsFiniteSet(Threads)
ASSUME WorkloadAssumption ==
    Stocked \subseteq Registered /\ Registered \subseteq Urls /\ Ops \subseteq AllOps /\ Alone \subseteq AllOps
ASSUME OutcomesAssumption == Outcomes \subseteq BOOLEAN /\ TRUE \in Outcomes
ASSUME MaxCallsAssumption == MaxCalls \in Nat

NoId == -1     \* no counter under the url; an object without an ID
Absent == -1   \* _cfh_map has no entry for the url
Null == 0      \* _cfh_map maps the url to a null handle

Ids == Nat \cup {NoId}
Handles == Nat \cup {Absent}

CounterKey(u) == <<"counter", u>>
DescrKey(u) == <<"descriptor", u>>
CountKey == <<"count", "endpoints">>
LockKeys == {CounterKey(u) : u \in Urls} \cup {DescrKey(u) : u \in Urls} \cup {CountKey}

VARIABLES
    counter,   \* the default column family: next id of each url
    descr,     \* the urls that have a descriptor
    family,    \* the live column family of each url, 0 if it has none
    made,      \* how many generations of column families were created
    rows,      \* the objects in each url's live column family
    objects,   \* the objects of each url in /___all_objects___
    stray,     \* the ids of each url whose key url/id is in the default family
    up,        \* the process: "up", "crashed" (by its environment), "died" (by itself)
    handle,    \* _cfh_map
    lock,      \* owner of each key lock but those of objects
    leaked,    \* the ids of each url whose key nobody will ever unlock
    calls,     \* calls made so far; a call's number identifies the object it carries
    pc,        \* where each request is
    req,       \* local variables of the call each request is making
    reply      \* the last answer of each request: HTTP status and the ID it shows

db == <<counter, descr, family, made, rows, objects, stray>>
memory == <<up, handle, lock, leaked, calls>>
vars == <<db, memory, pc, req, reply>>

\* staged: what its transaction will write; todo: the objects it has yet to delete;
\* keys: the objects whose keys in the default family it has locked
NoReq == [url |-> Null, obj |-> 0, id |-> NoId, hdl |-> Absent,
          staged |-> {}, todo |-> {}, keys |-> {}]
NoReply == [status |-> 0, id |-> NoId]

Init ==
    /\ counter = [u \in Urls |->
                     IF u \in Stocked THEN 1 ELSE IF u \in Registered THEN 0 ELSE NoId]
    /\ descr = Registered
    /\ family = [u \in Urls |-> IF u \in Registered THEN 1 ELSE 0]
    /\ made = 1
    /\ rows = [u \in Urls |-> IF u \in Stocked THEN {[id |-> 0, obj |-> 0]} ELSE {}]
    /\ objects = rows
    /\ stray = [u \in Urls |-> {}]
    /\ up = "up"
    /\ handle = [u \in Urls |-> IF u \in Registered THEN 1 ELSE Absent]
    /\ lock = [k \in LockKeys |-> Free]
    /\ leaked = [u \in Urls |-> {}]
    /\ calls = 0
    /\ pc = [t \in Threads |-> "idle"]
    /\ req = [t \in Threads |-> NoReq]
    /\ reply = [t \in Threads |-> NoReply]

-----------------------------------------------------------------------------
(* Helpers *)

Stored(kv, i, o) == {r \in kv : r.id # i} \cup {[id |-> i, obj |-> o]}
IdsOf(kv) == {r.id : r \in kv}

\* path_exists and is_endpoint ask the same of the default column family: is the key there?
IsEndpoint(u) == counter[u] # NoId

\* what a locking write of t to key k may report: a lock somebody else owns ends in a timeout
EndlessWait(t, k) == IF lock[k] \in {Free, t} THEN Outcomes ELSE {}   \* mutant
LockOutcomes(t, k) == IF lock[k] \in {Free, t} THEN Outcomes ELSE {FALSE}

\* and to the key of object i of its url in the default family
ObjectTaken(t, i) ==
    \/ i \in leaked[req[t].url]
    \/ \E s \in Threads \ {t} : req[s].url = req[t].url /\ i \in req[s].keys
ObjectOutcomes(t, i) == IF ObjectTaken(t, i) THEN {FALSE} ELSE Outcomes

\* the transaction of t owns the lock of key k from now on
TakeNothing(t, k) == UNCHANGED lock   \* mutant
Take(t, k) == lock' = [lock EXCEPT ![k] = t]

\* the lock table after t drops its transaction without ending it
Abandoned(t) == [k \in LockKeys |-> IF lock[k] = t THEN Orphan ELSE lock[k]]
\* and the keys of objects that stay locked then
LeakedBy(t) == [leaked EXCEPT ![req[t].url] = @ \cup req[t].keys]
\* the lock table after t's transaction commits or rolls back
ReleasedLate(t) == lock   \* mutant
Released(t) == [k \in LockKeys |-> IF lock[k] = t THEN Free ELSE lock[k]]

Goto(t, l) == pc' = [pc EXCEPT ![t] = l]

\* the call of t is over and the client has its answer
Answer(t, s, i) ==
    /\ pc' = [pc EXCEPT ![t] = "idle"]
    /\ req' = [req EXCEPT ![t] = NoReq]
    /\ reply' = [reply EXCEPT ![t] = [status |-> s, id |-> i]]

\* what an end of the process, wanted or not, leaves of memory
Halt(why) ==
    /\ up' = why
    /\ handle' = [u \in Urls |-> Absent]
    /\ lock' = [k \in LockKeys |-> Free]
    /\ leaked' = [u \in Urls |-> {}]
    /\ pc' = [t \in Threads |-> "idle"]
    /\ req' = [t \in Threads |-> NoReq]
    /\ reply' = [t \in Threads |-> NoReply]
    /\ UNCHANGED <<db, calls>>

\* a write through a handle reaches a column family: the live one, or the default one if null
Writable(t) == req[t].hdl = Null \/ req[t].hdl = family[req[t].url]

\* the column family of u with object o under id i, written through handle h: a null handle
\* names the default family, which gets the key instead
RowsKept(u, h, i, o) == rows   \* mutant
RowsWith(u, h, i, o) == IF h = Null THEN rows ELSE [rows EXCEPT ![u] = Stored(@, i, o)]
StrayWith(u, h, i) == IF h = Null THEN [stray EXCEPT ![u] = @ \cup {i}] ELSE stray

\* /___all_objects___ with object o under id i of u
ObjectsKept(u, i, o) == objects   \* mutant
ObjectsWith(u, i, o) == [objects EXCEPT ![u] = Stored(@, i, o)]

\* what a GET of the path of object i of u shows, by DbManager::get: a key of the default
\* family is an endpoint, and one that has no handle; else the copy in /___all_objects___
Fetched(u, i) == IF i \in stray[u] THEN {} ELSE {r.obj : r \in {x \in objects[u] : x.id = i}}

\* the object of t's call is written twice, in one batch, and the counter moves on if that
\* write is part of the batch
StoreObject(t, counted) ==
    LET u == req[t].url
        i == req[t].id
    IN  /\ rows' = RowsWith(u, req[t].hdl, i, req[t].obj)
        /\ stray' = StrayWith(u, req[t].hdl, i)
        /\ objects' = ObjectsWith(u, i, req[t].obj)
        /\ counter' = IF counted THEN [counter EXCEPT ![u] = i + 1] ELSE counter
        /\ UNCHANGED <<descr, family, made>>

\* the places of each call
Places == [post |-> {"post_can", "post_next", "post_batch", "post_write", "post_object"},
           put |-> {"put_exists", "put_check", "put_count", "put_stage", "put_write", "put_commit",
                    "put_plain"},
           add |-> {"add_create", "add_descr", "add_count", "add_install", "add_reset",
                    "add_commit"},
           delete |-> {"del_check", "del_list", "del_objects", "del_counter", "del_descr",
                       "del_commit", "del_erase", "del_drop"},
           get |-> {"get_route", "get_list", "get_check", "get_open"}]

\* clients let a call begin while s is where it is
Compatible(o, s) ==
    \/ pc[s] = "idle"
    \/ o \notin Alone /\ \A a \in Alone : pc[s] \notin Places[a]

Entry == [post |-> "post_can", put |-> "put_exists", add |-> "add_create",
          delete |-> "del_check", get |-> "get_route"]

\* a handler starts its call
Begin(t) ==
    /\ up = "up"
    /\ pc[t] = "idle"
    /\ calls < MaxCalls
    /\ calls' = calls + 1
    /\ \E o \in Ops, u \in Urls :
         /\ \A s \in Threads \ {t} : Compatible(o, s)
         /\ Goto(t, Entry[o])
         /\ req' = [req EXCEPT ![t] = [NoReq EXCEPT !.url = u, !.obj = calls + 1]]
    /\ reply' = [reply EXCEPT ![t] = NoReply]
    /\ UNCHANGED <<db, up, handle, lock, leaked>>

-----------------------------------------------------------------------------
(* post: the counter is read without a lock and written with the object *)

PostCan(t) ==
    /\ pc[t] = "post_can"
    /\ IF IsEndpoint(req[t].url)
         THEN Goto(t, "post_next") /\ UNCHANGED <<req, reply>>
         ELSE Answer(t, 201, NoId)
    /\ UNCHANGED <<db, memory>>

PostPreviousId(t) ==   \* mutant
    /\ pc[t] = "post_next"
    /\ req' = [req EXCEPT ![t].id = counter[req[t].url] - 1]
    /\ Goto(t, "post_batch")
    /\ UNCHANGED <<db, memory, reply>>

PostNextId(t) ==
    /\ pc[t] = "post_next"
    /\ req' = [req EXCEPT ![t].id = counter[req[t].url]]
    /\ Goto(t, "post_batch")
    /\ UNCHANGED <<db, memory, reply>>

\* _cfh_map.at throws without an entry, std::stoi on the empty string of a missing counter
PostBatch(t) ==
    /\ pc[t] = "post_batch"
    /\ IF handle[req[t].url] = Absent \/ req[t].id = NoId
         THEN Answer(t, 400, NoId)
         ELSE /\ req' = [req EXCEPT ![t].hdl = handle[req[t].url]]
              /\ Goto(t, "post_write")
              /\ UNCHANGED reply
    /\ UNCHANGED <<db, memory>>

\* DB::Write locks the keys of the batch, the counter's first, so it waits for the owner of
\* the counter; the client is told 201 whatever the write reports
PostWrite(t) ==
    /\ pc[t] = "post_write"
    /\ \E ok \in LockOutcomes(t, CounterKey(req[t].url)) :
         IF ok /\ req[t].hdl = Null
           THEN /\ Take(t, CounterKey(req[t].url))
                /\ Goto(t, "post_object")
                /\ UNCHANGED <<db, req, reply>>
           ELSE /\ IF ok /\ Writable(t) THEN StoreObject(t, TRUE) ELSE UNCHANGED db
                /\ Answer(t, 201, req[t].id)
                /\ UNCHANGED lock
    /\ UNCHANGED <<up, handle, leaked, calls>>

\* through a null handle, the object's key is in the default family, where it follows the counter's
PostObject(t) ==
    /\ pc[t] = "post_object"
    /\ \E ok \in ObjectOutcomes(t, req[t].id) :
         IF ok THEN StoreObject(t, TRUE) ELSE UNCHANGED db
    /\ lock' = Released(t)
    /\ Answer(t, 201, req[t].id)
    /\ UNCHANGED <<up, handle, leaked, calls>>

-----------------------------------------------------------------------------
(* put: a transaction that locks the counter before it reads it *)

PutExists(t) ==
    /\ pc[t] = "put_exists"
    /\ IF IsEndpoint(req[t].url)
         THEN Goto(t, "put_check") /\ UNCHANGED <<req, reply>>
         ELSE Answer(t, 200, NoId)
    /\ UNCHANGED <<db, memory>>

PutCheck(t) ==
    /\ pc[t] = "put_check"
    /\ Goto(t, IF IsEndpoint(req[t].url) THEN "put_count" ELSE "put_plain")
    /\ UNCHANGED <<db, memory, req, reply>>

\* get_endpoint_count_and_increment throws when it does not get the counter, and nobody
\* above the event loop's callback catches; it does not look at how its Put of the next id went
PutCount(t) ==
    /\ pc[t] = "put_count"
    /\ \E ok \in LockOutcomes(t, CounterKey(req[t].url)), counted \in Outcomes :
         IF ok /\ IsEndpoint(req[t].url)
           THEN /\ Take(t, CounterKey(req[t].url))
                /\ req' = [req EXCEPT ![t].id = counter[req[t].url],
                                      ![t].staged = IF counted THEN {"counter"} ELSE {}]
                /\ Goto(t, "put_stage")
                /\ UNCHANGED <<db, up, handle, leaked, calls, reply>>
           ELSE Halt("died")

\* _cfh_map[path] leaves a null entry behind where there was none
PutStage(t) ==
    /\ pc[t] = "put_stage"
    /\ LET u == req[t].url
           h == IF handle[u] = Absent THEN Null ELSE handle[u]
       IN  /\ handle' = [handle EXCEPT ![u] = h]
           /\ req' = [req EXCEPT ![t].hdl = h]
    /\ Goto(t, "put_write")
    /\ UNCHANGED <<db, up, lock, leaked, calls, reply>>

\* through a null handle, the object's key is in the default family
PutWrite(t) ==
    /\ pc[t] = "put_write"
    /\ LET plain == req[t].hdl = Null
       IN  \E ok \in IF plain THEN ObjectOutcomes(t, req[t].id) ELSE Outcomes :
             IF ok THEN /\ req' = [req EXCEPT ![t].keys = IF plain THEN {req[t].id} ELSE {}]
                        /\ Goto(t, "put_commit")
                        /\ UNCHANGED <<lock, reply>>
                   ELSE /\ lock' = Released(t)
                        /\ Answer(t, 200, NoId)
    /\ UNCHANGED <<db, up, handle, leaked, calls>>

PutCommit(t) ==
    /\ pc[t] = "put_commit"
    /\ \E ok \in Outcomes :
         IF ok /\ Writable(t) THEN StoreObject(t, "counter" \in req[t].staged) ELSE UNCHANGED db
    /\ lock' = Released(t)
    /\ Answer(t, 200, NoId)
    /\ UNCHANGED <<up, handle, leaked, calls>>

\* the endpoint went away between the two checks: the object becomes one of its own
PutPlain(t) ==
    /\ pc[t] = "put_plain"
    /\ \E ok \in Outcomes :
         objects' = IF ok THEN ObjectsWith(req[t].url, NoId, req[t].obj) ELSE objects
    /\ Answer(t, 200, NoId)
    /\ UNCHANGED <<counter, descr, family, made, rows, stray, memory>>

-----------------------------------------------------------------------------
(* add_endpoint: every failure is logged and the next line runs *)

\* CreateColumnFamily gives no handle when it fails, and fails when the family exists
AddCreate(t) ==
    /\ pc[t] = "add_create"
    /\ LET u == req[t].url
       IN  \E ok \in Outcomes :
             IF ok /\ family[u] = 0
               THEN /\ made' = made + 1
                    /\ family' = [family EXCEPT ![u] = made + 1]
                    /\ req' = [req EXCEPT ![t].hdl = made + 1]
               ELSE /\ req' = [req EXCEPT ![t].hdl = Null]
                    /\ UNCHANGED <<made, family>>
    /\ Goto(t, "add_descr")
    /\ UNCHANGED <<counter, descr, rows, objects, stray, memory, reply>>

\* the transaction of t puts a value under key k, and remembers it as w if that was done
AddPut(t, k, w) ==
    \E ok \in LockOutcomes(t, k) :
      IF ok THEN /\ Take(t, k)
                 /\ req' = [req EXCEPT ![t].staged = @ \cup {w}]
            ELSE UNCHANGED <<lock, req>>

AddDescr(t) ==
    /\ pc[t] = "add_descr"
    /\ AddPut(t, DescrKey(req[t].url), "descriptor")
    /\ Goto(t, "add_count")
    /\ UNCHANGED <<db, up, handle, leaked, calls, reply>>

\* the number of endpoints is written back as it was read
AddCount(t) ==
    /\ pc[t] = "add_count"
    /\ AddPut(t, CountKey, "count")
    /\ Goto(t, "add_install")
    /\ UNCHANGED <<db, up, handle, leaked, calls, reply>>

AddInstall(t) ==
    /\ pc[t] = "add_install"
    /\ handle' = [handle EXCEPT ![req[t].url] = req[t].hdl]
    /\ Goto(t, "add_reset")
    /\ UNCHANGED <<db, up, lock, leaked, calls, req, reply>>

AddReset(t) ==
    /\ pc[t] = "add_reset"
    /\ AddPut(t, CounterKey(req[t].url), "counter")
    /\ Goto(t, "add_commit")
    /\ UNCHANGED <<db, up, handle, leaked, calls, reply>>

AddCommit(t) ==
    /\ pc[t] = "add_commit"
    /\ LET u == req[t].url
       IN  \E ok \in Outcomes :
             /\ counter' = IF ok /\ "counter" \in req[t].staged
                             THEN [counter EXCEPT ![u] = 0] ELSE counter
             /\ descr' = IF ok /\ "descriptor" \in req[t].staged THEN descr \cup {u} ELSE descr
    /\ lock' = Released(t)
    /\ Answer(t, 201, NoId)
    /\ UNCHANGED <<family, made, rows, objects, stray, up, handle, leaked, calls>>

-----------------------------------------------------------------------------
(* delete_endpoint: the objects' keys, the counter and the descriptor go in one         *)
(* transaction, then the map entry, then the column family; the copies in               *)
(* /___all_objects___ stay                                                              *)

DelCheck(t) ==
    /\ pc[t] = "del_check"
    /\ IF IsEndpoint(req[t].url)
         THEN Goto(t, "del_list") /\ UNCHANGED <<req, reply>>
         ELSE Answer(t, 500, NoId)
    /\ UNCHANGED <<db, memory>>

\* an iterator over the endpoint's family, if there is a handle
DelList(t) ==
    /\ pc[t] = "del_list"
    /\ LET u == req[t].url
       IN  req' = [req EXCEPT ![t].todo =
                     IF handle[u] \in {Absent, Null} THEN {} ELSE IdsOf(rows[u])]
    /\ Goto(t, "del_objects")
    /\ UNCHANGED <<db, memory, reply>>

\* i is the object the iterator of t is at: it visits the keys in one order, here that of the ids
First(t, i) == i \in req[t].todo /\ \A j \in req[t].todo : i <= j

\* one Delete per object, which names the default family, where the objects are not; its
\* outcome is not looked at
DelObjects(t) ==
    /\ pc[t] = "del_objects"
    /\ \/ /\ req[t].todo = {}
          /\ Goto(t, "del_counter")
          /\ UNCHANGED req
       \/ \E i \in req[t].todo :
            /\ First(t, i)
            /\ \E ok \in ObjectOutcomes(t, i) :
                 req' = [req EXCEPT ![t].todo = @ \ {i},
                                    ![t].keys = IF ok THEN @ \cup {i} ELSE @]
            /\ UNCHANGED pc
    /\ UNCHANGED <<db, memory, reply>>

\* a Delete of key k by the transaction of t; the exception of a failed one leaves the
\* transaction behind with the locks it has
DelKey(t, k, next) ==
    /\ \E ok \in LockOutcomes(t, k) :
         IF ok THEN /\ Take(t, k)
                    /\ Goto(t, next)
                    /\ UNCHANGED <<leaked, req, reply>>
               ELSE /\ lock' = Abandoned(t)
                    /\ leaked' = LeakedBy(t)
                    /\ Answer(t, 500, NoId)
    /\ UNCHANGED <<db, up, handle, calls>>

DelCounter(t) ==
    /\ pc[t] = "del_counter"
    /\ DelKey(t, CounterKey(req[t].url), "del_descr")

DelDescr(t) ==
    /\ pc[t] = "del_descr"
    /\ DelKey(t, DescrKey(req[t].url), "del_commit")

\* the url is no endpoint any more
UnregisterHalf(u) == UNCHANGED counter /\ descr' = descr \ {u}   \* mutant
Unregister(u) == counter' = [counter EXCEPT ![u] = NoId] /\ descr' = descr \ {u}

\* the status of the commit is not looked at
DelCommit(t) ==
    /\ pc[t] = "del_commit"
    /\ LET u == req[t].url
       IN  \E ok \in Outcomes :
             IF ok THEN /\ Unregister(u)
                        /\ stray' = [stray EXCEPT ![u] = @ \ req[t].keys]
                   ELSE UNCHANGED <<counter, descr, stray>>
    /\ lock' = Released(t)
    /\ req' = [req EXCEPT ![t].keys = {}]
    /\ Goto(t, "del_erase")
    /\ UNCHANGED <<family, made, rows, objects, up, handle, leaked, calls, reply>>

\* _cfh_map without u
Remembered(u) == handle   \* mutant
Erased(u) == [handle EXCEPT ![u] = Absent]

\* without an entry the handle stays null
DelErase(t) ==
    /\ pc[t] = "del_erase"
    /\ LET u == req[t].url
       IN  /\ req' = [req EXCEPT ![t].hdl = IF handle[u] = Absent THEN Null ELSE handle[u]]
           /\ handle' = Erased(u)
    /\ Goto(t, "del_drop")
    /\ UNCHANGED <<db, up, lock, leaked, calls, reply>>

\* DropColumnFamily dereferences the handle, and fails when the family is gone
DelDrop(t) ==
    /\ pc[t] = "del_drop"
    /\ LET u == req[t].url
       IN  IF req[t].hdl = Null
             THEN Halt("died")
             ELSE /\ \E ok \in Outcomes :
                       IF ok /\ req[t].hdl = family[u]
                         THEN /\ family' = [family EXCEPT ![u] = 0]
                              /\ rows' = [rows EXCEPT ![u] = {}]
                              /\ Answer(t, 200, NoId)
                         ELSE /\ UNCHANGED <<family, rows>>
                              /\ Answer(t, 500, NoId)
                  /\ UNCHANGED <<counter, descr, made, objects, stray, memory>>

-----------------------------------------------------------------------------
(* GET of a url: the handler asks whether it is an endpoint, and acts on the answer in a *)
(* later callback                                                                       *)

GetRoute(t) ==
    /\ pc[t] = "get_route"
    /\ Goto(t, IF IsEndpoint(req[t].url) THEN "get_list" ELSE "get_check")
    /\ UNCHANGED <<db, memory, req, reply>>

\* get_all checks the handle it needs
GetList(t) ==
    /\ pc[t] = "get_list"
    /\ Answer(t, IF handle[req[t].url] \in {Absent, Null} THEN 500 ELSE 200, NoId)
    /\ UNCHANGED <<db, memory>>

\* DbManager::get asks again: an endpoint is listed, another path is looked up among all objects
GetCheck(t) ==
    /\ pc[t] = "get_check"
    /\ LET u == req[t].url
       IN  IF IsEndpoint(u)
             THEN Goto(t, "get_open") /\ UNCHANGED <<req, reply>>
             ELSE Answer(t, IF NoId \in IdsOf(objects[u]) THEN 200 ELSE 404, NoId)
    /\ UNCHANGED <<db, memory>>

\* here _cfh_map.at throws out of the callback, or NewIterator dereferences null
GetOpen(t) ==
    /\ pc[t] = "get_open"
    /\ IF handle[req[t].url] \in {Absent, Null}
         THEN Halt("died")
         ELSE Answer(t, 200, NoId) /\ UNCHANGED <<db, memory>>

-----------------------------------------------------------------------------
(* The process *)

\* steps that insert into or erase from _cfh_map, and steps that use it
Mutates(t) ==
    \/ pc[t] \in {"add_install", "del_erase"}
    \/ pc[t] = "put_stage" /\ handle[req[t].url] = Absent
Uses(t) ==
    pc[t] \in {"post_batch", "put_stage", "put_write", "put_plain", "add_descr", "add_install",
               "del_list", "del_descr", "del_erase", "get_list", "get_check", "get_open"}

\* two threads in the same std::map, one of them changing it: a data race, which the build
\* may survive (the steps happen one after the other) or not
MapRace ==
    /\ \E t \in Threads : Mutates(t) /\ \E s \in Threads \ {t} : Uses(s)
    /\ Halt("died")

\* the process is killed, or its machine stops
Crash == up = "up" /\ Halt("crashed")

\* the constructor of DbManager opens every column family of the database
Restart ==
    /\ up # "up"
    /\ up' = "up"
    /\ handle' = [u \in Urls |-> IF family[u] = 0 THEN Absent ELSE family[u]]
    /\ UNCHANGED <<db, lock, leaked, calls, pc, req, reply>>

Post(t) == PostCan(t) \/ PostNextId(t) \/ PostBatch(t) \/ PostWrite(t) \/ PostObject(t)
Put(t) ==
    \/ PutExists(t) \/ PutCheck(t) \/ PutCount(t) \/ PutStage(t) \/ PutWrite(t) \/ PutCommit(t)
    \/ PutPlain(t)
Add(t) == AddCreate(t) \/ AddDescr(t) \/ AddCount(t) \/ AddInstall(t) \/ AddReset(t) \/ AddCommit(t)
Delete(t) ==
    \/ DelCheck(t) \/ DelList(t) \/ DelObjects(t) \/ DelCounter(t) \/ DelDescr(t) \/ DelCommit(t)
    \/ DelErase(t) \/ DelDrop(t)
Get(t) == GetRoute(t) \/ GetList(t) \/ GetCheck(t) \/ GetOpen(t)

Step(t) == Post(t) \/ Put(t) \/ Add(t) \/ Delete(t) \/ Get(t)

Next == (\E t \in Threads : Begin(t) \/ Step(t)) \/ MapRace \/ Crash \/ Restart

Spec == Init /\ [][Next]_vars

\* an event base never stops running its callbacks, and a wait for a lock ends
FairSpec == Spec /\ \A t \in Threads : WF_vars(Step(t))

-----------------------------------------------------------------------------
(* Properties *)

Labels == {"idle"} \cup Places.post \cup Places.put \cup Places.add \cup Places.delete
                   \cup Places.get

Requests == [url : Urls \cup {Null}, obj : Nat, id : Ids, hdl : Handles,
             staged : SUBSET {"descriptor", "count", "counter"}, todo : SUBSET Ids,
             keys : SUBSET Ids]

\* The type of every variable of the store, of the process and of the requests.
TypeOK ==
    /\ counter \in [Urls -> Ids]
    /\ descr \subseteq Urls
    /\ family \in [Urls -> Nat]
    /\ made \in Nat
    /\ rows \in [Urls -> SUBSET [id : Ids, obj : Nat]]
    /\ objects \in [Urls -> SUBSET [id : Ids, obj : Nat]]
    /\ stray \in [Urls -> SUBSET Ids]
    /\ up \in {"up", "crashed", "died"}
    /\ handle \in [Urls -> Handles]
    /\ lock \in [LockKeys -> Threads \cup {Free, Orphan}]
    /\ leaked \in [Urls -> SUBSET Ids]
    /\ calls \in Nat
    /\ pc \in [Threads -> Labels]
    /\ req \in [Threads -> Requests]
    /\ reply \in [Threads -> [status : Nat, id : Ids]]

\* put reads the counter, stages its two copies of the object and commits in separate steps.
\* Whatever other requests do meanwhile (post, another put, a deletion, a registration of the
\* same url), the id it read is still the committed counter when it commits: so the commit
\* never takes the counter back, and advances it by exactly one if it advances it.
CounterStable ==
    \A t \in Threads :
        pc[t] \in {"put_stage", "put_write", "put_commit"} => counter[req[t].url] = req[t].id

\* delete_endpoint erases the map entry, then drops the family; add_endpoint creates the
\* family, then installs its handle.  However such calls overlap, an entry of _cfh_map that
\* is not null belongs to the column family the url has now, never to a dropped one.
MapNeverStale ==
    \A u \in Urls : handle[u] \notin {Absent, Null} => handle[u] = family[u]

\* post, put and delete_endpoint write several places.  Whatever races or failures there were,
\* an object in the listing of an endpoint, and one that a null handle sent to the default
\* family, has a copy among all objects.  (Whether a GET of its path shows that copy is another
\* question: it does not while the path is a key of the default family, see CopiesAgree.)
RowsHaveCopies ==
    \A u \in Urls : IdsOf(rows[u]) \cup stray[u] \subseteq IdsOf(objects[u])

\* A key lock owned by a request is owned by one that is inside the transaction that took it:
\* put never deletes its transaction object and add_endpoint goes on after failures, yet
\* neither leaves a lock behind.  The key of an object has one owner, in a deletion of its
\* endpoint or in the commit of a put.
OwnedInside ==
    /\ \A k \in LockKeys, t \in Threads :
         lock[k] = t => /\ k \in {CountKey, CounterKey(req[t].url), DescrKey(req[t].url)}
                        /\ pc[t] \in {"post_object", "put_stage", "put_write", "put_commit",
                                      "add_count", "add_install", "add_reset", "add_commit",
                                      "del_descr", "del_commit"}
    /\ \A t \in Threads :
         req[t].keys # {} =>
             /\ pc[t] \in {"put_commit", "del_objects", "del_counter", "del_descr", "del_commit"}
             /\ \A i \in req[t].keys : ~ObjectTaken(t, i)

\* A deletion that fails on the counter or the descriptor throws and leaks its transaction.  The
\* damage is local: beside the keys of objects of the url that was to be deleted, only its
\* counter stays locked, never its descriptor or the number of endpoints, which every
\* registration of every url locks.
LeaksStayLocal ==
    \A k \in LockKeys : lock[k] = Orphan => \E u \in Urls : k = CounterKey(u)

\* Both: what is locked is locked by a transaction in progress, or is such a counter.
LocksOwned == OwnedInside /\ LeaksStayLocal

\* t is about to write an object through a null handle
StoresAstray(t) == pc[t] = "post_object" \/ (pc[t] = "put_write" /\ req[t].hdl = Null)

\* t is about to lock the key of object i of its url in the default family
WantsObject(t, i) ==
    \/ StoresAstray(t) /\ i = req[t].id
    \/ pc[t] = "del_objects" /\ First(t, i)

\* t is at a write whose key lock s owns
WaitsFor(t, s) ==
    /\ s # t
    /\ \/ /\ pc[t] \in {"post_write", "put_count", "add_reset", "del_counter"}
          /\ lock[CounterKey(req[t].url)] = s
       \/ /\ pc[t] \in {"add_descr", "del_descr"}
          /\ lock[DescrKey(req[t].url)] = s
       \/ /\ pc[t] = "add_count"
          /\ lock[CountKey] = s
       \/ /\ req[s].url = req[t].url
          /\ \E i \in req[s].keys : WantsObject(t, i)

\* add_endpoint locks descriptor, number of endpoints and counter; delete_endpoint the objects'
\* keys, counter and descriptor; a write through a null handle counter and object's key.
\* Requests that wait for each other in a circle include a deletion that another call of its
\* url waits for: a registration about to reset the counter, or a write through a null handle.
\* Deletions alone, calls of different urls, and posts and puts of endpoints with a handle
\* never depend on the timeout.
DeadlocksMixCalls ==
    \A S \in SUBSET Threads :
        S # {} /\ (\A t \in S : \E s \in S : WaitsFor(t, s)) =>
            \E a, d \in S :
                /\ req[a].url = req[d].url /\ WaitsFor(a, d)
                /\ \/ pc[a] = "add_reset" /\ pc[d] = "del_descr"
                   \/ StoresAstray(a) /\ pc[d] \in {"del_objects", "del_counter", "del_descr"}

\* A deletion that cannot get the counter throws and leaks its transaction, with the locks of
\* the objects' keys it has.  As long as writes do not fail and no registration overlaps another
\* call, it has no other lock at that moment: the counter and the descriptor of an endpoint,
\* which its posts, puts, registrations and deletions need, never stay locked until a restart.
\* (Only a deletion, which does not look at how that went, and a write through a null handle
\* want the key of an object.)
RecordsComeFree == \A k \in LockKeys : lock[k] # Orphan

\* The two records that make a url an endpoint, counter and descriptor, come and go together,
\* over crashes too, as long as calls do not overlap and writes do not fail.
DescribedIffCounted ==
    \A u \in Urls : IsEndpoint(u) <=> u \in descr

\* The order of add_endpoint (family, then counter) and of delete_endpoint (counter, then
\* family) keeps every endpoint on a column family, also when the process stops in between.
CountedHasFamily ==
    \A u \in Urls : IsEndpoint(u) => family[u] # 0

\* Calls that neither register an endpoint anew nor post concurrently leave, in the listing of
\* an endpoint, exactly the ids below its counter: no id is skipped, none is given twice.
IdsDense ==
    \A u \in Urls : IsEndpoint(u) =>
        /\ IdsOf(rows[u]) = 0 .. counter[u] - 1
        /\ Cardinality(rows[u]) = counter[u]

\* Under the same workloads the two copies of an object agree: what the listing of an endpoint
\* shows under an id is what a GET of the path with that id shows.
CopiesAgree ==
    \A u \in Urls : \A r \in rows[u] : r.obj \in Fetched(u, r.id)

\* Both: a listing has every id once, and under it the object that was stored under it.
ListingsTrue == IdsDense /\ CopiesAgree

\* A client told 201 with an ID finds its object under that ID at that moment.
CreatedIsStored ==
    [][\A t \in Threads :
         (pc[t] \in {"post_write", "post_object"} /\ reply'[t].status = 201) =>
             [id |-> reply'[t].id, obj |-> req[t].obj] \in rows'[req[t].url]]_vars

\* "POST will register a new endpoint" (README): when add_endpoint has committed, the server
\* has a column family handle to serve the endpoint with.
RegistrationServes ==
    [][\A t \in Threads :
         (pc[t] = "add_commit" /\ reply'[t].status = 201) =>
             handle'[req[t].url] \notin {Absent, Null}]_vars

\* "Deleting key" (the log of delete_endpoint, once per object): after a deletion answered 200
\* no object of the endpoint can be fetched.
DeletionDeletesObjects ==
    [][\A t \in Threads :
         (pc[t] = "del_drop" /\ reply'[t].status = 200) => objects'[req[t].url] = {}]_vars

\* Every request is answered (or its process stops): the locks that add_endpoint and
\* delete_endpoint take in opposite orders, and those a failed deletion never gives back, do
\* not keep anybody waiting for ever.
EveryCallReturns ==
    \A t \in Threads : pc[t] # "idle" ~> pc[t] = "idle"

-----------------------------------------------------------------------------
(* The endpoint store as an append-only log *)

\* the objects a listing of u shows in the order of their ids; an id that two objects share or
\* none has shows as the object 0, which nobody stores
ListingOf(u) ==
    [i \in 1 .. (IF IsEndpoint(u) THEN counter[u] ELSE 0) |->
        LET at == {r \in rows[u] : r.id = i - 1}
        IN  IF Cardinality(at) = 1 THEN (CHOOSE r \in at : TRUE).obj ELSE 0]

Log == INSTANCE EndpointLog WITH
    Objects <- 1 .. MaxCalls,
    exists <- {u \in Urls : IsEndpoint(u)},
    log <- [u \in Urls |-> ListingOf(u)]

\* Puts and deletions of any number of requests, or posts, puts and deletions one after the
\* other, over crashes and restarts, make each endpoint an append-only log: every step of
\* DbManager appends one object to one log, deletes one log, or changes none.
ImplementsLog == Log!LogSpec

=============================================================================
