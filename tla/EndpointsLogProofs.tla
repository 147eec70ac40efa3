-------------------------- MODULE EndpointsLogProofs --------------------------
(***************************************************************************)
(* Without registrations, and with posts that overlap with nothing, the     *)
(* endpoint store implements EndpointLog: for every set of requests and     *)
(* urls, over crashes and restarts.                                         *)
(***************************************************************************)
EXTENDS EndpointsWorkloadProofs, SequenceTheorems

\* The workload of the run log, from empty endpoints.
Serial == Calm /\ "add" \notin Ops /\ Stocked = {}

USE DEF NoId, Absent, Null, Places

\* Who is about to write an object has the handle of its endpoint's family, and will write the
\* next id with it.
ReadyAt(t) ==
    /\ pc[t] \in {"post_write", "put_write", "put_commit"} => req[t].hdl = family[req[t].url]
    /\ pc[t] \in {"put_stage", "put_write", "put_commit"} => "counter" \in req[t].staged
    /\ pc[t] # "post_object"

\* The process has the handle of every endpoint's family, and so have the requests.
Ready ==
    /\ up = "up" => \A u \in Urls : IsEndpoint(u) => handle[u] = family[u]
    /\ \A t \in Threads : ReadyAt(t)

\* A call carries one of the objects clients store.
Carried ==
    /\ calls \in 0 .. MaxCalls
    /\ \A t \in Threads : pc[t] # "idle" => req[t].obj \in 1 .. MaxCalls

\* What the listing of an endpoint has to be, by way of a cardinality that exists.
Dense ==
    \A u \in Urls : IsEndpoint(u) =>
        /\ IsFiniteSet(rows[u])
        /\ IdsOf(rows[u]) = 0 .. counter[u] - 1
        /\ Cardinality(rows[u]) = counter[u]

Calls == Base /\ DownIdle /\ Locks /\ Records /\ Ready

-----------------------------------------------------------------------------
(* Handles *)

\* No step of a request is one of a registration.
LEMMA NoAddStep == ASSUME Serial, Base, NEW s \in Threads PROVE pc[s] \notin Places.add /\ ~Add(s)
<1>1. pc[s] \notin Places.add
  BY DEF Serial, Base, Solo
<1> QED BY <1>1 DEF Add, AddCreate, AddDescr, AddCount, AddInstall, AddReset, AddCommit

\* Family and handle of an endpoint stay as they are: a deletion touches them when its url is an
\* endpoint no more, and put fills in a handle that is missing only.
LEMMA HandlesKept ==
    ASSUME Serial, Calls, NEW s \in Threads, Step(s), ~Halt("died")
    PROVE  /\ up = "up" /\ up' = "up"
           /\ \A u \in Urls : IsEndpoint(u) => handle'[u] = handle[u] /\ family'[u] = family[u]
<1> USE DEF Calls, Base, TypeInv, TypeOK, IsEndpoint
<1>0. pc[s] # "idle" /\ req[s].url \in Urls /\ up = "up"
  BY StepPlaces DEF UrlsNamed, DownIdle
<1>1. \A u \in Urls : IsEndpoint(u) => handle[u] # Absent /\ handle[u] = family[u]
  BY <1>0 DEF Ready, Records, CountedHasFamily
<1>2. CASE Post(s)
  BY <1>0, <1>2 DEF Post, PostCan, PostNextId, PostBatch, PostWrite, PostObject, StoreObject, db, memory
<1>3. CASE Put(s)
  <2>1. CASE PutStage(s)
    BY <1>0, <1>1, <2>1 DEF PutStage, db
  <2>2. CASE PutCommit(s)
    BY <1>0, <2>2 DEF PutCommit, StoreObject, db
  <2> QED
    BY <1>0, <1>3, <2>1, <2>2
    DEF Put, PutExists, PutCheck, PutCount, PutWrite, PutPlain, db, memory
<1>4. CASE Delete(s)
  <2>1. CASE DelErase(s)
    <3>1. counter[req[s].url] = NoId
      BY <2>1 DEF DelErase, Records, CalmAt
    <3> QED BY <1>0, <2>1, <3>1 DEF DelErase, Erased, db
  <2>2. CASE DelDrop(s)
    <3>1. counter[req[s].url] = NoId
      BY <2>2 DEF DelDrop, Records, CalmAt
    <3> QED BY <1>0, <2>2, <3>1 DEF DelDrop, memory
  <2> QED
    BY <1>0, <1>4, <2>1, <2>2 DEF Delete, DelCheck, DelList, DelObjects, DelCounter, DelDescr, DelKey, DelCommit, db, memory
<1>5. CASE Get(s)
  BY <1>0, <1>5 DEF Get, GetRoute, GetList, GetCheck, GetOpen, db, memory
<1> QED BY <1>2, <1>3, <1>4, <1>5, NoAddStep DEF Step

\* The handle with which a request will write is that of the family.
LEMMA ReadySelf ==
    ASSUME Serial, Calls, NEW s \in Threads, Step(s), ~Halt("died")
    PROVE  ReadyAt(s)'
<1> USE DEF Calls, Base, TypeInv, TypeOK, IsEndpoint
<1>0. /\ req[s].url \in Urls
      /\ \A u \in Urls : IsEndpoint(u) => handle[u] # Absent /\ handle[u] = family[u]
      /\ req[s] \in Requests
      /\ ReadyAt(s)
  BY StepPlaces, HandlesKept DEF UrlsNamed, Ready, Records, CountedHasFamily
<1>1. ASSUME \/ pc' = [pc EXCEPT ![s] = "idle"]
             \/ \E l \in Labels \ {"post_write", "post_object", "put_stage", "put_write",
                                    "put_commit"} : Goto(s, l)
      PROVE  ReadyAt(s)'
  BY <1>1 DEF Goto, ReadyAt
<1>2. CASE Post(s)
  <2>1. CASE PostBatch(s) /\ ~Answer(s, 400, NoId)
    <3>1. /\ req' = [req EXCEPT ![s].hdl = handle[req[s].url]]
          /\ pc'[s] = "post_write"
          /\ req[s].id # NoId /\ pc[s] = "post_batch" /\ UNCHANGED family
      BY <2>1 DEF PostBatch, Goto, db
    <3>2. IsEndpoint(req[s].url)
      BY <3>1 DEF Records, CalmAt
    <3>3. req'[s].hdl = handle[req[s].url] /\ req'[s].url = req[s].url
      BY <1>0, <3>1 DEF Requests
    <3> QED BY <1>0, <3>1, <3>2, <3>3 DEF ReadyAt
  <2>2. CASE PostWrite(s)
    <3>1. req[s].hdl # Null
      BY <1>0, <2>2, StoresAtCounter DEF PostWrite, ReadyAt, Records, CountedHasFamily
    <3> QED BY <1>1, <2>2, <3>1 DEF PostWrite, Answer
  <2> QED
    BY <1>1, <1>2, <2>1, <2>2
    DEF Post, PostCan, PostNextId, PostBatch, PostObject, Answer, Goto, Labels
<1>3. CASE Put(s)
  <2>1. CASE PutCount(s)
    <3>1. req' = [req EXCEPT ![s].id = counter[req[s].url], ![s].staged = {"counter"}]
      BY <2>1 DEF PutCount, Serial, Calm
    <3>2. req'[s].staged = {"counter"} /\ pc'[s] = "put_stage"
      BY <1>0, <2>1, <3>1 DEF PutCount, Goto, Requests
    <3> QED BY <3>2 DEF ReadyAt
  <2>2. CASE PutStage(s)
    <3>1. pc[s] = "put_stage" /\ pc'[s] = "put_write" /\ UNCHANGED family
      BY <2>2 DEF PutStage, Goto, db
    <3>2. IsEndpoint(req[s].url)
      BY <3>1 DEF LockInv, Own, IdsKnown, Writing
    <3>3. req' = [req EXCEPT ![s].hdl = handle[req[s].url]]
      BY <1>0, <2>2, <3>2 DEF PutStage
    <3>4. /\ req'[s].hdl = handle[req[s].url] /\ req'[s].url = req[s].url
          /\ req'[s].staged = req[s].staged
      BY <1>0, <3>3 DEF Requests
    <3> QED BY <1>0, <3>1, <3>2, <3>4 DEF ReadyAt
  <2>3. CASE PutWrite(s) /\ ~Answer(s, 200, NoId)
    <3>1. /\ pc[s] = "put_write" /\ pc'[s] = "put_commit" /\ UNCHANGED family
          /\ \E K : req' = [req EXCEPT ![s].keys = K]
      BY <2>3 DEF PutWrite, Goto, db
    <3>2. /\ req'[s].hdl = req[s].hdl /\ req'[s].url = req[s].url
          /\ req'[s].staged = req[s].staged
      BY <1>0, <3>1 DEF Requests
    <3> QED BY <1>0, <3>1, <3>2 DEF ReadyAt
  <2> QED
    BY <1>1, <1>3, <2>1, <2>2, <2>3
    DEF Put, PutExists, PutCheck, PutWrite, PutCommit, PutPlain, Answer, Goto, Labels
<1>4. CASE Delete(s)
  <2>1. CASE DelList(s) \/ DelObjects(s)
    BY <2>1 DEF DelList, DelObjects, Goto, ReadyAt
  <2> QED
    BY <1>1, <1>4, <2>1
    DEF Delete, DelCheck, DelCounter, DelDescr, DelKey, DelCommit, DelErase, DelDrop, Answer, Labels
<1>5. CASE Get(s)
  BY <1>1, <1>5 DEF Get, GetRoute, GetList, GetCheck, GetOpen, Answer, Labels
<1> QED BY <1>2, <1>3, <1>4, <1>5, NoAddStep DEF Step

\* The handles stay ready over every step, restarts included.
LEMMA ReadyNext == ASSUME Serial, Calls, [Next]_vars PROVE Ready'
<1> USE DEF Calls
<1>1. ASSUME NEW s \in Threads, Step(s), ~Halt("died") PROVE Ready'
  <2>1. ASSUME NEW u \in Urls, IsEndpoint(u)' PROVE IsEndpoint(u)
    BY <1>1, <2>1, RecordsKept, NoAddStep DEF Serial, IsEndpoint
  <2>2. \A u \in Urls : IsEndpoint(u)' => handle'[u] = family'[u]
    BY <1>1, <2>1, HandlesKept DEF Ready
  <2>3. ASSUME NEW t \in Threads \ {s} PROVE ReadyAt(t)'
    <3>1. CASE pc'[t] = "idle"
      BY <3>1 DEF ReadyAt
    <3>2. CASE pc'[t] = pc[t] /\ req'[t] = req[t]
      <4>1. ReadyAt(t)
        BY DEF Ready
      <4>2. CASE pc[t] \in {"post_write", "post_object", "put_write", "put_commit"}
        <5>1. req[t].url \in Urls /\ IsEndpoint(req[t].url)
          BY <4>2, StoresAtCounter
        <5> QED BY <1>1, <3>2, <4>1, <5>1, HandlesKept DEF ReadyAt
      <4>3. CASE pc[t] \notin {"post_write", "post_object", "put_write", "put_commit"}
        BY <3>2, <4>1, <4>3 DEF ReadyAt
      <4> QED BY <4>2, <4>3
    <3> QED BY <1>1, <3>1, <3>2, StepPlaces DEF Base
  <2> QED BY <1>1, <2>2, <2>3, ReadySelf DEF Ready
<1>2. ASSUME NEW s \in Threads, Begin(s) PROVE Ready'
  <2>1. UNCHANGED <<db, up, handle>>
    BY <1>2 DEF Begin
  <2>2. \A t \in Threads \ {s} : pc'[t] = pc[t] /\ req'[t] = req[t]
    BY <1>2, SoloBegin DEF Serial, Base
  <2>3. pc'[s] \in {"post_can", "put_exists", "add_create", "del_check", "get_route"}
    BY <1>2, SoloBegin DEF Serial, Base
  <2> QED BY <2>1, <2>2, <2>3 DEF Ready, ReadyAt, IsEndpoint, db
<1>3. ASSUME NEW why \in {"died", "crashed"}, Halt(why) PROVE Ready'
  BY <1>3 DEF Halt, Ready, ReadyAt
<1>4. CASE Restart
  <2>1. \A t \in Threads : pc'[t] = "idle"
    BY <1>4 DEF Restart, DownIdle
  <2>2. \A u \in Urls : IsEndpoint(u)' => handle'[u] = family'[u]
    BY <1>4 DEF Restart, db, Records, CountedHasFamily, IsEndpoint
  <2> QED BY <2>1, <2>2 DEF Ready, ReadyAt
<1>5. CASE UNCHANGED vars
  BY <1>5 DEF vars, db, memory, Ready, ReadyAt, IsEndpoint
<1> QED BY <1>1, <1>2, <1>3, <1>4, <1>5 DEF Next, MapRace, Crash

-----------------------------------------------------------------------------
(* What a step does to the listings *)

\* An object is appended: the counter's value is its id.
Appends(s) ==
    LET u == req[s].url
    IN  /\ pc[s] \in {"post_write", "put_commit"}
        /\ u \in Urls /\ counter[u] \in Nat
        /\ counter' = [counter EXCEPT ![u] = counter[u] + 1]
        /\ rows' = [rows EXCEPT ![u] = Stored(rows[u], counter[u], req[s].obj)]

\* The rows of a url that is no endpoint go away.
Drops(s) ==
    /\ req[s].url \in Urls /\ ~IsEndpoint(req[s].url)
    /\ UNCHANGED counter
    /\ rows' = [rows EXCEPT ![req[s].url] = {}]

\* A post stores what it says it stored: nobody has the lock of its key, and its handle is that of
\* the family.
LEMMA PostStores ==
    ASSUME Serial, Calls, NEW s \in Threads, PostWrite(s)
    PROVE  /\ StoreObject(s, TRUE)
           /\ Answer(s, 201, req[s].id)
<1> USE DEF Calls
<1>1. pc[s] = "post_write" /\ req[s].url \in Urls
  BY DEF PostWrite, Base, TypeInv, UrlsNamed
<1>2. lock[CounterKey(req[s].url)] \in {Free, s}
  BY <1>1, SoloLocks, KeysDiffer
<1>3. Writable(s) /\ req[s].hdl # Null
  BY <1>1, StoresAtCounter DEF Ready, ReadyAt, Writable, Records, CountedHasFamily
<1> QED BY <1>2, <1>3 DEF PostWrite, LockOutcomes, Serial, Calm

\* So does a put, if it stores anything.
LEMMA PutStores ==
    ASSUME Calls, NEW s \in Threads, PutCommit(s)
    PROVE  StoreObject(s, TRUE) \/ UNCHANGED db
<1>1. "counter" \in req[s].staged
  BY DEF PutCommit, Calls, Ready, ReadyAt
<1> QED BY <1>1 DEF PutCommit, StoreObject

\* Storing an object appends it.
LEMMA StoreAppends ==
    ASSUME Calls, NEW s \in Threads, pc[s] \in {"post_write", "put_commit"}, StoreObject(s, TRUE)
    PROVE  Appends(s) /\ UNCHANGED stray
<1> USE DEF Calls
<1>1. /\ req[s].url \in Urls /\ req[s].id \in Nat
      /\ req[s].id = counter[req[s].url] /\ IsEndpoint(req[s].url)
  BY StoresAtCounter
<1>2. req[s].hdl # Null
  BY <1>1 DEF Ready, ReadyAt, Records, CountedHasFamily
<1> QED BY <1>1, <1>2 DEF StoreObject, RowsWith, StrayWith, Appends, Base, TypeInv, TypeOK

\* Every step of a request appends an object, deletes an endpoint, drops what one has left, or
\* changes no listing.
LEMMA ListingSteps ==
    ASSUME Serial, Calls, NEW s \in Threads, Step(s)
    PROVE  \/ Appends(s)
           \/ Drops(s)
           \/ DelCommit(s)
           \/ UNCHANGED <<counter, rows>>
<1>1. req[s].url \in Urls
  BY StepPlaces DEF Calls, Base, TypeInv, UrlsNamed
<1>2. CASE Post(s)
  <2>1. CASE PostWrite(s)
    BY <2>1, PostStores, StoreAppends DEF PostWrite
  <2>2. ~PostObject(s)
    BY DEF PostObject, Calls, Ready, ReadyAt
  <2> QED BY <1>2, <2>1, <2>2 DEF Post, PostCan, PostNextId, PostBatch, db
<1>3. CASE Put(s)
  <2>1. CASE PutCommit(s)
    BY <2>1, PutStores, StoreAppends DEF PutCommit, db
  <2> QED BY <1>3, <2>1 DEF Put, PutExists, PutCheck, PutCount, PutStage, PutWrite, PutPlain, Halt, db
<1>4. CASE Delete(s)
  <2>1. CASE DelDrop(s)
    <3>1. counter[req[s].url] = NoId
      BY <2>1 DEF DelDrop, Calls, Records, CalmAt
    <3> QED BY <1>1, <2>1, <3>1 DEF DelDrop, Drops, IsEndpoint, Halt, db
  <2> QED BY <1>4, <2>1 DEF Delete, DelCheck, DelList, DelObjects, DelCounter, DelDescr, DelKey, DelErase, db
<1>5. CASE Get(s)
  BY <1>5 DEF Get, GetRoute, GetList, GetCheck, GetOpen, Halt, db
<1> QED BY <1>2, <1>3, <1>4, <1>5, NoAddStep DEF Step, Calls

\* The other steps change nothing on disk.
LEMMA OtherSteps ==
    ASSUME [Next]_vars, \A s \in Threads : ~Step(s)
    PROVE  UNCHANGED <<counter, rows>>
BY DEF Next, Begin, MapRace, Crash, Restart, Halt, vars, db

\* A dense listing with the next object is dense.
LEMMA DenseAppend ==
    ASSUME NEW c \in Nat, NEW kv, NEW o,
           IsFiniteSet(kv), IdsOf(kv) = 0 .. c - 1, Cardinality(kv) = c
    PROVE  LET kw == Stored(kv, c, o)
           IN  IsFiniteSet(kw) /\ IdsOf(kw) = 0 .. c /\ Cardinality(kw) = c + 1
<1> DEFINE n == [id |-> c, obj |-> o]
<1>1. \A r \in kv : r.id # c
  <2>1. \A r \in kv : r.id \in 0 .. c - 1
    BY DEF IdsOf
  <2> QED BY <2>1
<1>2. n.id = c
  OBVIOUS
<1>3. n \notin kv
  BY <1>1, <1>2
<1>4. Stored(kv, c, o) = kv \cup {n}
  BY <1>1 DEF Stored
<1>5. IsFiniteSet(kv \cup {n}) /\ Cardinality(kv \cup {n}) = c + 1
  BY <1>3, FS_AddElement
<1>6. IdsOf(Stored(kv, c, o)) = (0 .. c - 1) \cup {c}
  BY StoredIds
<1>7. (0 .. c - 1) \cup {c} = 0 .. c
  OBVIOUS
<1> QED BY <1>4, <1>5, <1>6, <1>7

\* The listings stay dense.
LEMMA DenseNext == ASSUME Serial, Calls, Dense, [Next]_vars PROVE Dense'
<1> USE DEF IsEndpoint
<1>0. counter \in [Urls -> Ids] /\ rows \in [Urls -> SUBSET [id : Ids, obj : Nat]]
  BY DEF Calls, Base, TypeInv, TypeOK
<1>1. ASSUME UNCHANGED <<counter, rows>> PROVE Dense'
  BY <1>1 DEF Dense, IdsOf
<1>2. ASSUME NEW s \in Threads, Appends(s) PROVE Dense'
  <2>1. PICK u \in Urls :
          /\ counter[u] \in Nat /\ counter' = [counter EXCEPT ![u] = counter[u] + 1]
          /\ rows' = [rows EXCEPT ![u] = Stored(rows[u], counter[u], req[s].obj)]
    BY <1>2 DEF Appends
  <2>2. /\ IsFiniteSet(rows[u]) /\ IdsOf(rows[u]) = 0 .. counter[u] - 1
        /\ Cardinality(rows[u]) = counter[u]
    BY <2>1 DEF Dense
  <2>3. /\ IsFiniteSet(rows'[u]) /\ IdsOf(rows'[u]) = 0 .. counter[u]
        /\ Cardinality(rows'[u]) = counter[u] + 1
    BY <1>0, <2>1, <2>2, DenseAppend
  <2>4. counter'[u] = counter[u] + 1 /\ counter'[u] - 1 = counter[u]
    BY <1>0, <2>1
  <2>5. ASSUME NEW v \in Urls \ {u}, IsEndpoint(v)'
        PROVE  /\ IsFiniteSet(rows'[v]) /\ IdsOf(rows'[v]) = 0 .. counter'[v] - 1
               /\ Cardinality(rows'[v]) = counter'[v]
    <3>1. counter'[v] = counter[v] /\ rows'[v] = rows[v]
      BY <1>0, <2>1
    <3> QED BY <2>5, <3>1 DEF Dense
  <2> QED BY <2>3, <2>4, <2>5 DEF Dense, IdsOf
<1>3. ASSUME NEW s \in Threads, Drops(s) PROVE Dense'
  BY <1>0, <1>3 DEF Drops, Dense, IdsOf
<1>4. ASSUME NEW s \in Threads, DelCommit(s) PROVE Dense'
  <2>1. /\ \A u \in Urls : counter'[u] = counter[u] \/ counter'[u] = NoId
        /\ UNCHANGED rows
    BY <1>0, <1>4 DEF DelCommit, Unregister
  <2> QED BY <2>1 DEF Dense, IdsOf
<1> QED BY <1>1, <1>2, <1>3, <1>4, ListingSteps, OtherSteps

\* All of it at the start.
LEMMA ListingInit == ASSUME Serial PROVE Init => DownIdle /\ Ready /\ Dense
<1>1. IsFiniteSet({}) /\ Cardinality({}) = 0 /\ IdsOf({}) = 0 .. 0 - 1
  BY FS_EmptySet DEF IdsOf
<1> QED BY <1>1, WorkloadAssumption DEF Serial, Init, DownIdle, Ready, ReadyAt, Dense, IsEndpoint

\* And for ever after.
LEMMA ListingHeld == ASSUME Serial PROVE Spec => [](Calls /\ Dense)
<1>1. Calls /\ Dense /\ [Next]_vars => DownIdle' /\ Ready' /\ Dense'
  BY DownNext, ReadyNext, DenseNext DEF Calls, Base
<1>2. Spec => [](Base /\ Locks /\ Records)
  BY RecordsHeld DEF Serial
<1>3. Calls <=> Base /\ Locks /\ Records /\ DownIdle /\ Ready
  BY DEF Calls
<1> QED BY <1>1, <1>2, <1>3, ListingInit, PTL DEF Spec

\* The listing of an endpoint has exactly the ids below its counter, each of them once.
LEMMA ListingsAreDense == ASSUME Serial PROVE Spec => []IdsDense
<1>1. Dense => IdsDense
  BY DEF Dense, IdsDense
<1> QED BY <1>1, ListingHeld, PTL

\* Who is told 201 with an ID finds the object under that ID.
THEOREM CreatedObjectsAreStored == ASSUME Serial PROVE Spec => CreatedIsStored
<1> DEFINE There(t) == [id |-> reply'[t].id, obj |-> req[t].obj] \in rows'[req[t].url]
<1>1. ASSUME Calls, Next, NEW t \in Threads,
             pc[t] \in {"post_write", "post_object"}, reply'[t].status = 201
      PROVE  There(t)
  <2>0. pc[t] = "post_write"
    BY <1>1 DEF Calls, Ready, ReadyAt
  <2>1. CASE PostWrite(t)
    <3>1. Appends(t) /\ req[t].id = counter[req[t].url]
      BY <1>1, <2>0, <2>1, PostStores, StoreAppends, StoresAtCounter DEF Calls
    <3>2. reply'[t].id = req[t].id
      <4>1. reply' = [reply EXCEPT ![t] = [status |-> 201, id |-> req[t].id]]
        BY <1>1, <2>1, PostStores DEF Answer
      <4>2. DOMAIN reply = Threads
        BY <1>1 DEF Calls, Base, TypeInv, TypeOK
      <4> QED BY <4>1, <4>2
    <3>3. [id |-> counter[req[t].url], obj |-> req[t].obj] \in rows'[req[t].url]
      BY <1>1, <3>1 DEF Appends, Stored, Calls, Base, TypeInv, TypeOK
    <3> QED BY <3>1, <3>2, <3>3
  <2>2. CASE \E s \in Threads \ {t} : Begin(s) \/ Step(s)
    <3>1. PICK s \in Threads \ {t} : Begin(s) \/ Step(s)
      BY <2>2
    <3>2. pc[s] = "idle"
      BY <1>1 DEF Calls, Base, Solo
    <3>3. Begin(s)
      BY <1>1, <3>1, <3>2, StepPlaces DEF Calls, Base
    <3> QED BY <1>1, <3>3, SoloBegin DEF Serial, Calls, Base
  <2>3. CASE MapRace \/ Crash
    BY <1>1, <2>3 DEF MapRace, Crash, Halt, NoReply
  <2>4. CASE Restart
    BY <1>1, <2>4 DEF Restart, Calls, DownIdle
  <2>5. CASE Begin(t)
    BY <1>1, <2>5 DEF Begin
  <2>6. CASE Step(t)
    BY <1>1, <2>0, <2>1, <2>6, NoAddStep
    DEF Step, Post, PostCan, PostNextId, PostBatch, PostObject,
        Put, PutExists, PutCheck, PutCount, PutStage, PutWrite, PutCommit, PutPlain,
        Delete, DelCheck, DelList, DelObjects, DelCounter, DelDescr, DelCommit, DelErase, DelDrop,
        Get, GetRoute, GetList, GetCheck, GetOpen, Calls
  <2> QED BY <1>1, <2>2, <2>3, <2>4, <2>5, <2>6 DEF Next
<1>2. Calls /\ [Next]_vars =>
        [\A t \in Threads :
            (pc[t] \in {"post_write", "post_object"} /\ reply'[t].status = 201) => There(t)]_vars
  BY <1>1
<1> QED BY <1>2, ListingHeld, PTL DEF Spec, CreatedIsStored

-----------------------------------------------------------------------------
(* The two copies of an object *)

\* Every row has its copy and no path of one is taken for an endpoint; the object without an id
\* that put_plain leaves is no row's copy.
Copies ==
    \A u \in Urls : rows[u] \subseteq objects[u] /\ NoId \notin IdsOf(rows[u]) /\ stray[u] = {}

\* What agrees still does when both get the same object under the same id.
LEMMA StoredAgree ==
    ASSUME NEW kv, NEW kw, kv \subseteq kw, NEW i, NEW o
    PROVE  Stored(kv, i, o) \subseteq Stored(kw, i, o)
BY DEF Stored

\* An object is written to both places, the family of its endpoint and /___all_objects___.
LEMMA CopiesStore ==
    ASSUME Calls, Copies, NEW s \in Threads, pc[s] \in {"post_write", "put_commit"},
           StoreObject(s, TRUE)
    PROVE  Copies'
<1> DEFINE u == req[s].url
           i == req[s].id
           o == req[s].obj
<1>1. u \in Urls /\ i \in Nat /\ i = counter[u]
  BY StoresAtCounter DEF Calls
<1>2. rows'[u] = Stored(rows[u], i, o) /\ \A v \in Urls \ {u} : rows'[v] = rows[v]
  <2>1. rows' = [rows EXCEPT ![u] = Stored(rows[u], i, o)]
    BY <1>1, StoreAppends DEF Appends
  <2>2. DOMAIN rows = Urls
    BY DEF Calls, Base, TypeInv, TypeOK
  <2> QED BY <1>1, <2>1, <2>2
<1>3. objects'[u] = Stored(objects[u], i, o) /\ \A v \in Urls \ {u} : objects'[v] = objects[v]
  <2>1. objects' = [objects EXCEPT ![u] = Stored(objects[u], i, o)]
    BY DEF StoreObject, ObjectsWith
  <2>2. DOMAIN objects = Urls
    BY DEF Calls, Base, TypeInv, TypeOK
  <2> QED BY <1>1, <2>1, <2>2
<1>4. rows'[u] \subseteq objects'[u]
  BY <1>1, <1>2, <1>3, StoredAgree DEF Copies
<1>5. NoId \notin IdsOf(rows'[u])
  BY <1>1, <1>2, StoredIds DEF Copies
<1>6. UNCHANGED stray
  BY StoreAppends
<1> QED BY <1>2, <1>3, <1>4, <1>5, <1>6 DEF Copies, IdsOf

\* An object of its own, under no id, is no copy of a row.
LEMMA CopiesPlain == ASSUME Calls, Copies, NEW s \in Threads, PutPlain(s) PROVE Copies'
<1>1. UNCHANGED <<rows, stray>>
  BY DEF PutPlain
<1>2. ASSUME NEW u \in Urls, NEW r \in rows[u] PROVE r \in objects'[u]
  <2>1. r \in objects[u] /\ r.id # NoId
    BY <1>2 DEF Copies, IdsOf
  <2> QED BY <2>1 DEF PutPlain, ObjectsWith, Stored, Calls, Base, TypeInv, TypeOK
<1> QED BY <1>1, <1>2 DEF Copies, IdsOf

\* The copies agree after any step.
LEMMA CopiesNext == ASSUME Serial, Calls, Copies, [Next]_vars PROVE Copies'
<1>1. ASSUME UNCHANGED <<rows, objects, stray>> PROVE Copies'
  BY <1>1 DEF Copies, IdsOf
<1>2. ASSUME NEW s \in Threads, PostWrite(s) \/ PutCommit(s) PROVE Copies'
  <2>1. UNCHANGED db \/ StoreObject(s, TRUE)
    BY <1>2, PostStores, PutStores
  <2> QED BY <1>1, <1>2, <2>1, CopiesStore DEF PostWrite, PutCommit, db
<1>3. ASSUME NEW s \in Threads, DelDrop(s) PROVE Copies'
  <2>1. /\ UNCHANGED <<objects, stray>>
        /\ \A u \in Urls : rows'[u] = rows[u] \/ rows'[u] = {}
    BY <1>3 DEF DelDrop, Halt, db, Calls, Base, TypeInv, TypeOK
  <2> QED BY <2>1 DEF Copies, IdsOf
<1>4. ASSUME NEW s \in Threads, DelCommit(s) PROVE Copies'
  <2>1. /\ UNCHANGED <<rows, objects>>
        /\ \A u \in Urls : stray'[u] \subseteq stray[u]
    BY <1>4 DEF DelCommit, Calls, Base, TypeInv, TypeOK
  <2> QED BY <2>1 DEF Copies, IdsOf
<1>5. ASSUME NEW s \in Threads, Step(s), ~PostWrite(s), ~PutCommit(s), ~PutPlain(s),
             ~DelCommit(s), ~DelDrop(s)
      PROVE  UNCHANGED <<rows, objects, stray>>
  <2>1. ~PostObject(s)
    BY DEF PostObject, Calls, Ready, ReadyAt
  <2> QED
    BY <1>5, <2>1, NoAddStep
    DEF Calls, Step, Post, PostCan, PostNextId, PostBatch,
        Put, PutExists, PutCheck, PutCount, PutStage, PutWrite,
        Delete, DelCheck, DelList, DelObjects, DelCounter, DelDescr, DelKey, DelErase,
        Get, GetRoute, GetList, GetCheck, GetOpen, Halt, db
<1>6. CASE \A s \in Threads : ~Step(s)
  BY <1>1, <1>6 DEF Next, Begin, MapRace, Crash, Restart, Halt, vars, db
<1>7. CASE \E s \in Threads : Step(s)
  BY <1>1, <1>2, <1>3, <1>4, <1>5, <1>7, CopiesPlain
<1> QED BY <1>6, <1>7

\* What an endpoint lists under an id is what the path with that id shows.
LEMMA CopiesAreTheSame == ASSUME Serial PROVE Spec => []CopiesAgree
<1>1. Init => Copies
  BY WorkloadAssumption DEF Serial, Init, Copies, IdsOf
<1>2. Calls /\ Copies /\ [Next]_vars => Copies'
  BY CopiesNext
<1>3. Copies => CopiesAgree
  <2> SUFFICES ASSUME Copies, NEW u \in Urls, NEW r \in rows[u] PROVE r.obj \in Fetched(u, r.id)
    BY DEF CopiesAgree
  <2>1. r \in {x \in objects[u] : x.id = r.id} /\ r.id \notin stray[u]
    BY DEF Copies
  <2> QED BY <2>1 DEF Fetched
<1> QED BY <1>1, <1>2, <1>3, ListingHeld, PTL DEF Spec

\* A listing has every id below the counter once, and under it what the path of the object shows.
THEOREM ListingsAreTrue == ASSUME Serial PROVE Spec => []ListingsTrue
BY ListingsAreDense, CopiesAreTheSame, PTL DEF ListingsTrue

-----------------------------------------------------------------------------
(* The refinement *)

\* The requests carry objects that clients store.
LEMMA CarriedNext == ASSUME Serial, Calls, Carried, [Next]_vars PROVE Carried'
<1>0. TypeInv /\ Base
  BY DEF Calls, Base
<1>1. ASSUME NEW s \in Threads, Step(s), ~Halt("died") PROVE Carried'
  <2>1. ASSUME calls' = calls, pc'[s] = "idle" \/ req'[s].obj = req[s].obj PROVE Carried'
    <3>1. /\ pc[s] # "idle"
          /\ \A t \in Threads \ {s} : pc'[t] = "idle" \/ (pc'[t] = pc[t] /\ req'[t] = req[t])
      BY <1>0, <1>1, StepPlaces
    <3> QED BY <2>1, <3>1 DEF Carried
  \* a request keeps its object until it is over
  <2>2. ASSUME \/ pc' = [pc EXCEPT ![s] = "idle"]
               \/ req' = req
               \/ \E i : req' = [req EXCEPT ![s].id = i]
               \/ \E h : req' = [req EXCEPT ![s].hdl = h]
               \/ \E i, g : req' = [req EXCEPT ![s].id = i, ![s].staged = g]
               \/ \E K : req' = [req EXCEPT ![s].keys = K]
               \/ \E D : req' = [req EXCEPT ![s].todo = D]
               \/ \E D, K : req' = [req EXCEPT ![s].todo = D, ![s].keys = K]
        PROVE  pc'[s] = "idle" \/ req'[s].obj = req[s].obj
    <3>1. req[s] \in Requests /\ DOMAIN req = Threads /\ DOMAIN pc = Threads
      BY <1>0 DEF TypeInv, TypeOK
    <3>2. ASSUME NEW i, NEW g,
                 \/ req' = [req EXCEPT ![s].id = i]
                 \/ req' = [req EXCEPT ![s].hdl = i]
                 \/ req' = [req EXCEPT ![s].id = i, ![s].staged = g]
                 \/ req' = [req EXCEPT ![s].keys = i]
                 \/ req' = [req EXCEPT ![s].todo = i]
                 \/ req' = [req EXCEPT ![s].todo = i, ![s].keys = g]
          PROVE  req'[s].obj = req[s].obj
      BY <3>1, <3>2 DEF Requests
    <3> QED BY <2>2, <3>1, <3>2
  <2>3. CASE Post(s)
    <3>1. CASE PostWrite(s) \/ PostObject(s)
      BY <2>1, <2>2, <3>1 DEF PostWrite, PostObject, Answer
    <3>2. CASE PostCan(s) \/ PostNextId(s) \/ PostBatch(s)
      BY <2>1, <2>2, <3>2 DEF PostCan, PostNextId, PostBatch, Answer, memory
    <3> QED BY <2>3, <3>1, <3>2 DEF Post
  <2>4. CASE Put(s)
    <3>1. CASE PutCount(s) \/ PutStage(s)
      BY <1>1, <2>1, <2>2, <3>1 DEF PutCount, PutStage, Answer
    <3>2. CASE PutExists(s) \/ PutCheck(s) \/ PutCommit(s) \/ PutPlain(s)
      BY <2>1, <2>2, <3>2 DEF PutExists, PutCheck, PutCommit, PutPlain, Answer, memory
    <3>3. CASE PutWrite(s)
      BY <2>1, <2>2, <3>3 DEF PutWrite, Answer
    <3> QED BY <2>4, <3>1, <3>2, <3>3 DEF Put
  <2>5. CASE Delete(s)
    <3>1. CASE DelCounter(s) \/ DelDescr(s)
      BY <2>1, <2>2, <3>1 DEF DelCounter, DelDescr, DelKey, Answer
    <3>2. CASE DelCommit(s) \/ DelErase(s)
      BY <2>1, <2>2, <3>2 DEF DelCommit, DelErase
    <3>3. CASE DelCheck(s) \/ DelDrop(s)
      BY <1>1, <2>1, <2>2, <3>3 DEF DelCheck, DelDrop, Answer, memory
    <3>4. CASE DelList(s) \/ DelObjects(s)
      BY <2>1, <2>2, <3>4 DEF DelList, DelObjects, memory
    <3> QED BY <2>5, <3>1, <3>2, <3>3, <3>4 DEF Delete
  <2>6. CASE Get(s)
    BY <1>1, <2>1, <2>2, <2>6 DEF Get, GetRoute, GetList, GetCheck, GetOpen, Answer, memory
  <2> QED BY <1>0, <1>1, <2>3, <2>4, <2>5, <2>6, NoAddStep DEF Step
<1>2. ASSUME NEW s \in Threads, Begin(s) PROVE Carried'
  <2>1. PICK u \in Urls : req' = [req EXCEPT ![s] = [NoReq EXCEPT !.url = u, !.obj = calls + 1]]
    BY <1>2 DEF Begin
  <2>2. req'[s].obj = calls + 1 /\ \A t \in Threads \ {s} : req'[t] = req[t]
    BY <1>0, <2>1 DEF NoReq, TypeInv, TypeOK
  <2>3. \A t \in Threads \ {s} : pc'[t] = pc[t]
    BY <1>0, <1>2, SoloBegin DEF Serial, Base
  <2>4. calls' = calls + 1 /\ calls < MaxCalls
    BY <1>2 DEF Begin
  <2> QED BY <2>2, <2>3, <2>4, MaxCallsAssumption DEF Carried
<1>3. ASSUME NEW why, Halt(why) PROVE Carried'
  BY <1>3 DEF Halt, Carried
<1>4. CASE Restart \/ UNCHANGED vars
  BY <1>4 DEF Restart, vars, memory, Carried
<1> QED BY <1>1, <1>2, <1>3, <1>4 DEF Next, MapRace, Crash

\* The object a listing shows at position i, as ListingOf writes it.
SoleObject(at) == IF Cardinality(at) = 1 THEN (CHOOSE r \in at : TRUE).obj ELSE 0
Shown(kv, i) == SoleObject({r \in kv : r.id = i - 1})

\* How many objects it shows.
Length(u) == IF IsEndpoint(u) THEN counter[u] ELSE 0

\* A function on the first numbers is a sequence.
LEMMA FunctionIsSeq ==
    ASSUME NEW S, NEW c \in Nat, NEW s \in [1 .. c -> S]
    PROVE  s \in Seq(S) /\ Len(s) = c
<1>1. s \in Seq(S)
  BY SeqDef
<1>2. DOMAIN s = 1 .. Len(s) /\ Len(s) \in Nat
  BY <1>1, LenProperties
<1>3. 1 .. c = 1 .. Len(s)
  BY <1>2
<1> QED BY <1>1, <1>2, <1>3

\* A function that is one longer than a sequence, and agrees with it, is the sequence with one
\* element appended.
LEMMA AppendOne ==
    ASSUME NEW S, NEW c \in Nat, NEW s \in [1 .. c -> S], NEW t \in [1 .. c + 1 -> S],
           \A i \in 1 .. c : t[i] = s[i]
    PROVE  t = Append(s, t[c + 1])
<1>1. /\ s \in Seq(S) /\ Len(s) = c
      /\ t \in Seq(S) /\ Len(t) = c + 1
      /\ t[c + 1] \in S
  BY FunctionIsSeq
<1>2. /\ Append(s, t[c + 1]) \in Seq(S)
      /\ Len(Append(s, t[c + 1])) = Len(s) + 1
      /\ \A i \in 1 .. Len(s) : Append(s, t[c + 1])[i] = s[i]
      /\ Append(s, t[c + 1])[Len(s) + 1] = t[c + 1]
  BY <1>1, AppendProperties
<1>3. \A i \in 1 .. c + 1 : t[i] = Append(s, t[c + 1])[i]
  BY <1>1, <1>2
<1> QED BY <1>1, <1>2, <1>3, SeqEqual

\* A stored object is shown at the end, and what was shown before is shown as before.
LEMMA StoredIsShown ==
    ASSUME NEW c \in Nat, NEW kv, NEW o
    PROVE  /\ Shown(Stored(kv, c, o), c + 1) = o
           /\ \A i \in 1 .. c : Shown(Stored(kv, c, o), i) = Shown(kv, i)
<1> DEFINE n == [id |-> c, obj |-> o]
           kw == Stored(kv, c, o)
<1>1. n.id = c /\ n.obj = o
  OBVIOUS
<1>2. {r \in kw : r.id = (c + 1) - 1} = {n}
  BY <1>1 DEF Stored
<1>3. (CHOOSE r \in {n} : TRUE) = n
  OBVIOUS
<1>4. Shown(kw, c + 1) = o
  BY <1>1, <1>2, <1>3, FS_Singleton DEF Shown, SoleObject
<1>5. ASSUME NEW i \in 1 .. c PROVE Shown(kw, i) = Shown(kv, i)
  <2>1. i - 1 # c
    OBVIOUS
  <2>2. \A r : r \in kw /\ r.id = i - 1 <=> r \in kv /\ r.id = i - 1
    BY <1>1, <2>1 DEF Stored
  <2>3. {r \in kw : r.id = i - 1} = {r \in kv : r.id = i - 1}
    BY <2>2
  <2> QED BY <2>3 DEF Shown
<1> QED BY <1>4, <1>5

\* The log of a url, in these terms, before and after a step.
LEMMA LogsAre ==
    ASSUME NEW u \in Urls
    PROVE  /\ ListingOf(u) = [i \in 1 .. Length(u) |-> Shown(rows[u], i)]
           /\ ListingOf(u)' = [i \in 1 .. Length(u)' |-> Shown(rows'[u], i)]
BY DEF ListingOf, Shown, SoleObject, Length, IsEndpoint

\* A url whose rows and counter stay keeps its log, and one that is no endpoint has none.
LEMMA LogKept ==
    ASSUME NEW u \in Urls, counter'[u] = counter[u], rows'[u] = rows[u] \/ ~IsEndpoint(u)
    PROVE  ListingOf(u)' = ListingOf(u) /\ IsEndpoint(u)' = IsEndpoint(u)
<1>1. IsEndpoint(u)' = IsEndpoint(u) /\ Length(u)' = Length(u)
  BY DEF IsEndpoint, Length
<1>2. CASE rows'[u] = rows[u]
  BY <1>1, <1>2, LogsAre
<1>3. CASE ~IsEndpoint(u)
  <2>1. Length(u) = 0
    BY <1>3 DEF Length
  <2>2. 1 .. 0 = {}
    OBVIOUS
  <2>3. [i \in 1 .. 0 |-> Shown(rows'[u], i)] = [i \in 1 .. 0 |-> Shown(rows[u], i)]
    BY <2>2
  <2> QED BY <1>1, <2>1, <2>3, LogsAre
<1> QED BY <1>1, <1>2, <1>3

\* The variables of EndpointLog, as Log gives them.
exists == {u \in Urls : IsEndpoint(u)}
log == [u \in Urls |-> ListingOf(u)]

\* A stored object is appended to one log.
LEMMA AppendsToLog ==
    ASSUME Calls, Carried, NEW s \in Threads, Appends(s)
    PROVE  \E u \in Urls : Log!AppendObject(u)
<1>0. counter \in [Urls -> Ids] /\ rows \in [Urls -> SUBSET [id : Ids, obj : Nat]]
  BY DEF Calls, Base, TypeInv, TypeOK
<1>1. PICK u \in Urls :
        /\ u = req[s].url
        /\ counter[u] \in Nat /\ counter' = [counter EXCEPT ![u] = counter[u] + 1]
        /\ rows' = [rows EXCEPT ![u] = Stored(rows[u], counter[u], req[s].obj)]
  BY DEF Appends
<1> DEFINE c == counter[u]
           o == req[s].obj
<1>2. o \in 1 .. MaxCalls
  BY DEF Appends, Carried
<1>3. c \in Nat /\ Length(u) = c /\ Length(u)' = c + 1 /\ IsEndpoint(u) /\ IsEndpoint(u)'
  BY <1>0, <1>1 DEF Length, IsEndpoint
<1>4. ListingOf(u) = [i \in 1 .. c |-> Shown(rows[u], i)]
  BY <1>3, LogsAre
<1>5. ListingOf(u)' = [i \in 1 .. c + 1 |-> Shown(Stored(rows[u], c, o), i)]
  BY <1>0, <1>1, <1>3, LogsAre
<1>6. ListingOf(u)' = Append(ListingOf(u), o)
  <2> DEFINE s1 == [i \in 1 .. c |-> Shown(rows[u], i)]
             s2 == [i \in 1 .. c + 1 |-> Shown(Stored(rows[u], c, o), i)]
             S == {Shown(rows[u], i) : i \in 1 .. c} \cup {o}
  <2>1. s2[c + 1] = o /\ \A i \in 1 .. c : s2[i] = s1[i]
    BY <1>3, StoredIsShown
  <2>2. s1 \in [1 .. c -> S] /\ s2 \in [1 .. c + 1 -> S]
    <3>1. s1 \in [1 .. c -> S]
      OBVIOUS
    <3>2. \A i \in 1 .. c + 1 : i \in 1 .. c \/ i = c + 1
      BY <1>3
    <3> QED BY <2>1, <3>1, <3>2
  <2> HIDE DEF s1, s2, S
  <2>3. s2 = Append(s1, s2[c + 1])
    BY <1>3, <2>1, <2>2, AppendOne
  <2> QED BY <1>4, <1>5, <2>1, <2>3 DEF s1, s2
<1>7. \A v \in Urls \ {u} : ListingOf(v)' = ListingOf(v) /\ IsEndpoint(v)' = IsEndpoint(v)
  <2>1. ASSUME NEW v \in Urls \ {u} PROVE counter'[v] = counter[v] /\ rows'[v] = rows[v]
    BY <1>0, <1>1
  <2> QED BY <2>1, LogKept
<1>8. exists' = exists /\ u \in exists
  BY <1>3, <1>7 DEF exists
<1>9. log' = [log EXCEPT ![u] = Append(log[u], o)]
  BY <1>6, <1>7 DEF log
<1> QED BY <1>2, <1>8, <1>9 DEF Log!AppendObject, exists, log

\* The commit of a deletion deletes one log, if there is one.
LEMMA DeletesLog ==
    ASSUME Calls, NEW s \in Threads, DelCommit(s)
    PROVE  (\E u \in Urls : Log!DeleteLog(u)) \/ UNCHANGED <<exists, log>>
<1>0. counter \in [Urls -> Ids] /\ rows \in [Urls -> SUBSET [id : Ids, obj : Nat]]
  BY DEF Calls, Base, TypeInv, TypeOK
<1>1. PICK u \in Urls : u = req[s].url
  BY DEF DelCommit, Calls, Base, TypeInv, UrlsNamed
<1>2. /\ counter' = counter \/ counter' = [counter EXCEPT ![u] = NoId]
      /\ UNCHANGED rows
  BY <1>1 DEF DelCommit, Unregister
<1>3. \A v \in Urls \ {u} : ListingOf(v)' = ListingOf(v) /\ IsEndpoint(v)' = IsEndpoint(v)
  <2>1. ASSUME NEW v \in Urls \ {u} PROVE counter'[v] = counter[v] /\ rows'[v] = rows[v]
    BY <1>0, <1>2
  <2> QED BY <2>1, LogKept
<1>4. CASE counter'[u] = counter[u]
  <2>1. ListingOf(u)' = ListingOf(u) /\ IsEndpoint(u)' = IsEndpoint(u)
    BY <1>2, <1>4, LogKept
  <2> QED BY <1>3, <2>1 DEF exists, log
<1>5. CASE counter'[u] # counter[u]
  <2>1. IsEndpoint(u) /\ ~IsEndpoint(u)' /\ Length(u)' = 0
    BY <1>0, <1>2, <1>5 DEF IsEndpoint, Length
  <2>2. ListingOf(u)' = << >>
    BY <2>1, LogsAre
  <2>3. exists' = exists \ {u} /\ u \in exists
    BY <1>3, <2>1 DEF exists
  <2>4. log' = [log EXCEPT ![u] = << >>]
    BY <1>3, <2>2 DEF log
  <2> QED BY <2>3, <2>4 DEF Log!DeleteLog, exists, log
<1> QED BY <1>4, <1>5

\* The endpoint store is a set of append-only logs: whatever posts, puts, deletions, crashes and
\* restarts do, every step appends one object to one log, deletes one, or changes none.
THEOREM StoreImplementsLog == ASSUME Serial PROVE Spec => ImplementsLog
<1>1. Init => Log!LogInit
  <2> SUFFICES ASSUME Init PROVE Log!LogInit
    OBVIOUS
  <2>1. {u \in Urls : IsEndpoint(u)} = Registered
    BY WorkloadAssumption DEF Serial, Init, IsEndpoint
  <2>2. ASSUME NEW u \in Urls PROVE ListingOf(u) = << >>
    <3>1. Length(u) = 0
      BY DEF Serial, Init, Length, IsEndpoint
    <3> QED BY <3>1, LogsAre
  <2> QED BY <2>1, <2>2 DEF Log!LogInit
<1>2. Calls /\ Carried /\ [Next]_vars => [Log!LogNext]_<<exists, log>>
  <2> SUFFICES ASSUME Calls, Carried, [Next]_vars PROVE Log!LogNext \/ UNCHANGED <<exists, log>>
    OBVIOUS
  <2>0. ASSUME \A u \in Urls : counter'[u] = counter[u] /\ (rows'[u] = rows[u] \/ ~IsEndpoint(u))
        PROVE  UNCHANGED <<exists, log>>
    <3>1. \A u \in Urls : ListingOf(u)' = ListingOf(u) /\ IsEndpoint(u)' = IsEndpoint(u)
      BY <2>0, LogKept
    <3> QED BY <3>1 DEF exists, log
  <2>1. ASSUME NEW s \in Threads, Step(s) PROVE Log!LogNext \/ UNCHANGED <<exists, log>>
    <3>1. CASE Appends(s)
      BY <3>1, AppendsToLog DEF Log!LogNext
    <3>2. CASE Drops(s)
      BY <2>0, <3>2 DEF Drops, Calls, Base, TypeInv, TypeOK
    <3>3. CASE DelCommit(s)
      BY <3>3, DeletesLog DEF Log!LogNext
    <3>4. CASE UNCHANGED <<counter, rows>>
      BY <2>0, <3>4
    <3> QED BY <2>1, <3>1, <3>2, <3>3, <3>4, ListingSteps
  <2> QED BY <2>0, <2>1, OtherSteps
<1>3. Init => Carried
  BY MaxCallsAssumption DEF Init, Carried
<1>4. Calls /\ Carried /\ [Next]_vars => Carried'
  BY CarriedNext
<1>5. [Log!LogNext]_<<exists, log>> => [Log!LogNext]_Log!logVars
  BY DEF Log!logVars, exists, log
<1> QED BY <1>1, <1>2, <1>3, <1>4, <1>5, ListingHeld, PTL DEF Spec, ImplementsLog, Log!LogSpec

=============================================================================
