--------------------------- MODULE EndpointsProofs ---------------------------
(***************************************************************************)
(* Proofs about Endpoints, for every set of requests and urls, every        *)
(* workload and every pattern of failing writes.                            *)
(***************************************************************************)
EXTENDS Endpoints, FiniteSetTheorems, WellFoundedInduction, TLAPS

\* A request in progress is about one of the urls.
UrlsNamed == \A t \in Threads : pc[t] # "idle" => req[t].url \in Urls

\* A request about to write an object under an id has one.
Writing == {"post_write", "post_object", "put_stage", "put_write", "put_commit"}
IdsKnown == \A t \in Threads : pc[t] \in Writing => req[t].id \in Nat

TypeInv == TypeOK /\ UrlsNamed /\ IdsKnown

USE DEF NoId, Absent, Null, Places, Writing

\* The keys of different things are different locks.
LEMMA KeysDiffer ==
    ASSUME NEW u \in Urls, NEW v \in Urls
    PROVE  /\ CounterKey(u) # DescrKey(v)
           /\ CounterKey(u) # CountKey
           /\ DescrKey(u) # CountKey
           /\ CounterKey(u) = CounterKey(v) => u = v
           /\ DescrKey(u) = DescrKey(v) => u = v
           /\ {CounterKey(u), DescrKey(u), CountKey} \subseteq LockKeys
BY DEF CounterKey, DescrKey, CountKey, LockKeys

\* The types hold at the start.
LEMMA TypeInit == Init => TypeInv
<1> SUFFICES ASSUME Init PROVE TypeInv
  OBVIOUS
<1>1. NoReq \in Requests /\ NoReply \in [status : Nat, id : Ids]
  BY DEF NoReq, NoReply, Requests, Ids, Handles
<1>2. TypeOK
  BY <1>1, WorkloadAssumption, ThreadsAssumption DEF Init, TypeOK, Ids, Handles, Labels
<1>3. UrlsNamed /\ IdsKnown
  BY DEF Init, UrlsNamed, IdsKnown
<1> QED BY <1>2, <1>3 DEF TypeInv

\* An answer leaves the request idle, with a status and an id of the right types.
LEMMA TypeAnswer ==
    ASSUME TypeInv, NEW t \in Threads, NEW s \in Nat, NEW i \in Ids, Answer(t, s, i)
    PROVE  /\ pc' \in [Threads -> Labels]
           /\ req' \in [Threads -> Requests]
           /\ reply' \in [Threads -> [status : Nat, id : Ids]]
           /\ UrlsNamed'
           /\ IdsKnown'
<1>1. NoReq \in Requests
  BY DEF NoReq, Requests, Ids, Handles
<1> QED BY <1>1 DEF TypeInv, TypeOK, UrlsNamed, IdsKnown, Answer, Labels

\* The end of the process leaves types alone: its memory is as at the start.
LEMMA TypeHalt ==
    ASSUME TypeInv, NEW why \in {"crashed", "died"}, Halt(why)
    PROVE  TypeInv'
<1>1. NoReq \in Requests /\ NoReply \in [status : Nat, id : Ids]
  BY DEF NoReq, NoReply, Requests, Ids, Handles
<1>2. lock' \in [LockKeys -> Threads \cup {Free, Orphan}] /\ leaked' \in [Urls -> SUBSET Ids]
  BY DEF Halt
<1>3. TypeOK'
  BY <1>1, <1>2 DEF TypeInv, TypeOK, Halt, db, Ids, Handles, Labels
<1>4. UrlsNamed' /\ IdsKnown'
  BY DEF Halt, UrlsNamed, IdsKnown
<1> QED BY <1>3, <1>4 DEF TypeInv

\* Storing an object under a known id keeps the types of the database.
LEMMA TypeStore ==
    ASSUME TypeInv, NEW t \in Threads, NEW counted, req[t].url \in Urls,
           req[t].id \in Nat, StoreObject(t, counted)
    PROVE  /\ counter' \in [Urls -> Ids]
           /\ rows' \in [Urls -> SUBSET [id : Ids, obj : Nat]]
           /\ objects' \in [Urls -> SUBSET [id : Ids, obj : Nat]]
           /\ stray' \in [Urls -> SUBSET Ids]
           /\ UNCHANGED <<descr, family, made>>
<1> DEFINE O == [id : Ids, obj : Nat]
           r == [id |-> req[t].id, obj |-> req[t].obj]
<1>1. r \in O
  BY DEF TypeInv, TypeOK, Requests, Ids
<1>2. ASSUME NEW kv \in SUBSET O PROVE Stored(kv, req[t].id, req[t].obj) \in SUBSET O
  BY <1>1 DEF Stored
<1>3. counter' \in [Urls -> Ids]
  BY DEF StoreObject, TypeInv, TypeOK, Ids
<1>4. rows' \in [Urls -> SUBSET O]
  BY <1>2 DEF StoreObject, RowsWith, TypeInv, TypeOK
<1>5. objects' \in [Urls -> SUBSET O]
  BY <1>2 DEF StoreObject, ObjectsWith, TypeInv, TypeOK
<1>6. stray' \in [Urls -> SUBSET Ids]
  BY DEF StoreObject, StrayWith, TypeInv, TypeOK, Ids
<1> QED BY <1>3, <1>4, <1>5, <1>6 DEF StoreObject

\* What taking, giving back and losing locks makes of the lock table.
LEMMA TypeLocks ==
    ASSUME TypeInv, NEW t \in Threads
    PROVE  /\ Released(t) \in [LockKeys -> Threads \cup {Free, Orphan}]
           /\ Abandoned(t) \in [LockKeys -> Threads \cup {Free, Orphan}]
           /\ \A k \in LockKeys : Take(t, k) => lock' \in [LockKeys -> Threads \cup {Free, Orphan}]
           /\ LeakedBy(t) \in [Urls -> SUBSET Ids]
BY DEF TypeInv, TypeOK, Requests, Released, Abandoned, Take, LeakedBy

\* Changing one field of one request keeps the types and every url.
LEMMA TypeField ==
    ASSUME TypeInv, NEW t \in Threads, NEW i \in Ids, NEW h \in Handles,
           NEW g \in SUBSET {"descriptor", "count", "counter"},
           \/ req' = [req EXCEPT ![t].id = i]
           \/ req' = [req EXCEPT ![t].hdl = h]
           \/ req' = [req EXCEPT ![t].staged = g]
    PROVE  /\ req' \in [Threads -> Requests]
           /\ \A s \in Threads : /\ req'[s].url = req[s].url
                                 /\ req'[s].id \in {req[s].id, i}
                                 /\ s # t => req'[s] = req[s]
<1>1. req \in [Threads -> Requests]
  BY DEF TypeInv, TypeOK
<1>2. /\ [req[t] EXCEPT !.id = i] \in Requests
      /\ [req[t] EXCEPT !.hdl = h] \in Requests
      /\ [req[t] EXCEPT !.staged = g] \in Requests
  BY <1>1 DEF Requests
<1>3. req' \in [Threads -> Requests]
  BY <1>1, <1>2
<1>4. \A s \in Threads : s # t => req'[s] = req[s]
  BY <1>1
<1>5. req'[t].url = req[t].url /\ req'[t].id \in {req[t].id, i}
  BY <1>1 DEF Requests
<1> QED BY <1>3, <1>4, <1>5

\* So does what a put read of the counter.
LEMMA TypeRead ==
    ASSUME TypeInv, NEW t \in Threads, NEW i \in Ids, NEW g \in SUBSET {"counter"},
           req' = [req EXCEPT ![t].id = i, ![t].staged = g]
    PROVE  /\ req' \in [Threads -> Requests]
           /\ \A s \in Threads : /\ req'[s].url = req[s].url
                                 /\ req'[s].id \in {req[s].id, i}
                                 /\ s # t => req'[s] = req[s]
<1>1. req \in [Threads -> Requests]
  BY DEF TypeInv, TypeOK
<1>2. [req[t] EXCEPT !.id = i, !.staged = g] \in Requests
  BY <1>1 DEF Requests
<1>3. req' \in [Threads -> Requests]
  BY <1>1, <1>2
<1>4. \A s \in Threads : s # t => req'[s] = req[s]
  BY <1>1
<1>5. req'[t].url = req[t].url /\ req'[t].id \in {req[t].id, i}
  BY <1>1 DEF Requests
<1> QED BY <1>3, <1>4, <1>5

\* And the objects a request has yet to delete, and those whose keys it has locked.
LEMMA TypeKeys ==
    ASSUME TypeInv, NEW t \in Threads, NEW D \in SUBSET Ids, NEW K \in SUBSET Ids,
           \/ req' = [req EXCEPT ![t].todo = D]
           \/ req' = [req EXCEPT ![t].keys = K]
           \/ req' = [req EXCEPT ![t].todo = D, ![t].keys = K]
    PROVE  /\ req' \in [Threads -> Requests]
           /\ \A s \in Threads : /\ req'[s].url = req[s].url
                                 /\ req'[s].id = req[s].id
                                 /\ s # t => req'[s] = req[s]
<1>1. req \in [Threads -> Requests]
  BY DEF TypeInv, TypeOK
<1>2. /\ [req[t] EXCEPT !.todo = D] \in Requests
      /\ [req[t] EXCEPT !.keys = K] \in Requests
      /\ [req[t] EXCEPT !.todo = D, !.keys = K] \in Requests
  BY <1>1 DEF Requests
<1>3. req' \in [Threads -> Requests]
  BY <1>1, <1>2
<1>4. \A s \in Threads : s # t => req'[s] = req[s]
  BY <1>1
<1>5. req'[t].url = req[t].url /\ req'[t].id = req[t].id
  BY <1>1 DEF Requests
<1> QED BY <1>3, <1>4, <1>5

\* The types after the beginning of a call.
LEMMA TypeBegin == ASSUME TypeInv, NEW t \in Threads, Begin(t) PROVE TypeInv'
<1>1. NoReq \in Requests /\ NoReply \in [status : Nat, id : Ids]
  BY DEF NoReq, NoReply, Requests, Ids, Handles
<1>2. PICK o \in Ops, u \in Urls :
         /\ Goto(t, Entry[o])
         /\ req' = [req EXCEPT ![t] = [NoReq EXCEPT !.url = u, !.obj = calls + 1]]
  BY DEF Begin
<1>3. Entry[o] \in Labels \ Writing
  BY WorkloadAssumption DEF Entry, Labels, AllOps
<1>4. [NoReq EXCEPT !.url = u, !.obj = calls + 1] \in Requests
  <2>1. calls + 1 \in Nat /\ u \in Urls \cup {Null}
    BY DEF TypeInv, TypeOK
  <2>2. ASSUME NEW r \in Requests PROVE [r EXCEPT !.url = u, !.obj = calls + 1] \in Requests
    BY <2>1 DEF Requests
  <2> QED BY <1>1, <2>2
<1>5. [NoReq EXCEPT !.url = u, !.obj = calls + 1].url = u
  BY DEF NoReq
<1>6. TypeOK'
  BY <1>1, <1>2, <1>3, <1>4 DEF TypeInv, TypeOK, Begin, Goto, db
<1>7. UrlsNamed'
  BY <1>2, <1>5 DEF TypeInv, TypeOK, UrlsNamed, Goto
<1>8. IdsKnown'
  BY <1>2, <1>3 DEF TypeInv, TypeOK, IdsKnown, Goto
<1> QED BY <1>6, <1>7, <1>8 DEF TypeInv

\* The types after a step of post.
LEMMA TypePost == ASSUME TypeInv, NEW t \in Threads, Post(t) PROVE TypeInv'
<1> USE DEF TypeInv
<1>1. CASE PostCan(t)
  <2>1. CASE IsEndpoint(req[t].url)
    BY <1>1, <2>1 DEF PostCan, Goto, TypeOK, UrlsNamed, IdsKnown, db, memory, Labels
  <2>2. CASE ~IsEndpoint(req[t].url)
    BY <1>1, <2>2, TypeAnswer DEF PostCan, TypeOK, db, memory, Ids
  <2> QED BY <2>1, <2>2
<1>2. CASE PostNextId(t)
  <2>1. counter[req[t].url] \in Ids
    BY <1>2 DEF PostNextId, TypeOK, UrlsNamed
  <2>2. PICK i \in Ids : req' = [req EXCEPT ![t].id = i]
    BY <1>2, <2>1 DEF PostNextId
  <2>3. /\ req' \in [Threads -> Requests]
        /\ \A s \in Threads : req'[s].url = req[s].url /\ (s # t => req'[s] = req[s])
    BY <2>2, TypeField DEF Handles
  <2> QED
    BY <1>2, <2>3 DEF PostNextId, Goto, TypeOK, UrlsNamed, IdsKnown, db, memory, Labels
<1>3. CASE PostBatch(t)
  <2>1. CASE handle[req[t].url] = Absent \/ req[t].id = NoId
    <3>1. Answer(t, 400, NoId) /\ UNCHANGED <<db, memory>>
      BY <1>3, <2>1 DEF PostBatch
    <3> QED
      BY <3>1, TypeAnswer DEF TypeOK, db, memory, Ids
  <2>2. CASE ~(handle[req[t].url] = Absent \/ req[t].id = NoId)
    <3>1. handle[req[t].url] \in Handles /\ req[t].id \in Nat
      BY <1>3, <2>2 DEF PostBatch, TypeOK, UrlsNamed, Requests, Ids
    <3>2. /\ req' = [req EXCEPT ![t].hdl = handle[req[t].url]]
          /\ Goto(t, "post_write")
          /\ UNCHANGED <<db, memory, reply>>
      BY <1>3, <2>2 DEF PostBatch
    <3>3. /\ req' \in [Threads -> Requests]
          /\ \A s \in Threads : /\ req'[s].url = req[s].url
                                /\ req'[s].id \in {req[s].id, req[t].id}
                                /\ s # t => req'[s] = req[s]
      BY <3>1, <3>2, TypeField DEF Ids
    <3> QED
      BY <1>3, <3>1, <3>2, <3>3
      DEF PostBatch, Goto, TypeOK, UrlsNamed, IdsKnown, db, memory, Labels
  <2> QED BY <2>1, <2>2
\* both writes of a batch
<1>4. ASSUME pc[t] \in {"post_write", "post_object"},
             UNCHANGED db \/ StoreObject(t, TRUE), Answer(t, 201, req[t].id),
             lock' \in [LockKeys -> Threads \cup {Free, Orphan}],
             UNCHANGED <<up, handle, leaked, calls>>
      PROVE  TypeInv'
  <2>1. req[t].url \in Urls /\ req[t].id \in Nat
    BY <1>4 DEF UrlsNamed, IdsKnown
  <2>2. /\ counter' \in [Urls -> Ids]
        /\ rows' \in [Urls -> SUBSET [id : Ids, obj : Nat]]
        /\ objects' \in [Urls -> SUBSET [id : Ids, obj : Nat]]
        /\ stray' \in [Urls -> SUBSET Ids]
        /\ UNCHANGED <<descr, family, made>>
    BY <1>4, <2>1, TypeStore DEF db, TypeOK
  <2> QED
    BY <1>4, <2>1, <2>2, TypeAnswer DEF TypeOK, Ids
<1>5. CASE PostWrite(t)
  <2>1. CASE /\ UNCHANGED db \/ StoreObject(t, TRUE)
             /\ Answer(t, 201, req[t].id)
             /\ UNCHANGED lock
    BY <1>4, <1>5, <2>1 DEF PostWrite, TypeOK
  <2>2. CASE /\ Take(t, CounterKey(req[t].url))
             /\ Goto(t, "post_object")
             /\ UNCHANGED <<db, req, reply>>
    <3>1. req[t].url \in Urls /\ req[t].id \in Nat
      BY <1>5 DEF PostWrite, UrlsNamed, IdsKnown
    <3>2. lock' \in [LockKeys -> Threads \cup {Free, Orphan}]
      BY <2>2, <3>1, KeysDiffer, TypeLocks
    <3> QED
      BY <1>5, <2>2, <3>1, <3>2 DEF PostWrite, Goto, TypeOK, UrlsNamed, IdsKnown, db, Labels
  <2> QED BY <1>5, <2>1, <2>2 DEF PostWrite
<1>6. CASE PostObject(t)
  <2>1. Released(t) \in [LockKeys -> Threads \cup {Free, Orphan}]
    BY TypeLocks
  <2> QED BY <1>4, <1>6, <2>1 DEF PostObject
<1> QED BY <1>1, <1>2, <1>3, <1>5, <1>6 DEF Post

\* The types after a step of put.
LEMMA TypePut == ASSUME TypeInv, NEW t \in Threads, Put(t) PROVE TypeInv'
<1> USE DEF TypeInv
<1>1. CASE PutExists(t)
  <2>1. CASE IsEndpoint(req[t].url)
    BY <1>1, <2>1 DEF PutExists, Goto, TypeOK, UrlsNamed, IdsKnown, db, memory, Labels
  <2>2. CASE ~IsEndpoint(req[t].url)
    BY <1>1, <2>2, TypeAnswer DEF PutExists, TypeOK, db, memory, Ids
  <2> QED BY <2>1, <2>2
<1>2. CASE PutCheck(t)
  BY <1>2 DEF PutCheck, Goto, TypeOK, UrlsNamed, IdsKnown, db, memory, Labels
<1>3. CASE PutCount(t)
  <2>0. req[t].url \in Urls
    BY <1>3 DEF PutCount, UrlsNamed
  <2>1. CASE Halt("died")
    BY <2>1, TypeHalt
  <2>2. CASE ~Halt("died")
    <3>1. /\ IsEndpoint(req[t].url)
          /\ Take(t, CounterKey(req[t].url))
          /\ \E g \in SUBSET {"counter"} :
               req' = [req EXCEPT ![t].id = counter[req[t].url], ![t].staged = g]
          /\ Goto(t, "put_stage")
          /\ UNCHANGED <<db, up, handle, leaked, calls, reply>>
      BY <1>3, <2>2 DEF PutCount
    <3>2. counter[req[t].url] \in Nat
      BY <3>1, <2>0 DEF IsEndpoint, TypeOK, Ids
    <3>3. lock' \in [LockKeys -> Threads \cup {Free, Orphan}]
      BY <3>1, <2>0, KeysDiffer, TypeLocks
    <3>4. PICK g \in SUBSET {"counter"} :
            req' = [req EXCEPT ![t].id = counter[req[t].url], ![t].staged = g]
      BY <3>1
    <3>6. counter[req[t].url] \in Ids
      BY <3>2 DEF Ids
    <3>7. /\ req' \in [Threads -> Requests]
          /\ \A s \in Threads : req'[s].url = req[s].url /\ (s # t => req'[s] = req[s])
      BY <3>4, <3>6, TypeRead
    <3>5. req'[t].id \in Nat
      BY <3>1, <3>2 DEF TypeOK, Requests
    <3> QED
      BY <1>3, <2>0, <3>1, <3>3, <3>5, <3>7
      DEF PutCount, Goto, TypeOK, UrlsNamed, IdsKnown, db, Labels
  <2> QED BY <2>1, <2>2
<1>4. CASE PutStage(t)
  <2> DEFINE h == IF handle[req[t].url] = Absent THEN Null ELSE handle[req[t].url]
  <2>0. req[t].url \in Urls /\ req[t].id \in Nat
    BY <1>4 DEF PutStage, UrlsNamed, IdsKnown
  <2>1. h \in Handles
    BY <2>0 DEF TypeOK, Handles
  <2>2. handle' \in [Urls -> Handles]
    BY <1>4, <2>1 DEF PutStage, TypeOK
  <2>3. req' = [req EXCEPT ![t].hdl = h]
    BY <1>4 DEF PutStage
  <2> HIDE DEF h
  <2>4. /\ req' \in [Threads -> Requests]
        /\ \A s \in Threads : /\ req'[s].url = req[s].url
                              /\ req'[s].id \in {req[s].id, req[t].id}
                              /\ s # t => req'[s] = req[s]
    BY <2>0, <2>1, <2>3, TypeField DEF Ids
  <2> QED
    BY <1>4, <2>0, <2>2, <2>4 DEF PutStage, Goto, TypeOK, UrlsNamed, IdsKnown, db, Labels
<1>5. CASE PutWrite(t)
  <2>0. req[t].url \in Urls /\ req[t].id \in Nat
    BY <1>5 DEF PutWrite, UrlsNamed, IdsKnown
  <2>1. CASE lock' = Released(t) /\ Answer(t, 200, NoId)
    BY <1>5, <2>1, TypeAnswer, TypeLocks DEF PutWrite, TypeOK, db, Ids
  <2>2. ASSUME NEW K \in SUBSET Ids, req' = [req EXCEPT ![t].keys = K],
               Goto(t, "put_commit"), UNCHANGED <<lock, reply>>
        PROVE  TypeInv'
    <3>1. /\ req' \in [Threads -> Requests]
          /\ \A s \in Threads : /\ req'[s].url = req[s].url
                                /\ req'[s].id \in {req[s].id, req[t].id}
                                /\ s # t => req'[s] = req[s]
      BY <2>0, <2>2, TypeKeys
    <3> QED
      BY <1>5, <2>0, <2>2, <3>1 DEF PutWrite, Goto, TypeOK, UrlsNamed, IdsKnown, db, Labels
  <2>3. {req[t].id} \in SUBSET Ids /\ {} \in SUBSET Ids
    BY <2>0 DEF Ids
  <2> QED BY <1>5, <2>1, <2>2, <2>3 DEF PutWrite
<1>6. CASE PutCommit(t)
  <2>1. req[t].url \in Urls /\ req[t].id \in Nat
    BY <1>6 DEF PutCommit, UrlsNamed, IdsKnown
  <2>2. \E counted : StoreObject(t, counted) \/ UNCHANGED db
    BY <1>6 DEF PutCommit
  <2>3. /\ counter' \in [Urls -> Ids]
        /\ rows' \in [Urls -> SUBSET [id : Ids, obj : Nat]]
        /\ objects' \in [Urls -> SUBSET [id : Ids, obj : Nat]]
        /\ stray' \in [Urls -> SUBSET Ids]
        /\ UNCHANGED <<descr, family, made>>
    BY <2>1, <2>2, TypeStore DEF db, TypeOK
  <2> QED
    BY <1>6, <2>3, TypeAnswer, TypeLocks DEF PutCommit, TypeOK, Ids
<1>7. CASE PutPlain(t)
  <2>1. /\ req[t].url \in Urls
        /\ [id |-> NoId, obj |-> req[t].obj] \in [id : Ids, obj : Nat]
    BY <1>7 DEF PutPlain, UrlsNamed, TypeOK, Requests, Ids
  <2>2. objects' \in [Urls -> SUBSET [id : Ids, obj : Nat]]
    BY <1>7, <2>1 DEF PutPlain, ObjectsWith, Stored, TypeOK
  <2> QED
    BY <1>7, <2>2, TypeAnswer DEF PutPlain, TypeOK, memory, Ids
<1> QED BY <1>1, <1>2, <1>3, <1>4, <1>5, <1>6, <1>7 DEF Put

\* The types after a step of add_endpoint.
LEMMA TypeAdd == ASSUME TypeInv, NEW t \in Threads, Add(t) PROVE TypeInv'
<1> USE DEF TypeInv
\* the three steps that put a value under a key differ in the key only
<1>1. ASSUME NEW k \in LockKeys, NEW w \in {"descriptor", "count", "counter"},
             NEW l \in Labels \ Writing, pc[t] # "idle",
             AddPut(t, k, w), Goto(t, l), UNCHANGED <<db, up, handle, leaked, calls, reply>>
      PROVE  TypeInv'
  <2>1. req[t].staged \cup {w} \in SUBSET {"descriptor", "count", "counter"}
    BY DEF TypeOK, Requests
  <2>2. /\ req' \in [Threads -> Requests]
        /\ \A s \in Threads : /\ req'[s].url = req[s].url
                              /\ req'[s].id \in {req[s].id, NoId}
                              /\ s # t => req'[s] = req[s]
    <3>1. CASE req' = [req EXCEPT ![t].staged = @ \cup {w}]
      <4>1. PICK g \in SUBSET {"descriptor", "count", "counter"} :
              req' = [req EXCEPT ![t].staged = g]
        BY <2>1, <3>1 DEF TypeOK
      <4>2. NoId \in Ids /\ Absent \in Handles
        BY DEF Ids, Handles
      <4> QED BY <4>1, <4>2, TypeField
    <3>2. CASE UNCHANGED req
      BY <3>2 DEF TypeOK
    <3> QED BY <1>1, <3>1, <3>2 DEF AddPut
  <2>3. lock' \in [LockKeys -> Threads \cup {Free, Orphan}]
    BY <1>1, TypeLocks DEF AddPut, TypeOK
  <2>4. \A s \in Threads :
          pc'[s] \in Writing => s # t /\ pc'[s] = pc[s]
    BY <1>1 DEF TypeOK, Goto
  <2> QED
    BY <1>1, <2>2, <2>3, <2>4 DEF Goto, TypeOK, UrlsNamed, IdsKnown, db
<1>2. CASE AddCreate(t)
  <2>1. req[t].url \in Urls
    BY <1>2 DEF AddCreate, UrlsNamed
  <2>2. PICK h \in Handles : req' = [req EXCEPT ![t].hdl = h]
    <3>1. made + 1 \in Handles /\ Null \in Handles
      BY DEF TypeOK, Handles
    <3>2. \/ req' = [req EXCEPT ![t].hdl = made + 1]
          \/ req' = [req EXCEPT ![t].hdl = Null]
      BY <1>2 DEF AddCreate
    <3> QED BY <3>1, <3>2
  <2>3. /\ req' \in [Threads -> Requests]
        /\ \A s \in Threads : req'[s].url = req[s].url /\ (s # t => req'[s] = req[s])
    BY <2>2, TypeField DEF Ids
  <2>4. made' \in Nat /\ family' \in [Urls -> Nat]
    <3>1. made \in Nat /\ family \in [Urls -> Nat]
      BY DEF TypeOK
    <3>2. \/ /\ made' = made + 1
             /\ family' = [family EXCEPT ![req[t].url] = made + 1]
          \/ UNCHANGED <<made, family>>
      BY <1>2 DEF AddCreate
    <3> QED BY <3>1, <3>2
  <2> QED
    BY <1>2, <2>1, <2>3, <2>4 DEF AddCreate, Goto, TypeOK, UrlsNamed, IdsKnown, memory, Labels
<1>3. CASE AddDescr(t)
  <2>1. pc[t] # "idle" /\ DescrKey(req[t].url) \in LockKeys
    BY <1>3, KeysDiffer DEF AddDescr, UrlsNamed
  <2> QED BY <1>1, <1>3, <2>1 DEF AddDescr, Labels
<1>4. CASE AddCount(t)
  <2>1. CountKey \in LockKeys
    BY DEF LockKeys
  <2> QED BY <1>1, <1>4, <2>1 DEF AddCount, Labels
<1>5. CASE AddInstall(t)
  BY <1>5 DEF AddInstall, Goto, TypeOK, UrlsNamed, IdsKnown, db, Labels, Requests
<1>6. CASE AddReset(t)
  <2>1. pc[t] # "idle" /\ CounterKey(req[t].url) \in LockKeys
    BY <1>6, KeysDiffer DEF AddReset, UrlsNamed
  <2> QED BY <1>1, <1>6, <2>1 DEF AddReset, Labels
<1>7. CASE AddCommit(t)
  <2>1. req[t].url \in Urls
    BY <1>7 DEF AddCommit, UrlsNamed
  <2>2. counter' \in [Urls -> Ids] /\ descr' \subseteq Urls
    BY <1>7, <2>1 DEF AddCommit, TypeOK, Ids
  <2>3. /\ lock' = Released(t)
        /\ Answer(t, 201, NoId)
        /\ UNCHANGED <<family, made, rows, objects, stray, up, handle, leaked, calls>>
    BY <1>7 DEF AddCommit
  <2> QED BY <2>2, <2>3, TypeAnswer, TypeLocks DEF TypeOK, Ids
<1> QED BY <1>2, <1>3, <1>4, <1>5, <1>6, <1>7 DEF Add

\* The types after a step of delete_endpoint.
LEMMA TypeDelete == ASSUME TypeInv, NEW t \in Threads, Delete(t) PROVE TypeInv'
<1> USE DEF TypeInv
<1>1. CASE DelCheck(t)
  <2>1. CASE IsEndpoint(req[t].url)
    BY <1>1, <2>1 DEF DelCheck, Goto, TypeOK, UrlsNamed, IdsKnown, db, memory, Labels
  <2>2. CASE ~IsEndpoint(req[t].url)
    BY <1>1, <2>2, TypeAnswer DEF DelCheck, TypeOK, db, memory, Ids
  <2> QED BY <2>1, <2>2
\* the two deletions of a key differ in the key only
<1>2. ASSUME NEW k \in LockKeys, NEW l \in {"del_descr", "del_commit"},
             pc[t] # "idle", DelKey(t, k, l)
      PROVE  TypeInv'
  <2>1. CASE Take(t, k) /\ Goto(t, l) /\ UNCHANGED <<leaked, req, reply>>
    <3>1. lock' \in [LockKeys -> Threads \cup {Free, Orphan}]
      BY <2>1, TypeLocks
    <3> QED
      BY <1>2, <2>1, <3>1 DEF DelKey, Goto, TypeOK, UrlsNamed, IdsKnown, db, Labels
  <2>2. CASE lock' = Abandoned(t) /\ leaked' = LeakedBy(t) /\ Answer(t, 500, NoId)
    <3>1. UNCHANGED <<db, up, handle, calls>>
      BY <1>2 DEF DelKey
    <3> QED BY <2>2, <3>1, TypeAnswer, TypeLocks DEF TypeOK, db, Ids
  <2> QED BY <1>2, <2>1, <2>2 DEF DelKey
<1>3. CASE DelCounter(t)
  <2>1. pc[t] # "idle" /\ CounterKey(req[t].url) \in LockKeys
    BY <1>3, KeysDiffer DEF DelCounter, UrlsNamed
  <2> QED BY <1>2, <1>3, <2>1 DEF DelCounter
<1>4. CASE DelDescr(t)
  <2>1. pc[t] # "idle" /\ DescrKey(req[t].url) \in LockKeys
    BY <1>4, KeysDiffer DEF DelDescr, UrlsNamed
  <2> QED BY <1>2, <1>4, <2>1 DEF DelDescr
<1>5. CASE DelCommit(t)
  <2>1. req[t].url \in Urls
    BY <1>5 DEF DelCommit, UrlsNamed
  <2>2. counter' \in [Urls -> Ids] /\ descr' \subseteq Urls /\ stray' \in [Urls -> SUBSET Ids]
    BY <1>5, <2>1 DEF DelCommit, Unregister, TypeOK, Ids
  <2>3. /\ req' \in [Threads -> Requests]
        /\ \A s \in Threads : req'[s].url = req[s].url /\ (s # t => req'[s] = req[s])
    <3>1. {} \in SUBSET Ids /\ req' = [req EXCEPT ![t].keys = {}]
      BY <1>5 DEF DelCommit
    <3> QED BY <3>1, TypeKeys
  <2> QED
    BY <1>5, <2>1, <2>2, <2>3, TypeLocks
    DEF DelCommit, Goto, TypeOK, UrlsNamed, IdsKnown, Labels
<1>6. CASE DelErase(t)
  <2>1. req[t].url \in Urls
    BY <1>6 DEF DelErase, UrlsNamed
  <2>2. PICK h \in Handles : req' = [req EXCEPT ![t].hdl = h]
    BY <1>6, <2>1 DEF DelErase, TypeOK, Handles
  <2>3. /\ req' \in [Threads -> Requests]
        /\ \A s \in Threads : req'[s].url = req[s].url /\ (s # t => req'[s] = req[s])
    BY <2>2, TypeField DEF Ids
  <2>4. handle' \in [Urls -> Handles]
    BY <1>6 DEF DelErase, Erased, TypeOK, Handles
  <2> QED
    BY <1>6, <2>1, <2>3, <2>4 DEF DelErase, Goto, TypeOK, UrlsNamed, IdsKnown, db, Labels
<1>7. CASE DelDrop(t)
  <2>1. CASE Halt("died")
    BY <2>1, TypeHalt
  <2>2. CASE ~Halt("died")
    <3>1. /\ UNCHANGED <<counter, descr, made, objects, stray, memory>>
          /\ \E s \in {200, 500} : Answer(t, s, NoId)
          /\ \/ UNCHANGED <<family, rows>>
             \/ /\ family' = [family EXCEPT ![req[t].url] = 0]
                /\ rows' = [rows EXCEPT ![req[t].url] = {}]
      BY <1>7, <2>2 DEF DelDrop
    <3>2. PICK s \in {200, 500} : Answer(t, s, NoId)
      BY <3>1
    <3>3. family' \in [Urls -> Nat]
      <4>1. family \in [Urls -> Nat]
        BY DEF TypeOK
      <4> QED BY <3>1, <4>1
    <3>4. rows' \in [Urls -> SUBSET [id : Ids, obj : Nat]]
      <4> DEFINE O == [id : Ids, obj : Nat]
      <4>1. rows \in [Urls -> SUBSET O]
        BY DEF TypeOK
      <4> HIDE DEF O
      <4>2. rows' \in [Urls -> SUBSET O]
        BY <3>1, <4>1
      <4> QED BY <4>2 DEF O
    <3> QED BY <3>1, <3>2, <3>3, <3>4, TypeAnswer DEF TypeOK, memory, Ids
  <2> QED BY <2>1, <2>2
<1>8. ASSUME NEW D \in SUBSET Ids, NEW K \in SUBSET Ids, NEW l \in {"del_objects"},
             \/ req' = [req EXCEPT ![t].todo = D]
             \/ req' = [req EXCEPT ![t].todo = D, ![t].keys = K],
             pc[t] # "idle", Goto(t, l), UNCHANGED <<db, memory, reply>>
      PROVE  TypeInv'
  <2>2. /\ req' \in [Threads -> Requests]
        /\ \A s \in Threads : req'[s].url = req[s].url /\ (s # t => req'[s] = req[s])
    BY <1>8, TypeKeys
  <2>3. /\ pc' \in [Threads -> Labels]
        /\ UrlsNamed' /\ IdsKnown'
    BY <1>8, <2>2 DEF Goto, TypeOK, UrlsNamed, IdsKnown, Labels
  <2> QED
    BY <1>8, <2>2, <2>3 DEF TypeOK, db, memory
<1>9. CASE DelList(t)
  <2>1. req[t].url \in Urls
    BY <1>9 DEF DelList, UrlsNamed
  <2>2. {} \in SUBSET Ids /\ IdsOf(rows[req[t].url]) \in SUBSET Ids
    BY <2>1 DEF IdsOf, TypeOK
  <2> QED BY <1>8, <1>9, <2>2 DEF DelList
<1>10. CASE DelObjects(t)
  <2>1. CASE Goto(t, "del_counter") /\ UNCHANGED req
    BY <1>10, <2>1 DEF DelObjects, Goto, TypeOK, UrlsNamed, IdsKnown, db, memory, Labels
  <2>2. ASSUME NEW i \in req[t].todo, NEW ok \in BOOLEAN,
               req' = [req EXCEPT ![t].todo = @ \ {i},
                                  ![t].keys = IF ok THEN @ \cup {i} ELSE @],
               UNCHANGED pc
        PROVE  TypeInv'
    <3> DEFINE D == req[t].todo \ {i}
               K == IF ok THEN req[t].keys \cup {i} ELSE req[t].keys
    <3>1. D \in SUBSET Ids /\ K \in SUBSET Ids
      BY <2>2 DEF TypeOK, Requests
    <3>2. req' = [req EXCEPT ![t].todo = D, ![t].keys = K]
      BY <2>2 DEF TypeOK
    <3>3. Goto(t, "del_objects") /\ pc[t] = "del_objects" /\ UNCHANGED <<db, memory, reply>>
      BY <1>10, <2>2 DEF DelObjects, Goto, TypeOK
    <3> HIDE DEF D, K
    <3> QED BY <1>8, <3>1, <3>2, <3>3
  <2>3. \A i : ObjectOutcomes(t, i) \subseteq BOOLEAN
    BY OutcomesAssumption DEF ObjectOutcomes
  <2> QED BY <1>10, <2>1, <2>2, <2>3 DEF DelObjects
<1> QED BY <1>1, <1>3, <1>4, <1>5, <1>6, <1>7, <1>9, <1>10 DEF Delete

\* The types after a step of get.
LEMMA TypeGet == ASSUME TypeInv, NEW t \in Threads, Get(t) PROVE TypeInv'
<1> USE DEF TypeInv
<1>1. ASSUME pc[t] # "idle", NEW l \in {"get_list", "get_check", "get_open"}, Goto(t, l),
             UNCHANGED <<db, memory, req, reply>>
      PROVE  TypeInv'
  BY <1>1 DEF Goto, TypeOK, UrlsNamed, IdsKnown, db, memory, Labels
<1>2. ASSUME NEW s \in {200, 404, 500}, Answer(t, s, NoId), UNCHANGED <<db, memory>>
      PROVE  TypeInv'
  BY <1>2, TypeAnswer DEF TypeOK, db, memory, Ids
<1>3. CASE GetRoute(t)
  BY <1>1, <1>3 DEF GetRoute
<1>4. CASE GetList(t)
  BY <1>2, <1>4 DEF GetList
<1>5. CASE GetCheck(t)
  BY <1>1, <1>2, <1>5 DEF GetCheck
<1>6. CASE GetOpen(t)
  BY <1>2, <1>6, TypeHalt DEF GetOpen
<1> QED BY <1>3, <1>4, <1>5, <1>6 DEF Get

\* The types after any step.
LEMMA TypeNext == ASSUME TypeInv, [Next]_vars PROVE TypeInv'
<1>1. CASE \E t \in Threads : Begin(t) \/ Step(t)
  BY <1>1, TypeBegin, TypePost, TypePut, TypeAdd, TypeDelete, TypeGet DEF Step
<1>2. CASE MapRace \/ Crash
  BY <1>2, TypeHalt DEF MapRace, Crash
<1>3. CASE Restart
  BY <1>3 DEF Restart, TypeInv, TypeOK, UrlsNamed, IdsKnown, db, Handles
<1>4. CASE UNCHANGED vars
  BY <1>4 DEF vars, db, memory, TypeInv, TypeOK, UrlsNamed, IdsKnown
<1> QED BY <1>1, <1>2, <1>3, <1>4 DEF Next

\* Every variable of the endpoint store keeps its type: in particular no post or put runs with
\* an id it did not read, and the counter of an endpoint is always a number.
THEOREM TypeCorrect == Spec => []TypeOK
<1>1. Spec => []TypeInv
  BY TypeInit, TypeNext, PTL DEF Spec
<1> QED BY <1>1, PTL DEF TypeInv

-----------------------------------------------------------------------------
(* The locks of put, add_endpoint and delete_endpoint *)

\* What a request may count on while its transaction is open: it owns the lock of the counter
\* it read, staged or deleted, the counter is what it read, and the locks it owns are those its
\* transaction has come to, in the order of its call.
Own(t) ==
    /\ pc[t] \in {"post_object", "put_stage", "put_write", "put_commit", "del_descr",
                  "del_commit"} =>
         lock[CounterKey(req[t].url)] = t
    /\ "counter" \in req[t].staged =>
         /\ pc[t] \in {"add_commit", "put_stage", "put_write", "put_commit"}
         /\ lock[CounterKey(req[t].url)] = t
    /\ pc[t] \in {"put_stage", "put_write", "put_commit"} => counter[req[t].url] = req[t].id
    /\ \A k \in LockKeys :
         lock[k] = t =>
           \/ /\ k = CounterKey(req[t].url)
              /\ pc[t] \in {"post_object", "put_stage", "put_write", "put_commit", "add_commit",
                            "del_descr", "del_commit"}
           \/ /\ k = DescrKey(req[t].url)
              /\ pc[t] \in {"add_count", "add_install", "add_reset", "add_commit", "del_commit"}
           \/ /\ k = CountKey
              /\ pc[t] \in {"add_install", "add_reset", "add_commit"}
    /\ req[t].keys # {} =>
         pc[t] \in {"put_commit", "del_objects", "del_counter", "del_descr", "del_commit"}
    \* a deletion locks the keys of its objects in their order
    /\ pc[t] = "del_objects" => \A i \in req[t].keys, j \in req[t].todo : i < j

LockInv == \A t \in Threads : Own(t)

\* What a step of s leaves alone: the other requests, the locks they own, and the counters
\* whose lock they own.
OthersKept(s) ==
    /\ \A t \in Threads \ {s} : pc'[t] = pc[t] /\ req'[t] = req[t]
    /\ \A k \in LockKeys : \/ lock'[k] = lock[k]
                           \/ lock[k] \in {Free, s} /\ lock'[k] \in {Free, s, Orphan}
    /\ \A u \in Urls : counter'[u] = counter[u] \/ lock[CounterKey(u)] \in {Free, s}

\* No lock is owned at the start.
LEMMA LockInit == Init => LockInv
BY ThreadsAssumption DEF Init, LockInv, Own, NoReq

\* With that, the others can count on what they could count on before.
LEMMA OthersOwn ==
    ASSUME TypeInv, LockInv, NEW s \in Threads, OthersKept(s), NEW t \in Threads \ {s}
    PROVE  Own(t)'
<1>1. pc'[t] = pc[t] /\ req'[t] = req[t] /\ Own(t)
  BY DEF OthersKept, LockInv
<1>2. t # Free /\ t # Orphan /\ t # s
  BY ThreadsAssumption
<1>3. \A k \in LockKeys : lock'[k] = t <=> lock[k] = t
  BY <1>2 DEF OthersKept
<1>4. req[t].url \in Urls => CounterKey(req[t].url) \in LockKeys
  BY KeysDiffer
<1>5. pc[t] # "idle" => req[t].url \in Urls
  BY DEF TypeInv, UrlsNamed
<1>6. pc[t] \in {"put_stage", "put_write", "put_commit"} => counter'[req[t].url] = counter[req[t].url]
  BY <1>1, <1>2, <1>5 DEF OthersKept, Own
<1> QED BY <1>1, <1>3, <1>4, <1>5, <1>6 DEF Own

\* An answer of s with its locks released, or none owned, leaves it nothing to count on.
LEMMA AnswerOwn ==
    ASSUME TypeInv, NEW s \in Threads, NEW st, NEW i, Answer(s, st, i),
           \A k \in LockKeys : lock'[k] # s
    PROVE  Own(s)'
BY DEF TypeInv, TypeOK, Answer, NoReq, Own

\* A transaction that ends, or is abandoned, owns nothing afterwards and takes nothing from others.
LEMMA LocksLeft ==
    ASSUME NEW s \in Threads
    PROVE  /\ \A k \in LockKeys : Released(s)[k] # s /\ Abandoned(s)[k] # s
           /\ \A k \in LockKeys : \/ Released(s)[k] = lock[k]
                                  \/ lock[k] = s /\ Released(s)[k] = Free
           /\ \A k \in LockKeys : \/ Abandoned(s)[k] = lock[k]
                                  \/ lock[k] = s /\ Abandoned(s)[k] = Orphan
BY ThreadsAssumption DEF Released, Abandoned

\* Storing the object of a request that may lock the counter touches that counter only.
LEMMA StoreKept ==
    ASSUME TypeInv, NEW s \in Threads, req[s].url \in Urls,
           \/ UNCHANGED db
           \/ /\ \E counted : StoreObject(s, counted)
              /\ lock[CounterKey(req[s].url)] \in {Free, s}
    PROVE  \A u \in Urls : counter'[u] = counter[u] \/ lock[CounterKey(u)] \in {Free, s}
BY DEF StoreObject, db, TypeInv, TypeOK

\* post: its batch writes under locks it could take, and keeps none.
LEMMA LockPost ==
    ASSUME TypeInv, LockInv, NEW s \in Threads, Post(s)
    PROVE  OthersKept(s) /\ Own(s)'
<1> USE DEF TypeInv
<1>0. Own(s)
  BY DEF LockInv
<1>1. CASE PostCan(s)
  BY <1>0, <1>1 DEF PostCan, Goto, Answer, NoReq, OthersKept, Own, TypeOK, db, memory
<1>2. CASE PostNextId(s)
  BY <1>0, <1>2 DEF PostNextId, Goto, OthersKept, Own, TypeOK, Requests, db, memory
<1>3. CASE PostBatch(s)
  <2>1. \A k \in LockKeys : lock[k] # s
    BY <1>0, <1>3 DEF PostBatch, Own
  <2>2. UNCHANGED <<counter, lock>>
    BY <1>3 DEF PostBatch, db, memory
  <2>3. CASE Answer(s, 400, NoId)
    BY <2>1, <2>2, <2>3, AnswerOwn DEF Answer, OthersKept, TypeOK
  <2>4. CASE /\ req' = [req EXCEPT ![s].hdl = handle[req[s].url]]
             /\ Goto(s, "post_write")
    <3>1. /\ pc'[s] = "post_write" /\ req'[s].staged = req[s].staged
          /\ req'[s].keys = req[s].keys
      BY <2>4 DEF Goto, TypeOK, Requests
    <3>2. "counter" \notin req[s].staged /\ req[s].keys = {}
      BY <1>0, <1>3 DEF PostBatch, Own
    <3>3. OthersKept(s)
      BY <2>2, <2>4 DEF Goto, OthersKept, TypeOK
    <3> QED BY <2>1, <2>2, <3>1, <3>2, <3>3 DEF Own
  <2> QED BY <1>3, <2>3, <2>4 DEF PostBatch
<1>4. CASE PostWrite(s)
  <2>1. req[s].url \in Urls /\ \A k \in LockKeys : lock[k] # s
    BY <1>0, <1>4 DEF PostWrite, UrlsNamed, Own
  <2>2. CASE /\ \/ UNCHANGED db
                \/ StoreObject(s, TRUE) /\ lock[CounterKey(req[s].url)] \in {Free, s}
             /\ Answer(s, 201, req[s].id)
             /\ UNCHANGED lock
    <3>1. \A u \in Urls : counter'[u] = counter[u] \/ lock[CounterKey(u)] \in {Free, s}
      BY <2>1, <2>2, StoreKept
    <3>2. OthersKept(s)
      BY <2>2, <3>1 DEF OthersKept, Answer, TypeOK
    <3> QED BY <2>1, <2>2, <3>2, AnswerOwn
  <2>3. CASE /\ lock[CounterKey(req[s].url)] \in {Free, s}
             /\ Take(s, CounterKey(req[s].url))
             /\ Goto(s, "post_object")
             /\ UNCHANGED <<db, req, reply>>
    <3> DEFINE k == CounterKey(req[s].url)
    <3>1. k \in LockKeys
      BY <2>1, KeysDiffer
    <3>2. /\ lock'[k] = s /\ \A j \in LockKeys \ {k} : lock'[j] = lock[j]
          /\ pc'[s] = "post_object" /\ \A t \in Threads \ {s} : pc'[t] = pc[t]
      BY <2>3, <3>1 DEF Take, Goto, TypeOK
    <3>3. OthersKept(s)
      BY <2>3, <3>2 DEF OthersKept, db
    <3>4. "counter" \notin req[s].staged /\ req[s].keys = {}
      BY <1>0, <1>4 DEF PostWrite, Own
    <3> HIDE DEF k
    <3>5. \A j \in LockKeys : lock'[j] = s => j = k
      BY <2>1, <3>2
    <3> QED BY <2>3, <3>2, <3>3, <3>4, <3>5 DEF Own, k
  <2> QED BY <1>4, <2>2, <2>3 DEF PostWrite, LockOutcomes
<1>5. CASE PostObject(s)
  <2>1. req[s].url \in Urls /\ lock[CounterKey(req[s].url)] = s
    BY <1>0, <1>5 DEF PostObject, UrlsNamed, Own
  <2>2. \A u \in Urls : counter'[u] = counter[u] \/ lock[CounterKey(u)] \in {Free, s}
    BY <1>5, <2>1, StoreKept DEF PostObject
  <2>3. Answer(s, 201, req[s].id) /\ lock' = Released(s)
    BY <1>5 DEF PostObject
  <2>4. OthersKept(s)
    BY <2>2, <2>3, LocksLeft DEF OthersKept, Answer, TypeOK
  <2> QED BY <2>3, <2>4, AnswerOwn, LocksLeft
<1> QED BY <1>1, <1>2, <1>3, <1>4, <1>5 DEF Post

\* put: the lock of the counter is owned from the read to the commit.
LEMMA LockPut ==
    ASSUME TypeInv, LockInv, NEW s \in Threads, Put(s), ~Halt("died")
    PROVE  OthersKept(s) /\ Own(s)'
<1> USE DEF TypeInv
<1>0. Own(s)
  BY DEF LockInv
<1>1. CASE PutExists(s)
  BY <1>0, <1>1 DEF PutExists, Goto, Answer, NoReq, OthersKept, Own, TypeOK, db, memory
<1>2. CASE PutCheck(s)
  BY <1>0, <1>2 DEF PutCheck, Goto, OthersKept, Own, TypeOK, db, memory
<1>3. CASE PutCount(s)
  <2> DEFINE k == CounterKey(req[s].url)
  <2>1. req[s].url \in Urls /\ k \in LockKeys
    BY <1>3, KeysDiffer DEF PutCount, UrlsNamed
  <2>2. /\ lock[k] \in {Free, s}
        /\ lock' = [lock EXCEPT ![k] = s]
        /\ \E g : req' = [req EXCEPT ![s].id = counter[req[s].url], ![s].staged = g]
        /\ Goto(s, "put_stage")
        /\ UNCHANGED counter
    BY <1>3 DEF PutCount, LockOutcomes, Take, db
  <2>3. /\ req'[s].url = req[s].url /\ req'[s].id = counter[req[s].url]
        /\ req'[s].keys = req[s].keys
    BY <2>2 DEF TypeOK, Requests
  <2>4. OthersKept(s)
    BY <2>1, <2>2 DEF OthersKept, Goto, TypeOK
  <2>5. pc[s] = "put_count"
    BY <1>3 DEF PutCount
  <2>6. \A l \in LockKeys : lock'[l] = s => l = k
    BY <1>0, <2>1, <2>2, <2>5 DEF Own, TypeOK
  <2>7. lock'[k] = s /\ pc'[s] = "put_stage"
    BY <2>1, <2>2 DEF TypeOK, Goto
  <2>8. req[s].keys = {}
    BY <1>0, <2>5 DEF Own
  <2> QED BY <2>2, <2>3, <2>4, <2>6, <2>7, <2>8 DEF Own
<1>4. CASE PutStage(s)
  <2>1. req[s].url \in Urls /\ UNCHANGED <<counter, lock>> /\ pc[s] = "put_stage"
    BY <1>4 DEF PutStage, UrlsNamed, db
  <2>2. /\ \E h : req' = [req EXCEPT ![s].hdl = h]
        /\ Goto(s, "put_write")
    BY <1>4 DEF PutStage
  <2> QED BY <1>0, <2>1, <2>2 DEF Goto, OthersKept, Own, TypeOK, Requests
<1>5. CASE PutWrite(s)
  <2>1. req[s].url \in Urls /\ UNCHANGED counter /\ pc[s] = "put_write"
    BY <1>5 DEF PutWrite, UrlsNamed, db
  <2>2. CASE lock' = Released(s) /\ Answer(s, 200, NoId)
    <3>1. OthersKept(s)
      BY <2>1, <2>2, LocksLeft DEF OthersKept, Answer, TypeOK
    <3>2. Own(s)'
      BY <2>2, AnswerOwn, LocksLeft
    <3> QED BY <3>1, <3>2
  <2>3. CASE /\ \E K : req' = [req EXCEPT ![s].keys = K]
             /\ Goto(s, "put_commit")
             /\ UNCHANGED lock
    BY <1>0, <2>1, <2>3 DEF Goto, OthersKept, Own, TypeOK, Requests
  <2> QED BY <1>5, <2>2, <2>3 DEF PutWrite
<1>6. CASE PutCommit(s)
  <2>1. req[s].url \in Urls /\ lock[CounterKey(req[s].url)] = s
    BY <1>0, <1>6 DEF PutCommit, UrlsNamed, Own
  <2>2. UNCHANGED db \/ \E counted : StoreObject(s, counted)
    BY <1>6 DEF PutCommit
  <2>3. Answer(s, 200, NoId) /\ lock' = Released(s)
    BY <1>6 DEF PutCommit
  <2>4. OthersKept(s)
    BY <2>1, <2>2, <2>3, StoreKept, LocksLeft DEF OthersKept, Answer, TypeOK
  <2> QED BY <2>3, <2>4, AnswerOwn, LocksLeft
<1>7. CASE PutPlain(s)
  BY <1>0, <1>7 DEF PutPlain, Answer, NoReq, OthersKept, Own, TypeOK, memory
<1> QED BY <1>1, <1>2, <1>3, <1>4, <1>5, <1>6, <1>7 DEF Put

\* add_endpoint: it goes on without the locks it did not get, and resets a counter it owns.
LEMMA LockAdd ==
    ASSUME TypeInv, LockInv, NEW s \in Threads, Add(s)
    PROVE  OthersKept(s) /\ Own(s)'
<1> USE DEF TypeInv
<1>0. Own(s)
  BY DEF LockInv
\* the three steps that put a value under a key; "counter" goes with the counter's key only
<1>1. ASSUME NEW k \in LockKeys, NEW w \in {"descriptor", "count", "counter"},
             NEW l \in {"add_count", "add_install", "add_commit"},
             \/ pc[s] = "add_descr" /\ k = DescrKey(req[s].url) /\ w = "descriptor"
                                    /\ l = "add_count"
             \/ pc[s] = "add_count" /\ k = CountKey /\ w = "count" /\ l = "add_install"
             \/ pc[s] = "add_reset" /\ k = CounterKey(req[s].url) /\ w = "counter"
                                    /\ l = "add_commit",
             AddPut(s, k, w), Goto(s, l), UNCHANGED counter
      PROVE  OthersKept(s) /\ Own(s)'
  <2>1. pc'[s] = l /\ \A t \in Threads \ {s} : pc'[t] = pc[t]
    BY <1>1 DEF Goto, TypeOK
  <2>2. "counter" \notin req[s].staged /\ req[s].keys = {}
    BY <1>0, <1>1 DEF Own
  <2>3. CASE UNCHANGED <<lock, req>>
    BY <1>0, <1>1, <2>1, <2>2, <2>3 DEF OthersKept, Own
  <2>4. CASE /\ lock[k] \in {Free, s}
             /\ Take(s, k)
             /\ req' = [req EXCEPT ![s].staged = @ \cup {w}]
    <3>1. /\ req'[s].url = req[s].url
          /\ req'[s].staged = req[s].staged \cup {w}
          /\ req'[s].keys = req[s].keys
          /\ \A t \in Threads \ {s} : req'[t] = req[t]
      BY <2>4 DEF TypeOK, Requests
    <3>2. lock'[k] = s /\ \A j \in LockKeys \ {k} : lock'[j] = lock[j]
      BY <2>4 DEF Take, TypeOK
    <3>3. OthersKept(s)
      BY <1>1, <2>1, <2>4, <3>1, <3>2 DEF OthersKept
    <3> QED BY <1>0, <1>1, <2>1, <2>2, <3>1, <3>2, <3>3 DEF Own
  <2> QED BY <1>1, <2>3, <2>4 DEF AddPut, LockOutcomes
<1>2. ASSUME pc[s] # "idle"
      PROVE  /\ CounterKey(req[s].url) # DescrKey(req[s].url)
             /\ CounterKey(req[s].url) # CountKey
             /\ {CounterKey(req[s].url), DescrKey(req[s].url), CountKey} \subseteq LockKeys
  BY <1>2, KeysDiffer DEF UrlsNamed
<1>3. CASE AddCreate(s)
  BY <1>0, <1>3 DEF AddCreate, Goto, OthersKept, Own, TypeOK, Requests, memory
<1>4. CASE AddDescr(s)
  <2>1. pc[s] = "add_descr" /\ UNCHANGED counter
    BY <1>4 DEF AddDescr, db
  <2> QED BY <1>1, <1>2, <1>4, <2>1 DEF AddDescr
<1>5. CASE AddCount(s)
  <2>1. pc[s] = "add_count" /\ UNCHANGED counter
    BY <1>5 DEF AddCount, db
  <2> QED BY <1>1, <1>2, <1>5, <2>1 DEF AddCount
<1>6. CASE AddInstall(s)
  BY <1>0, <1>6 DEF AddInstall, Goto, OthersKept, Own, TypeOK, db
<1>7. CASE AddReset(s)
  <2>1. pc[s] = "add_reset" /\ UNCHANGED counter
    BY <1>7 DEF AddReset, db
  <2> QED BY <1>1, <1>2, <1>7, <2>1 DEF AddReset
<1>8. CASE AddCommit(s)
  <2>1. req[s].url \in Urls
    BY <1>8 DEF AddCommit, UrlsNamed
  <2>2. \A u \in Urls : counter'[u] = counter[u] \/ lock[CounterKey(u)] \in {Free, s}
    BY <1>0, <1>8, <2>1 DEF AddCommit, Own, TypeOK
  <2>3. Answer(s, 201, NoId) /\ lock' = Released(s)
    BY <1>8 DEF AddCommit
  <2>4. OthersKept(s)
    BY <2>2, <2>3, LocksLeft DEF OthersKept, Answer, TypeOK
  <2> QED BY <2>3, <2>4, AnswerOwn, LocksLeft
<1> QED BY <1>3, <1>4, <1>5, <1>6, <1>7, <1>8 DEF Add

\* delete_endpoint: the counter is locked before it is removed.
LEMMA LockDelete ==
    ASSUME TypeInv, LockInv, NEW s \in Threads, Delete(s), ~Halt("died")
    PROVE  OthersKept(s) /\ Own(s)'
<1> USE DEF TypeInv
<1>0. Own(s)
  BY DEF LockInv
\* the two deletions of a key
<1>1. ASSUME NEW k \in LockKeys, NEW l \in {"del_descr", "del_commit"},
             \/ pc[s] = "del_counter" /\ k = CounterKey(req[s].url) /\ l = "del_descr"
             \/ pc[s] = "del_descr" /\ k = DescrKey(req[s].url) /\ l = "del_commit",
             DelKey(s, k, l)
      PROVE  OthersKept(s) /\ Own(s)'
  <2>1. UNCHANGED counter
    BY <1>1 DEF DelKey, db
  <2>2. CASE lock' = Abandoned(s) /\ Answer(s, 500, NoId)
    <3>1. OthersKept(s)
      BY <2>1, <2>2, LocksLeft DEF OthersKept, Answer, TypeOK
    <3>2. \A j \in LockKeys : lock'[j] # s
      BY <2>2, LocksLeft
    <3> QED BY <2>2, <3>1, <3>2, AnswerOwn
  <2>3. CASE /\ lock[k] \in {Free, s}
             /\ Take(s, k)
             /\ Goto(s, l)
             /\ UNCHANGED req
    <3>1. pc'[s] = l /\ \A t \in Threads \ {s} : pc'[t] = pc[t]
      BY <2>3 DEF Goto, TypeOK
    <3>2. lock'[k] = s /\ \A j \in LockKeys \ {k} : lock'[j] = lock[j]
      BY <2>3 DEF Take, TypeOK
    <3>3. OthersKept(s)
      BY <2>1, <2>3, <3>1, <3>2 DEF OthersKept
    <3>4. CounterKey(req[s].url) \in LockKeys
      BY <1>1, KeysDiffer DEF UrlsNamed
    <3>5. "counter" \notin req[s].staged
      BY <1>0, <1>1 DEF Own
    <3> QED BY <1>0, <1>1, <2>3, <3>1, <3>2, <3>3, <3>4, <3>5 DEF Own
  <2> QED BY <1>1, <2>2, <2>3 DEF DelKey, LockOutcomes
<1>2. ASSUME pc[s] # "idle"
      PROVE  /\ CounterKey(req[s].url) # DescrKey(req[s].url)
             /\ {CounterKey(req[s].url), DescrKey(req[s].url)} \subseteq LockKeys
  BY <1>2, KeysDiffer DEF UrlsNamed
<1>3. CASE DelCheck(s)
  BY <1>0, <1>3 DEF DelCheck, Goto, Answer, NoReq, OthersKept, Own, TypeOK, db, memory
<1>4. CASE DelCounter(s)
  <2>1. pc[s] = "del_counter"
    BY <1>4 DEF DelCounter
  <2> QED BY <1>1, <1>2, <1>4, <2>1 DEF DelCounter
<1>5. CASE DelDescr(s)
  <2>1. pc[s] = "del_descr"
    BY <1>5 DEF DelDescr
  <2> QED BY <1>1, <1>2, <1>5, <2>1 DEF DelDescr
<1>6. CASE DelCommit(s)
  <2>1. req[s].url \in Urls /\ pc[s] = "del_commit" /\ lock[CounterKey(req[s].url)] = s
    BY <1>0, <1>6 DEF DelCommit, UrlsNamed, Own
  <2>2. \A u \in Urls : counter'[u] = counter[u] \/ lock[CounterKey(u)] \in {Free, s}
    BY <1>6, <2>1 DEF DelCommit, Unregister, TypeOK
  <2>3. /\ lock' = Released(s) /\ Goto(s, "del_erase")
        /\ req' = [req EXCEPT ![s].keys = {}]
    BY <1>6 DEF DelCommit
  <2>4. OthersKept(s)
    BY <2>2, <2>3, LocksLeft DEF OthersKept, Goto, TypeOK
  <2>5. pc'[s] = "del_erase" /\ req'[s].keys = {} /\ req'[s].staged = req[s].staged
    BY <2>3 DEF Goto, TypeOK, Requests
  <2> QED BY <1>0, <2>1, <2>3, <2>4, <2>5, LocksLeft DEF Own
<1>7. CASE DelErase(s)
  BY <1>0, <1>7 DEF DelErase, Goto, OthersKept, Own, TypeOK, Requests, db
<1>8. CASE DelDrop(s)
  <2>1. PICK st \in {200, 500} : Answer(s, st, NoId)
    BY <1>8 DEF DelDrop
  <2>2. UNCHANGED <<counter, lock>> /\ pc[s] = "del_drop"
    BY <1>8 DEF DelDrop, memory
  <2>3. \A k \in LockKeys : lock'[k] # s
    BY <1>0, <2>2 DEF Own
  <2>4. OthersKept(s)
    BY <2>1, <2>2 DEF OthersKept, Answer, TypeOK
  <2> QED BY <2>1, <2>3, <2>4, AnswerOwn
<1>9. CASE DelList(s)
  <2>1. pc[s] = "del_list" /\ UNCHANGED <<counter, lock>>
    BY <1>9 DEF DelList, db, memory
  <2>2. (\E D : req' = [req EXCEPT ![s].todo = D]) /\ Goto(s, "del_objects")
    BY <1>9 DEF DelList
  <2> QED BY <1>0, <2>1, <2>2 DEF Goto, OthersKept, Own, TypeOK, Requests
<1>10. CASE DelObjects(s)
  <2>1. pc[s] = "del_objects" /\ UNCHANGED <<counter, lock>>
    BY <1>10 DEF DelObjects, db, memory
  <2>2. CASE Goto(s, "del_counter") /\ UNCHANGED req
    BY <1>0, <2>1, <2>2 DEF Goto, OthersKept, Own, TypeOK
  <2>3. ASSUME NEW i \in req[s].todo, First(s, i), NEW ok,
               req' = [req EXCEPT ![s].todo = @ \ {i},
                                  ![s].keys = IF ok THEN @ \cup {i} ELSE @],
               UNCHANGED pc
        PROVE  OthersKept(s) /\ Own(s)'
    <3>1. /\ req'[s].todo = req[s].todo \ {i}
          /\ req'[s].keys \subseteq req[s].keys \cup {i}
          /\ req'[s].staged = req[s].staged /\ req'[s].url = req[s].url
          /\ \A t \in Threads \ {s} : req'[t] = req[t]
      BY <2>3 DEF TypeOK, Requests
    <3>2. OthersKept(s)
      BY <2>1, <2>3, <3>1 DEF OthersKept
    <3>3. ASSUME NEW k \in req'[s].keys, NEW j \in req'[s].todo PROVE k < j
      <4>1. j \in req[s].todo /\ j # i /\ i <= j /\ i \in Int /\ j \in Int
        BY <2>3, <3>1 DEF First, TypeOK, Requests, Ids
      <4>2. k = i \/ k \in req[s].keys
        BY <3>1
      <4> QED BY <1>0, <2>1, <4>1, <4>2 DEF Own
    <3> QED BY <1>0, <2>1, <2>3, <3>1, <3>2, <3>3 DEF Own
  <2> QED BY <1>10, <2>2, <2>3 DEF DelObjects
<1> QED BY <1>3, <1>4, <1>5, <1>6, <1>7, <1>8, <1>9, <1>10 DEF Delete

\* get owns no lock.
LEMMA LockGet ==
    ASSUME TypeInv, LockInv, NEW s \in Threads, Get(s), ~Halt("died")
    PROVE  OthersKept(s) /\ Own(s)'
<1>0. Own(s)
  BY DEF LockInv
<1>1. /\ pc[s] \in {"get_route", "get_list", "get_check", "get_open"}
      /\ UNCHANGED <<counter, lock>>
  BY DEF Get, GetRoute, GetList, GetCheck, GetOpen, db, memory
<1>2. ASSUME NEW l \in {"get_list", "get_check", "get_open"}, Goto(s, l), UNCHANGED req
      PROVE  OthersKept(s) /\ Own(s)'
  BY <1>0, <1>1, <1>2 DEF Goto, OthersKept, Own, TypeInv, TypeOK
<1>3. ASSUME NEW st \in {200, 404, 500}, Answer(s, st, NoId)
      PROVE  OthersKept(s) /\ Own(s)'
  <2>1. OthersKept(s)
    BY <1>1, <1>3 DEF Answer, OthersKept, TypeInv, TypeOK
  <2>2. \A k \in LockKeys : lock'[k] # s
    BY <1>0, <1>1 DEF Own
  <2> QED BY <1>3, <2>1, <2>2, AnswerOwn
<1>4. CASE GetRoute(s)
  BY <1>2, <1>4 DEF GetRoute
<1>5. CASE GetList(s)
  BY <1>3, <1>5 DEF GetList
<1>6. CASE GetCheck(s)
  BY <1>2, <1>3, <1>6 DEF GetCheck
<1>7. CASE GetOpen(s)
  BY <1>3, <1>7 DEF GetOpen
<1> QED BY <1>4, <1>5, <1>6, <1>7 DEF Get

\* A request that begins a call owns no lock.
LEMMA LockBegin ==
    ASSUME TypeInv, LockInv, NEW s \in Threads, Begin(s)
    PROVE  OthersKept(s) /\ Own(s)'
<1> USE DEF TypeInv
<1>1. PICK o \in Ops, u \in Urls :
         /\ Goto(s, Entry[o])
         /\ req' = [req EXCEPT ![s] = [NoReq EXCEPT !.url = u, !.obj = calls + 1]]
  BY DEF Begin
<1>2. Entry[o] \in {"post_can", "put_exists", "add_create", "del_check", "get_route"}
  BY WorkloadAssumption DEF Entry, AllOps
<1>3. pc'[s] = Entry[o] /\ req'[s].staged = {} /\ req'[s].keys = {}
  BY <1>1 DEF Goto, TypeOK, NoReq
<1>4. UNCHANGED <<counter, lock>> /\ \A k \in LockKeys : lock[k] # s
  BY DEF Begin, db, LockInv, Own
<1>5. OthersKept(s)
  BY <1>1, <1>4 DEF OthersKept, Goto, TypeOK
<1> QED BY <1>2, <1>3, <1>4, <1>5 DEF Own

\* Each request owns what its place says, after any step.
LEMMA LockNext == ASSUME TypeInv, LockInv, [Next]_vars PROVE LockInv'
<1>1. ASSUME NEW why \in {"died", "crashed"}, Halt(why) PROVE LockInv'
  BY <1>1, ThreadsAssumption DEF Halt, NoReq, LockInv, Own
<1>2. ASSUME NEW s \in Threads, Begin(s) \/ Step(s), ~Halt("died") PROVE LockInv'
  <2>1. OthersKept(s) /\ Own(s)'
    BY <1>2, LockBegin, LockPost, LockPut, LockAdd, LockDelete, LockGet DEF Step
  <2>2. \A t \in Threads \ {s} : Own(t)'
    BY <2>1, OthersOwn
  <2> QED BY <2>1, <2>2 DEF LockInv
<1>3. CASE MapRace \/ Crash
  BY <1>1, <1>3 DEF MapRace, Crash
<1>4. CASE Restart
  BY <1>4 DEF Restart, LockInv, Own, db
<1>5. CASE UNCHANGED vars
  BY <1>5 DEF vars, db, memory, LockInv, Own
<1> QED BY <1>1, <1>2, <1>3, <1>4, <1>5 DEF Next

\* No two requests own the key of the same object, nor one that was left locked.
KeysApart == \A t \in Threads : \A i \in req[t].keys : ~ObjectTaken(t, i)

\* What a step of s does to the keys of objects: it takes one that nobody has, gives some back,
\* or leaves those it has locked; the others keep theirs.
KeysStep(s) ==
    /\ \A t \in Threads \ {s} : req'[t] = req[t]
    /\ \/ /\ UNCHANGED leaked
          /\ req'[s].keys = {}
       \/ /\ UNCHANGED leaked
          /\ req'[s].url = req[s].url
          /\ \A i \in req'[s].keys : i \in req[s].keys \/ ~ObjectTaken(s, i)
       \/ /\ leaked' = LeakedBy(s)
          /\ req'[s].keys = {}

\* Such a step keeps them apart.
LEMMA KeysKept ==
    ASSUME TypeInv, KeysApart, NEW s \in Threads, KeysStep(s)
    PROVE  KeysApart'
<1> SUFFICES ASSUME NEW t \in Threads, NEW i \in req'[t].keys PROVE ~ObjectTaken(t, i)'
  BY DEF KeysApart
<1>1. CASE t = s
  <2>1. /\ UNCHANGED leaked /\ req'[s].url = req[s].url
        /\ i \in req[s].keys \/ ~ObjectTaken(s, i)
    BY <1>1 DEF KeysStep
  <2>2. ~ObjectTaken(s, i)
    BY <1>1, <2>1 DEF KeysApart
  <2> QED BY <1>1, <2>1, <2>2 DEF KeysStep, ObjectTaken
<1>2. CASE t # s
  <2>1. req'[t] = req[t] /\ i \in req[t].keys /\ ~ObjectTaken(t, i)
    BY <1>2 DEF KeysStep, KeysApart
  <2>2. /\ i \notin leaked[req[t].url]
        /\ \A r \in Threads \ {t} : req[r].url = req[t].url => i \notin req[r].keys
    BY <2>1 DEF ObjectTaken
  <2>3. i \notin leaked'[req[t].url]
    <3>1. CASE UNCHANGED leaked
      BY <2>2, <3>1
    <3>2. CASE leaked' = LeakedBy(s)
      <4>1. req[s].url = req[t].url => i \notin req[s].keys
        BY <1>2, <2>2
      <4>2. \A u : leaked'[u] \subseteq leaked[u] \cup (IF u = req[s].url THEN req[s].keys ELSE {})
        BY <3>2 DEF LeakedBy
      <4> QED BY <2>2, <4>1, <4>2
    <3> QED BY <3>1, <3>2 DEF KeysStep
  <2>4. ~(req'[s].url = req[t].url /\ i \in req'[s].keys)
    BY <1>2, <2>1, <2>2 DEF KeysStep, ObjectTaken
  <2>5. \A r \in Threads \ {t} : req'[r].url = req[t].url => i \notin req'[r].keys
    BY <2>2, <2>4 DEF KeysStep
  <2> QED BY <2>1, <2>3, <2>5 DEF ObjectTaken
<1> QED BY <1>1, <1>2

\* The owners of objects' keys stay apart in every step.
LEMMA KeysNext == ASSUME TypeInv, LockInv, KeysApart, [Next]_vars PROVE KeysApart'
<1>1. ASSUME NEW why, Halt(why) PROVE KeysApart'
  BY <1>1 DEF Halt, NoReq, KeysApart
<1>2. ASSUME NEW s \in Threads, NEW st, NEW i, Answer(s, st, i),
             UNCHANGED leaked \/ leaked' = LeakedBy(s)
      PROVE  KeysApart'
  <2>1. KeysStep(s)
    BY <1>2 DEF Answer, NoReq, KeysStep, TypeInv, TypeOK
  <2> QED BY <2>1, KeysKept
<1>3. ASSUME NEW s \in Threads, UNCHANGED leaked, \A t \in Threads \ {s} : req'[t] = req[t],
             req'[s].keys = req[s].keys, req'[s].url = req[s].url
      PROVE  KeysApart'
  <2>1. KeysStep(s)
    BY <1>3 DEF KeysStep
  <2> QED BY <2>1, KeysKept
<1>4. ASSUME NEW s \in Threads, UNCHANGED leaked, UNCHANGED req PROVE KeysApart'
  BY <1>3, <1>4
<1>5. ASSUME NEW s \in Threads, Post(s) PROVE KeysApart'
  <2>1. CASE PostCan(s) \/ PostWrite(s) \/ PostObject(s)
    BY <1>2, <1>4, <2>1 DEF PostCan, PostWrite, PostObject, memory
  <2>2. CASE PostNextId(s)
    BY <1>3, <2>2 DEF PostNextId, memory, TypeInv, TypeOK, Requests
  <2>3. CASE PostBatch(s)
    <3>1. UNCHANGED leaked
      BY <2>3 DEF PostBatch, memory
    <3>2. CASE Answer(s, 400, NoId)
      BY <1>2, <3>1, <3>2
    <3>3. CASE req' = [req EXCEPT ![s].hdl = handle[req[s].url]]
      BY <1>3, <3>1, <3>3 DEF TypeInv, TypeOK, Requests
    <3> QED BY <2>3, <3>2, <3>3 DEF PostBatch
  <2> QED BY <1>5, <2>1, <2>2, <2>3 DEF Post
<1>6. ASSUME NEW s \in Threads, Put(s) PROVE KeysApart'
  <2>1. CASE PutExists(s) \/ PutCheck(s) \/ PutCommit(s) \/ PutPlain(s)
    BY <1>2, <1>4, <2>1 DEF PutExists, PutCheck, PutCommit, PutPlain, memory
  <2>2. CASE PutCount(s)
    <3>1. CASE Halt("died")
      BY <1>1, <3>1
    <3>2. CASE /\ UNCHANGED leaked
               /\ \E g : req' = [req EXCEPT ![s].id = counter[req[s].url], ![s].staged = g]
      BY <1>3, <3>2 DEF TypeInv, TypeOK, Requests
    <3> QED BY <2>2, <3>1, <3>2 DEF PutCount
  <2>3. CASE PutStage(s)
    <3>1. UNCHANGED leaked /\ \E h : req' = [req EXCEPT ![s].hdl = h]
      BY <2>3 DEF PutStage
    <3> QED BY <1>3, <3>1 DEF TypeInv, TypeOK, Requests
  <2>4. CASE PutWrite(s)
    <3>1. UNCHANGED leaked /\ (\A i : ObjectOutcomes(s, i) \subseteq BOOLEAN)
      BY <2>4, OutcomesAssumption DEF PutWrite, ObjectOutcomes
    <3>2. CASE Answer(s, 200, NoId)
      BY <1>2, <3>1, <3>2
    <3>3. ASSUME req' = [req EXCEPT ![s].keys = {}] PROVE KeysApart'
      <4>1. KeysStep(s)
        BY <3>1, <3>3 DEF KeysStep, TypeInv, TypeOK, Requests
      <4> QED BY <4>1, KeysKept
    <3>4. ASSUME NEW ok \in ObjectOutcomes(s, req[s].id), ok,
                 req' = [req EXCEPT ![s].keys = {req[s].id}]
          PROVE  KeysApart'
      <4>1. ~ObjectTaken(s, req[s].id)
        BY <3>4 DEF ObjectOutcomes
      <4>2. KeysStep(s)
        BY <3>1, <3>4, <4>1 DEF KeysStep, TypeInv, TypeOK, Requests
      <4> QED BY <4>2, KeysKept
    <3>5. CASE req[s].hdl = Null
      BY <2>4, <3>2, <3>4, <3>5 DEF PutWrite
    <3>6. CASE req[s].hdl # Null
      BY <2>4, <3>2, <3>3, <3>6 DEF PutWrite
    <3> QED BY <3>5, <3>6
  <2> QED BY <1>6, <2>1, <2>2, <2>3, <2>4 DEF Put
<1>7. ASSUME NEW s \in Threads, Add(s) PROVE KeysApart'
  <2>1. ASSUME UNCHANGED leaked, \E h : req' = [req EXCEPT ![s].hdl = h] PROVE KeysApart'
    BY <1>3, <2>1 DEF TypeInv, TypeOK, Requests
  <2>2. ASSUME UNCHANGED leaked, NEW k, NEW w, AddPut(s, k, w) PROVE KeysApart'
    <3>1. CASE UNCHANGED req
      BY <1>4, <2>2, <3>1
    <3>2. CASE req' = [req EXCEPT ![s].staged = @ \cup {w}]
      BY <1>3, <2>2, <3>2 DEF TypeInv, TypeOK, Requests
    <3> QED BY <2>2, <3>1, <3>2 DEF AddPut
  <2>3. CASE AddCreate(s)
    BY <2>1, <2>3 DEF AddCreate, memory
  <2>4. CASE AddDescr(s) \/ AddCount(s) \/ AddReset(s)
    BY <2>2, <2>4 DEF AddDescr, AddCount, AddReset
  <2>5. CASE AddInstall(s) \/ AddCommit(s)
    BY <1>2, <1>4, <2>5 DEF AddInstall, AddCommit
  <2> QED BY <1>7, <2>3, <2>4, <2>5 DEF Add
<1>8. ASSUME NEW s \in Threads, Delete(s) PROVE KeysApart'
  <2>1. CASE DelCheck(s) \/ DelCounter(s) \/ DelDescr(s)
    BY <1>2, <1>4, <2>1 DEF DelCheck, DelCounter, DelDescr, DelKey, memory
  <2>2. CASE DelList(s)
    <3>1. UNCHANGED leaked /\ \E D : req' = [req EXCEPT ![s].todo = D]
      BY <2>2 DEF DelList, memory
    <3> QED BY <1>3, <3>1 DEF TypeInv, TypeOK, Requests
  <2>3. CASE DelObjects(s)
    <3>1. UNCHANGED leaked
      BY <2>3 DEF DelObjects, memory
    <3>2. CASE UNCHANGED req
      BY <1>4, <3>1, <3>2
    <3>3. ASSUME NEW i, NEW ok \in ObjectOutcomes(s, i),
                 req' = [req EXCEPT ![s].todo = @ \ {i},
                                    ![s].keys = IF ok THEN @ \cup {i} ELSE @]
          PROVE  KeysApart'
      <4>1. ok => ~ObjectTaken(s, i)
        BY <3>3 DEF ObjectOutcomes
      <4>2. KeysStep(s)
        BY <3>1, <3>3, <4>1 DEF KeysStep, TypeInv, TypeOK, Requests
      <4> QED BY <4>2, KeysKept
    <3> QED BY <2>3, <3>2, <3>3 DEF DelObjects
  <2>4. CASE DelCommit(s)
    <3>1. UNCHANGED leaked /\ req' = [req EXCEPT ![s].keys = {}]
      BY <2>4 DEF DelCommit
    <3>2. KeysStep(s)
      BY <3>1 DEF KeysStep, TypeInv, TypeOK, Requests
    <3> QED BY <3>2, KeysKept
  <2>5. CASE DelErase(s)
    <3>1. UNCHANGED leaked /\ \E h : req' = [req EXCEPT ![s].hdl = h]
      BY <2>5 DEF DelErase
    <3> QED BY <1>3, <3>1 DEF TypeInv, TypeOK, Requests
  <2>6. CASE DelDrop(s)
    BY <1>1, <1>2, <2>6 DEF DelDrop, memory
  <2> QED BY <1>8, <2>1, <2>2, <2>3, <2>4, <2>5, <2>6 DEF Delete
<1>9. ASSUME NEW s \in Threads, Get(s) PROVE KeysApart'
  BY <1>1, <1>2, <1>4, <1>9 DEF Get, GetRoute, GetList, GetCheck, GetOpen, memory
<1>10. ASSUME NEW s \in Threads, Begin(s) PROVE KeysApart'
  <2>1. /\ UNCHANGED leaked
        /\ \E u, o : req' = [req EXCEPT ![s] = [NoReq EXCEPT !.url = u, !.obj = o]]
    BY <1>10 DEF Begin
  <2>2. KeysStep(s)
    BY <2>1 DEF NoReq, KeysStep, TypeInv, TypeOK
  <2> QED BY <2>2, KeysKept
<1>11. CASE MapRace \/ Crash
  BY <1>1, <1>11 DEF MapRace, Crash
<1>12. CASE Restart \/ UNCHANGED vars
  <2>1. UNCHANGED <<leaked, req>>
    BY <1>12 DEF Restart, vars, memory
  <2> QED BY <2>1 DEF KeysApart, ObjectTaken
<1> QED BY <1>5, <1>6, <1>7, <1>8, <1>9, <1>10, <1>11, <1>12 DEF Next, Step

\* The invariant of the locks.
LEMMA LocksHeld == Spec => [](TypeInv /\ LockInv /\ KeysApart)
<1>1. Init => KeysApart
  BY DEF Init, NoReq, KeysApart
<1> QED BY <1>1, TypeInit, TypeNext, LockInit, LockNext, KeysNext, PTL DEF Spec

\* Whatever overlaps with a put, the id it read is the committed counter until it commits.
THEOREM PutIdStable == Spec => []CounterStable
<1>1. LockInv => CounterStable
  BY DEF LockInv, Own, CounterStable
<1> QED BY <1>1, LocksHeld, PTL

\* A request owns key locks only inside the transaction that took them.
LEMMA LocksBelong == Spec => []OwnedInside
<1>1. LockInv /\ KeysApart => OwnedInside
  BY DEF LockInv, Own, KeysApart, OwnedInside
<1> QED BY <1>1, LocksHeld, PTL

\* A step orphans counters only: the one place that abandons a transaction with a lock is the
\* deletion of a descriptor.
LEMMA OrphansNext ==
    ASSUME TypeInv, LockInv, LeaksStayLocal, [Next]_vars
    PROVE  LeaksStayLocal'
<1>1. ASSUME \A k \in LockKeys : lock'[k] = Orphan => lock[k] = Orphan
      PROVE  LeaksStayLocal'
  BY <1>1 DEF LeaksStayLocal
<1>2. ASSUME NEW why, Halt(why) PROVE LeaksStayLocal'
  BY <1>1, <1>2, ThreadsAssumption DEF Halt
<1>3. ASSUME NEW s \in Threads, lock' = Released(s) PROVE LeaksStayLocal'
  BY <1>1, <1>3, ThreadsAssumption, LocksLeft
<1>4. ASSUME NEW s \in Threads, NEW k \in LockKeys, lock' = lock \/ Take(s, k)
      PROVE  LeaksStayLocal'
  BY <1>1, <1>4, ThreadsAssumption DEF Take, TypeInv, TypeOK
<1>5. ASSUME NEW s \in Threads, pc[s] \in {"del_counter", "del_descr"}, lock' = Abandoned(s)
      PROVE  LeaksStayLocal'
  <2>1. req[s].url \in Urls
    BY <1>5 DEF TypeInv, UrlsNamed
  <2>2. \A k \in LockKeys : lock[k] = s => k = CounterKey(req[s].url)
    BY <1>5 DEF LockInv, Own
  <2> QED BY <1>5, <2>1, <2>2, LocksLeft, ThreadsAssumption DEF LeaksStayLocal
<1>6. ASSUME NEW s \in Threads, pc[s] # "idle"
      PROVE  {CounterKey(req[s].url), DescrKey(req[s].url), CountKey} \subseteq LockKeys
  BY <1>6, KeysDiffer DEF TypeInv, UrlsNamed
<1>7. ASSUME NEW s \in Threads, Post(s) \/ Get(s) \/ Begin(s) PROVE LeaksStayLocal'
  <2>1. CASE PostWrite(s)
    BY <1>1, <1>4, <1>6, <2>1 DEF PostWrite
  <2>2. CASE PostObject(s)
    BY <1>3, <2>2 DEF PostObject
  <2> QED
    BY <1>1, <1>2, <1>7, <2>1, <2>2
    DEF Post, PostCan, PostNextId, PostBatch, Get, GetRoute, GetList, GetCheck, GetOpen, Begin, memory
<1>8. ASSUME NEW s \in Threads, Put(s) PROVE LeaksStayLocal'
  <2>1. CASE PutCount(s)
    BY <1>2, <1>4, <1>6, <2>1 DEF PutCount
  <2>2. CASE PutStage(s) \/ PutWrite(s) \/ PutCommit(s)
    BY <1>1, <1>3, <2>2 DEF PutStage, PutWrite, PutCommit
  <2> QED BY <1>1, <1>8, <2>1, <2>2 DEF Put, PutExists, PutCheck, PutPlain, memory
<1>9. ASSUME NEW s \in Threads, Add(s) PROVE LeaksStayLocal'
  <2>1. CASE AddDescr(s) \/ AddCount(s) \/ AddReset(s)
    BY <1>4, <1>6, <2>1 DEF AddDescr, AddCount, AddReset, AddPut
  <2>2. CASE AddCommit(s)
    BY <1>3, <2>2 DEF AddCommit
  <2> QED BY <1>1, <1>9, <2>1, <2>2 DEF Add, AddCreate, AddInstall, memory
<1>10. ASSUME NEW s \in Threads, Delete(s) PROVE LeaksStayLocal'
  <2>1. CASE DelCounter(s) \/ DelDescr(s)
    BY <1>4, <1>5, <1>6, <2>1 DEF DelCounter, DelDescr, DelKey
  <2>2. CASE DelCommit(s)
    BY <1>3, <2>2 DEF DelCommit
  <2>3. CASE DelCheck(s) \/ DelList(s) \/ DelObjects(s) \/ DelErase(s) \/ DelDrop(s)
    BY <1>1, <1>2, <2>3 DEF DelCheck, DelList, DelObjects, DelErase, DelDrop, memory
  <2> QED BY <1>10, <2>1, <2>2, <2>3 DEF Delete
<1>11. CASE MapRace \/ Crash
  BY <1>2, <1>11 DEF MapRace, Crash
<1>12. CASE Restart \/ UNCHANGED vars
  BY <1>1, <1>12 DEF Restart, vars, memory
<1> QED BY <1>7, <1>8, <1>9, <1>10, <1>11, <1>12 DEF Next, Step

\* A failed deletion keeps nobody from registering or deleting other urls.
LEMMA LeaksAreLocal == Spec => []LeaksStayLocal
<1>1. Init => LeaksStayLocal
  BY ThreadsAssumption DEF Init, LeaksStayLocal
<1> QED BY <1>1, OrphansNext, LocksHeld, PTL DEF Spec

\* What is locked is locked by a transaction in progress, or is the counter of a url whose
\* deletion failed.
THEOREM LocksAreOwned == Spec => []LocksOwned
BY LocksBelong, LeaksAreLocal, PTL DEF LocksOwned

\* A set of natural numbers has a least element.
LEMMA NatMin ==
    ASSUME NEW T \in SUBSET Nat, T # {}
    PROVE  \E x \in T : \A y \in T : x <= y
<1> DEFINE R == OpToRel(<, Nat)
<1>1. IsWellFoundedOn(R, Nat)
  BY NatLessThanWellFounded
<1>2. \A x, y \in Nat : x < y => <<x, y>> \in R
  BY DEF OpToRel
<1> HIDE DEF R
<1>3. \E x \in T : \A y \in T : <<y, x>> \notin R
  BY <1>1, WFMin
<1>4. PICK x \in T : \A y \in T : <<y, x>> \notin R
  BY <1>3
<1>5. ASSUME NEW y \in T PROVE x <= y
  <2>1. x \in Nat /\ y \in Nat /\ <<y, x>> \notin R
    BY <1>4, <1>5
  <2>2. ~(y < x)
    BY <1>2, <2>1
  <2> QED BY <2>1, <2>2
<1> QED BY <1>5

\* A finite set of integers has a greatest element.
LEMMA FiniteMax ==
    ASSUME NEW T \in SUBSET Int, T # {}, IsFiniteSet(T)
    PROVE  \E x \in T : \A y \in T : y <= x
<1>1. PICK n \in Nat : ExistsSurjection(1 .. n, T)
  BY FS_NatSurjection
<1>2. PICK f \in Surjection(1 .. n, T) : TRUE
  BY <1>1 DEF ExistsSurjection
<1>3. f \in [1 .. n -> T] /\ \A t \in T : \E i \in 1 .. n : f[i] = t
  BY <1>2 DEF Surjection
<1>4. \E b \in Int : \A t \in T : t <= b
  <2> DEFINE Bounded(m) == \E b \in Int : \A i \in 1 .. m : f[i] <= b
             Unbounded == {m \in 0 .. n : ~Bounded(m)}
  <2>0. Bounded(0)
    <3>1. 0 \in Int /\ \A i \in 1 .. 0 : f[i] <= 0
      OBVIOUS
    <3> QED BY <3>1
  <2>1. ASSUME Unbounded # {} PROVE FALSE
    <3>1. Unbounded \in SUBSET Nat
      OBVIOUS
    <3>2. PICK m \in Unbounded : \A k \in Unbounded : m <= k
      BY <2>1, <3>1, NatMin
    <3>3. m \in 0 .. n /\ ~Bounded(m) /\ m # 0
      BY <2>0, <3>2
    <3>4. Bounded(m - 1)
      <4>1. m - 1 \in 0 .. n /\ ~(m <= m - 1)
        BY <3>3
      <4>2. m - 1 \notin Unbounded
        BY <3>2, <4>1
      <4> HIDE DEF Bounded
      <4> QED BY <4>1, <4>2
    <3>5. PICK b \in Int : \A i \in 1 .. m - 1 : f[i] <= b
      BY <3>4
    <3>6. f[m] \in Int
      <4>1. m \in 1 .. n
        BY <3>3
      <4> QED BY <1>3, <4>1
    <3>7. \A p, q \in Int : \E c \in Int : p <= c /\ q <= c
      <4> SUFFICES ASSUME NEW p \in Int, NEW q \in Int PROVE \E c \in Int : p <= c /\ q <= c
        OBVIOUS
      <4>1. CASE p <= q
        <5>1. p <= q /\ q <= q
          BY <4>1
        <5> QED BY <5>1
      <4>2. CASE q <= p
        <5>1. p <= p /\ q <= p
          BY <4>2
        <5> QED BY <5>1
      <4> QED BY <4>1, <4>2
    <3>8. PICK c \in Int : b <= c /\ f[m] <= c
      BY <3>6, <3>7
    <3>9. \A i \in 1 .. m : f[i] <= c
      <4> SUFFICES ASSUME NEW i \in 1 .. m PROVE f[i] <= c
        OBVIOUS
      <4>1. m \in 1 .. n /\ i \in 1 .. n
        BY <3>3
      <4>2. f[i] \in Int
        BY <1>3, <4>1
      <4>3. CASE i = m
        BY <3>8, <4>3
      <4>4. CASE i # m
        <5>1. i \in 1 .. m - 1
          BY <4>1, <4>4
        <5>2. f[i] <= b
          BY <3>5, <5>1
        <5>3. \A p, q, r \in Int : p <= q /\ q <= r => p <= r
          OBVIOUS
        <5> QED BY <3>8, <4>2, <5>2, <5>3
      <4> QED BY <4>3, <4>4
    <3>10. Bounded(m)
      BY <3>8, <3>9
    <3> QED BY <3>3, <3>10
  <2>2. Bounded(n)
    <3> HIDE DEF Bounded
    <3> QED BY <2>1
  <2>3. PICK b \in Int : \A i \in 1 .. n : f[i] <= b
    BY <2>2
  <2>4. ASSUME NEW t \in T PROVE t <= b
    BY <1>3, <2>3
  <2> QED BY <2>4
<1>5. PICK b \in Int : \A t \in T : t <= b
  BY <1>4
<1> DEFINE Below == {b - t : t \in T}
<1>6. Below \in SUBSET Nat /\ Below # {}
  <2>1. ASSUME NEW t \in T PROVE b - t \in Nat
    <3>1. t \in Int /\ t <= b
      BY <1>5
    <3> QED BY <3>1
  <2> QED BY <2>1
<1>7. PICK d \in Below : \A e \in Below : d <= e
  BY <1>6, NatMin
<1>8. PICK x \in T : d = b - x
  BY <1>7
<1>9. ASSUME NEW y \in T PROVE y <= x
  <2>1. b - y \in Below /\ x \in Int /\ y \in Int
    OBVIOUS
  <2> HIDE DEF Below
  <2>2. b - x <= b - y
    BY <1>7, <1>8, <2>1
  <2> QED BY <2>1, <2>2
<1> QED BY <1>9

\* Who makes others wait while it waits itself: a deletion makes wait for its objects' keys, and
\* for its counter once it is at the descriptor; a write through a null handle, for the counter; a
\* registration, for its descriptor, and for the number of endpoints once it is at the reset.
LEMMA WaitedFor ==
    ASSUME TypeInv, LockInv, NEW t \in Threads, NEW s \in Threads, NEW r \in Threads,
           WaitsFor(t, s), WaitsFor(s, r)
    PROVE  \/ /\ pc[s] = "del_descr" \/ StoresAstray(s)
              /\ req[t].url = req[s].url
              /\ pc[t] \in {"post_write", "put_count", "add_reset", "del_counter"}
           \/ /\ pc[s] = "add_reset" /\ pc[t] = "add_count"
           \/ /\ pc[s] \in {"add_count", "add_reset"} /\ req[t].url = req[s].url
              /\ pc[t] \in {"add_descr", "del_descr"}
           \/ /\ pc[s] \in {"del_objects", "del_counter", "del_descr"}
              /\ req[t].url = req[s].url
              /\ StoresAstray(t) \/ pc[t] = "del_objects"
<1>1. /\ pc[t] # "idle"
      /\ \/ pc[s] \in {"post_write", "put_count", "add_reset", "del_counter", "add_descr",
                       "del_descr", "add_count", "del_objects"}
         \/ StoresAstray(s)
  BY DEF WaitsFor, WantsObject, StoresAstray
<1>2. req[t].url \in Urls /\ req[s].url \in Urls
  BY <1>1 DEF StoresAstray, TypeInv, UrlsNamed
<1>3. Own(s)
  BY DEF LockInv
<1>4. ASSUME NEW k \in LockKeys, lock[k] = s
      PROVE  \/ k = CounterKey(req[s].url) /\ (pc[s] = "del_descr" \/ StoresAstray(s))
             \/ k = DescrKey(req[s].url) /\ pc[s] \in {"add_count", "add_reset"}
             \/ k = CountKey /\ pc[s] = "add_reset"
  BY <1>1, <1>3, <1>4 DEF Own, StoresAstray
<1>5. CASE /\ pc[t] \in {"post_write", "put_count", "add_reset", "del_counter"}
           /\ lock[CounterKey(req[t].url)] = s
  <2>1. /\ CounterKey(req[t].url) = CounterKey(req[s].url)
        /\ pc[s] = "del_descr" \/ StoresAstray(s)
    BY <1>2, <1>4, <1>5, KeysDiffer
  <2> QED BY <1>2, <1>5, <2>1, KeysDiffer
<1>6. CASE /\ pc[t] \in {"add_descr", "del_descr"}
           /\ lock[DescrKey(req[t].url)] = s
  <2>1. DescrKey(req[t].url) = DescrKey(req[s].url) /\ pc[s] \in {"add_count", "add_reset"}
    BY <1>2, <1>4, <1>6, KeysDiffer
  <2> QED BY <1>2, <1>6, <2>1, KeysDiffer
<1>7. CASE pc[t] = "add_count" /\ lock[CountKey] = s
  BY <1>2, <1>4, <1>7, KeysDiffer
<1>8. CASE req[s].url = req[t].url /\ \E i \in req[s].keys : WantsObject(t, i)
  <2>1. pc[s] \in {"del_objects", "del_counter", "del_descr"}
    BY <1>1, <1>3, <1>8 DEF Own, StoresAstray
  <2>2. StoresAstray(t) \/ pc[t] = "del_objects"
    BY <1>8 DEF WantsObject
  <2> QED BY <1>8, <2>1, <2>2
<1> QED BY <1>5, <1>6, <1>7, <1>8 DEF WaitsFor

\* Deletions that are at the keys of their objects take them in one order, so that the one at the
\* greatest key of a finite set of them waits for none of them.
LEMMA DeletionsAlone ==
    ASSUME TypeInv, LockInv, NEW S \in SUBSET Threads, S # {},
           \A t \in S : pc[t] = "del_objects",
           \A t \in S : \E s \in S : WaitsFor(t, s)
    PROVE  FALSE
<1>1. ASSUME NEW t \in S
      PROVE  \E s \in S : \E i \in req[s].keys : First(t, i)
  <2>1. PICK s \in S : WaitsFor(t, s)
    BY <1>1
  <2> QED BY <1>1, <2>1 DEF WaitsFor, WantsObject, StoresAstray
<1> DEFINE at == [t \in S |-> CHOOSE i : First(t, i)]
           Wanted == {at[t] : t \in S}
<1>2. \A t \in S : First(t, at[t]) /\ at[t] \in Int
  <2> SUFFICES ASSUME NEW t \in S PROVE First(t, at[t]) /\ at[t] \in Int
    OBVIOUS
  <2>1. PICK i : First(t, i)
    BY <1>1
  <2>2. First(t, CHOOSE j : First(t, j))
    BY <2>1
  <2> QED BY <2>2 DEF First, TypeInv, TypeOK, Requests, Ids
<1>3. \A t \in S : \E s \in S : at[t] < at[s]
  <2> SUFFICES ASSUME NEW t \in S PROVE \E s \in S : at[t] < at[s]
    OBVIOUS
  <2>1. PICK s \in S : \E i \in req[s].keys : First(t, i)
    BY <1>1
  <2>2. PICK i \in req[s].keys : First(t, i)
    BY <2>1
  <2>3. i = at[t]
    <3> HIDE DEF at
    <3>1. i \in req[t].todo /\ at[t] \in req[t].todo /\ i <= at[t] /\ at[t] <= i
      BY <1>2, <2>2 DEF First
    <3>2. i \in Int /\ at[t] \in Int
      BY <1>2, <3>1 DEF TypeInv, TypeOK, Requests, Ids
    <3> QED BY <3>1, <3>2
  <2>4. at[s] \in req[s].todo
    BY <1>2 DEF First
  <2>5. i < at[s]
    BY <2>2, <2>4 DEF LockInv, Own
  <2> QED BY <2>3, <2>5
<1>4. IsFiniteSet(S)
  BY ThreadsAssumption, FS_Subset
<1>5. at \in Surjection(S, Wanted)
  BY DEF Surjection
<1>6. IsFiniteSet(Wanted)
  BY <1>4, <1>5, FS_Surjection
<1>7. Wanted \in SUBSET Int /\ Wanted # {}
  BY <1>2
<1>8. PICK m \in Wanted : \A i \in Wanted : i <= m
  BY <1>6, <1>7, FiniteMax
<1>9. PICK t \in S : m = at[t]
  BY <1>8
<1>10. PICK s \in S : at[t] < at[s]
  BY <1>3
<1>11. at[s] \in Wanted /\ at[s] \in Int /\ at[t] \in Int
  BY <1>2
<1> HIDE DEF at, Wanted
<1>12. at[s] <= at[t]
  BY <1>8, <1>9, <1>11
<1> QED BY <1>10, <1>11, <1>12

\* All calls but delete_endpoint lock a descriptor before the number of endpoints, that before a
\* counter, and a counter before the key of an object: a circle of requests that wait for each
\* other includes a deletion and another call of its url that waits for it, a registration at the
\* reset of the counter or a write through a null handle.
THEOREM OnlyMixedDeadlocks == Spec => []DeadlocksMixCalls
<1>1. ASSUME TypeInv, LockInv PROVE DeadlocksMixCalls
  <2> DEFINE Mixed(a, d) ==
               /\ req[a].url = req[d].url /\ WaitsFor(a, d)
               /\ \/ pc[a] = "add_reset" /\ pc[d] = "del_descr"
                  \/ StoresAstray(a) /\ pc[d] \in {"del_objects", "del_counter", "del_descr"}
  <2> SUFFICES ASSUME NEW S \in SUBSET Threads, S # {},
                      \A t \in S : \E s \in S : WaitsFor(t, s)
               PROVE  \E a, d \in S : Mixed(a, d)
    BY DEF DeadlocksMixCalls
  \* a write through a null handle that waits is one of them,
  <2>1. ASSUME NEW a \in S, StoresAstray(a) PROVE \E d \in S : Mixed(a, d)
    <3>1. PICK d \in S : WaitsFor(a, d)
      OBVIOUS
    <3>2. PICK r \in S : WaitsFor(d, r)
      OBVIOUS
    <3> QED BY <1>1, <2>1, <3>1, <3>2, WaitedFor DEF StoresAstray
  \* or who waits for a counter finds one,
  <2>2. ASSUME NEW a \in S, pc[a] \in {"post_write", "put_count", "add_reset", "del_counter"}
        PROVE  \E d \in S : /\ pc[d] = "del_descr" \/ StoresAstray(d)
                            /\ req[a].url = req[d].url /\ WaitsFor(a, d)
    <3>1. PICK d \in S : WaitsFor(a, d)
      OBVIOUS
    <3>2. PICK r \in S : WaitsFor(d, r)
      OBVIOUS
    <3> QED BY <1>1, <2>2, <3>1, <3>2, WaitedFor DEF StoresAstray
  <2>3. ASSUME NEW a \in S, pc[a] = "add_reset" PROVE \E b, d \in S : Mixed(b, d)
    BY <2>1, <2>2, <2>3
  \* and behind every other one there is one at the reset of a counter,
  <2>4. ASSUME NEW s \in S, pc[s] = "add_count" PROVE \E b, d \in S : Mixed(b, d)
    <3>1. PICK a \in S : WaitsFor(s, a)
      OBVIOUS
    <3>2. PICK r \in S : WaitsFor(a, r)
      OBVIOUS
    <3>3. pc[a] = "add_reset"
      BY <1>1, <2>4, <3>1, <3>2, WaitedFor DEF StoresAstray
    <3> QED BY <2>3, <3>3
  <2>5. ASSUME NEW s \in S, pc[s] \in {"add_descr", "del_descr"}
        PROVE  \E b, d \in S : Mixed(b, d)
    <3>1. PICK a \in S : WaitsFor(s, a)
      OBVIOUS
    <3>2. PICK r \in S : WaitsFor(a, r)
      OBVIOUS
    <3>3. pc[a] \in {"add_count", "add_reset"}
      BY <1>1, <2>5, <3>1, <3>2, WaitedFor DEF StoresAstray
    <3> QED BY <2>3, <2>4, <3>3
  <2>6. ASSUME NEW s \in S, pc[s] \in {"post_write", "put_count", "del_counter"}
        PROVE  \E b, d \in S : Mixed(b, d)
    BY <2>1, <2>2, <2>5, <2>6
  \* unless all are deletions at the keys of their objects.
  <2>7. ASSUME NEW s \in S
        PROVE  \/ pc[s] \in {"post_write", "put_count", "add_reset", "del_counter", "add_descr",
                             "del_descr", "add_count", "del_objects"}
               \/ StoresAstray(s)
    BY DEF WaitsFor, WantsObject
  <2>8. CASE \A s \in S : pc[s] = "del_objects"
    BY <1>1, <2>8, DeletionsAlone
  <2>9. CASE \E s \in S : pc[s] # "del_objects"
    <3>1. PICK s \in S : pc[s] # "del_objects"
      BY <2>9
    <3> HIDE DEF Mixed
    <3> QED BY <2>1, <2>3, <2>4, <2>5, <2>6, <2>7, <3>1
  <2> QED BY <2>8, <2>9
<1> QED BY <1>1, LocksHeld, PTL

-----------------------------------------------------------------------------
(* The handle map *)

\* A request has a family's handle to itself between its creation and its installation, and
\* between its removal from the map and the drop.
Holds(t) ==
    pc[t] \in {"add_descr", "add_count", "add_install", "del_drop"} /\ req[t].hdl # Null

\* The handle of a live family is in one place: in the map or with one request.
OwnerInv ==
    /\ MapNeverStale
    /\ \A t \in Threads :
         Holds(t) => /\ req[t].hdl = family[req[t].url]
                     /\ handle[req[t].url] \in {Absent, Null}
    /\ \A s, t \in Threads : Holds(s) /\ Holds(t) /\ req[s].url = req[t].url => s = t

\* A step that leaves map and families alone and gives nobody a handle.
Quiet ==
    /\ UNCHANGED <<family, handle>>
    /\ \A t \in Threads :
         Holds(t)' => Holds(t) /\ req'[t].hdl = req[t].hdl /\ req'[t].url = req[t].url

\* At the start only the map has handles.
LEMMA OwnerInit == Init => OwnerInv
BY DEF Init, OwnerInv, Holds, MapNeverStale

\* A quiet step keeps every handle where it is.
LEMMA OwnerQuiet == ASSUME OwnerInv, Quiet PROVE OwnerInv'
BY DEF OwnerInv, Quiet, MapNeverStale

\* An answer is quiet.
LEMMA QuietAnswer ==
    ASSUME TypeInv, NEW t \in Threads, NEW s, NEW i, Answer(t, s, i), UNCHANGED <<family, handle>>
    PROVE  Quiet
BY DEF TypeInv, TypeOK, Answer, Holds, Quiet

\* A step to a place where no handle is held is quiet.
LEMMA QuietGoto ==
    ASSUME TypeInv, NEW t \in Threads, NEW l, Goto(t, l), UNCHANGED <<family, handle>>,
           l \notin {"add_descr", "add_count", "add_install", "del_drop"},
           \A s \in Threads \ {t} : req'[s] = req[s]
    PROVE  Quiet
BY DEF TypeInv, TypeOK, Goto, Holds, Quiet

\* post gives nobody a handle.
LEMMA OwnerPost == ASSUME TypeInv, OwnerInv, NEW t \in Threads, Post(t) PROVE OwnerInv'
<1>1. UNCHANGED <<family, handle>>
  BY DEF Post, PostCan, PostNextId, PostBatch, PostWrite, PostObject, StoreObject, db, memory
<1>2. CASE PostCan(t) \/ PostWrite(t) \/ PostObject(t)
  BY <1>1, <1>2, QuietAnswer, QuietGoto, OwnerQuiet DEF PostCan, PostWrite, PostObject
<1>3. CASE PostNextId(t) \/ PostBatch(t)
  BY <1>1, <1>3, QuietAnswer, QuietGoto, OwnerQuiet DEF PostNextId, PostBatch, TypeInv, TypeOK
<1> QED BY <1>2, <1>3 DEF Post

\* After its end the process has no handle.
LEMMA OwnerHalt == ASSUME NEW why, Halt(why) PROVE OwnerInv'
BY DEF Halt, OwnerInv, Holds, MapNeverStale

\* put adds at most a null entry to the map.
LEMMA OwnerPut == ASSUME TypeInv, OwnerInv, NEW t \in Threads, Put(t) PROVE OwnerInv'
<1>1. CASE PutExists(t)
  BY <1>1, QuietAnswer, QuietGoto, OwnerQuiet DEF PutExists, db, memory
<1>2. CASE PutCheck(t)
  BY <1>2, QuietGoto, OwnerQuiet DEF PutCheck, db, memory
<1>3. CASE PutCount(t)
  <2>1. CASE Halt("died")
    BY <2>1, OwnerHalt
  <2>2. CASE ~Halt("died")
    <3>1. /\ \E g : req' = [req EXCEPT ![t].id = counter[req[t].url], ![t].staged = g]
          /\ Goto(t, "put_stage")
          /\ UNCHANGED <<family, handle>>
      BY <1>3, <2>2 DEF PutCount, db
    <3>2. \A s \in Threads \ {t} : req'[s] = req[s]
      BY <3>1 DEF TypeInv, TypeOK
    <3> QED BY <3>1, <3>2, QuietGoto, OwnerQuiet
  <2> QED BY <2>1, <2>2
<1>4. CASE PutStage(t)
  <2>1. req[t].url \in Urls /\ UNCHANGED family
    BY <1>4 DEF PutStage, TypeInv, UrlsNamed, db
  <2>2. handle' = [handle EXCEPT ![req[t].url] =
                     IF handle[req[t].url] = Absent THEN Null ELSE handle[req[t].url]]
    BY <1>4 DEF PutStage
  <2>3. \A s \in Threads : Holds(s)' => s # t /\ Holds(s) /\ req'[s] = req[s]
    BY <1>4 DEF PutStage, Goto, Answer, Holds, TypeInv, TypeOK
  <2>4. \A u \in Urls : handle'[u] = handle[u] \/ (handle[u] = Absent /\ handle'[u] = Null)
    BY <2>1, <2>2 DEF TypeInv, TypeOK
  <2>5. \A s \in Threads : Holds(s) => req[s].url \in Urls
    BY DEF Holds, TypeInv, UrlsNamed
  <2> QED BY <2>1, <2>3, <2>4, <2>5 DEF OwnerInv, MapNeverStale
<1>5. CASE PutCommit(t) \/ PutPlain(t)
  BY <1>5, QuietAnswer, OwnerQuiet DEF PutCommit, PutPlain, StoreObject, db, memory
<1>6. CASE PutWrite(t)
  <2>1. UNCHANGED <<family, handle>>
    BY <1>6 DEF PutWrite, db
  <2>2. CASE Answer(t, 200, NoId)
    BY <2>1, <2>2, QuietAnswer, OwnerQuiet
  <2>3. CASE Goto(t, "put_commit") /\ \E K : req' = [req EXCEPT ![t].keys = K]
    <3>1. \A s \in Threads \ {t} : req'[s] = req[s]
      BY <2>3 DEF TypeInv, TypeOK
    <3> QED BY <2>1, <2>3, <3>1, QuietGoto, OwnerQuiet
  <2> QED BY <1>6, <2>2, <2>3 DEF PutWrite
<1> QED BY <1>1, <1>2, <1>3, <1>4, <1>5, <1>6 DEF Put

\* add_endpoint passes the handle of the family it made to the map.
LEMMA OwnerAdd == ASSUME TypeInv, OwnerInv, NEW t \in Threads, Add(t) PROVE OwnerInv'
<1> USE DEF TypeInv, TypeOK
<1>0. \A s \in Threads : Holds(s) => req[s].url \in Urls
  BY DEF Holds, UrlsNamed
<1>1. CASE AddCreate(t)
  <2>1. /\ pc[t] = "add_create" /\ req[t].url \in Urls
        /\ UNCHANGED handle
        /\ \A s \in Threads \ {t} : pc'[s] = pc[s] /\ req'[s] = req[s]
        /\ req'[t].url = req[t].url
    BY <1>1 DEF AddCreate, Goto, UrlsNamed, memory, Requests
  <2>2. CASE UNCHANGED family /\ req' = [req EXCEPT ![t].hdl = Null]
    <3>1. Quiet
      BY <2>1, <2>2 DEF Quiet, Holds, Requests
    <3> QED BY <3>1, OwnerQuiet
  <2>3. CASE /\ family[req[t].url] = 0
             /\ family' = [family EXCEPT ![req[t].url] = made + 1]
             /\ req' = [req EXCEPT ![t].hdl = made + 1]
    <3>1. req'[t].hdl = made + 1 /\ family'[req[t].url] = made + 1
      BY <2>1, <2>3 DEF Requests
    <3>2. handle[req[t].url] \in {Absent, Null}
      BY <2>1, <2>3 DEF OwnerInv, MapNeverStale
    <3>3. \A s \in Threads \ {t} : Holds(s)' => Holds(s) /\ req[s].url # req[t].url
      BY <2>1, <2>3 DEF OwnerInv, Holds
    <3>4. MapNeverStale'
      BY <2>1, <2>3, <3>2 DEF OwnerInv, MapNeverStale
    <3>5. \A s \in Threads \ {t} : Holds(s)' =>
            /\ req'[s].hdl = family'[req'[s].url]
            /\ handle'[req'[s].url] \in {Absent, Null}
      BY <1>0, <2>1, <2>3, <3>3 DEF OwnerInv
    <3>6. \A s \in Threads : Holds(s)' /\ Holds(t)' /\ req'[s].url = req'[t].url => s = t
      BY <2>1, <3>3
    <3>7. \A r, s \in Threads : Holds(r)' /\ Holds(s)' /\ req'[r].url = req'[s].url => r = s
      BY <2>1, <3>3, <3>6 DEF OwnerInv
    <3> QED BY <2>1, <3>1, <3>2, <3>4, <3>5, <3>7 DEF OwnerInv
  <2> QED BY <1>1, <2>2, <2>3 DEF AddCreate
<1>2. ASSUME NEW k, NEW w, AddPut(t, k, w)
      PROVE  /\ \A s \in Threads \ {t} : req'[s] = req[s]
             /\ req'[t].hdl = req[t].hdl /\ req'[t].url = req[t].url
  BY <1>2 DEF AddPut, Requests
<1>3. CASE AddDescr(t) \/ AddCount(t)
  <2>1. UNCHANGED <<family, handle>>
    BY <1>3 DEF AddDescr, AddCount, db
  <2>2. Quiet
    BY <1>2, <1>3, <2>1 DEF AddDescr, AddCount, Goto, Quiet, Holds
  <2> QED BY <2>2, OwnerQuiet
<1>4. CASE AddInstall(t)
  <2>1. /\ pc[t] = "add_install" /\ req[t].url \in Urls
        /\ UNCHANGED <<family, req>>
        /\ handle' = [handle EXCEPT ![req[t].url] = req[t].hdl]
        /\ \A s \in Threads : Holds(s)' => Holds(s) /\ s # t
    BY <1>4 DEF AddInstall, Goto, Holds, UrlsNamed, db
  <2>2. handle'[req[t].url] = req[t].hdl
    BY <2>1
  <2>3. req[t].hdl # Null => Holds(t)
    BY <2>1 DEF Holds
  <2>4. MapNeverStale'
    BY <2>1, <2>2, <2>3 DEF OwnerInv, MapNeverStale
  <2>5. ASSUME NEW s \in Threads, Holds(s)'
        PROVE  /\ req'[s].hdl = family'[req'[s].url]
               /\ handle'[req'[s].url] \in {Absent, Null}
    BY <1>0, <2>1, <2>2, <2>3, <2>5 DEF OwnerInv
  <2> QED BY <2>1, <2>4, <2>5 DEF OwnerInv
<1>5. CASE AddReset(t)
  <2>1. UNCHANGED <<family, handle>>
    BY <1>5 DEF AddReset, db
  <2> QED BY <1>2, <1>5, <2>1, QuietGoto, OwnerQuiet DEF AddReset
<1>6. CASE AddCommit(t)
  BY <1>6, QuietAnswer, OwnerQuiet DEF AddCommit
<1> QED BY <1>1, <1>3, <1>4, <1>5, <1>6 DEF Add

\* delete_endpoint takes the handle out of the map before it drops the family.
LEMMA OwnerDelete == ASSUME TypeInv, OwnerInv, NEW t \in Threads, Delete(t) PROVE OwnerInv'
<1> USE DEF TypeInv, TypeOK
<1>0. \A s \in Threads : Holds(s) => req[s].url \in Urls
  BY DEF Holds, UrlsNamed
<1>1. CASE DelCheck(t)
  BY <1>1, QuietAnswer, QuietGoto, OwnerQuiet DEF DelCheck, db, memory
<1>2. CASE DelCounter(t) \/ DelDescr(t)
  BY <1>2, QuietAnswer, QuietGoto, OwnerQuiet DEF DelCounter, DelDescr, DelKey, db
<1>3. CASE DelCommit(t)
  <2>1. \A s \in Threads \ {t} : req'[s] = req[s]
    BY <1>3 DEF DelCommit
  <2> QED BY <1>3, <2>1, QuietGoto, OwnerQuiet DEF DelCommit
<1>4. CASE DelErase(t)
  <2> DEFINE u == req[t].url
  <2>1. /\ pc[t] = "del_erase" /\ u \in Urls
        /\ UNCHANGED family
        /\ req' = [req EXCEPT ![t].hdl = IF handle[u] = Absent THEN Null ELSE handle[u]]
        /\ handle' = [handle EXCEPT ![u] = Absent]
        /\ Goto(t, "del_drop")
    BY <1>4 DEF DelErase, Erased, UrlsNamed, db
  <2>2. /\ req'[t].hdl = IF handle[u] = Absent THEN Null ELSE handle[u]
        /\ req'[t].url = u
        /\ \A s \in Threads \ {t} : pc'[s] = pc[s] /\ req'[s] = req[s]
    BY <2>1 DEF Goto, Requests
  <2>3. Holds(t)' => handle[u] \notin {Absent, Null} /\ req'[t].hdl = handle[u]
    BY <2>2 DEF Holds
  <2>4. \A s \in Threads \ {t} : Holds(s)' <=> Holds(s)
    BY <2>2 DEF Holds
  <2>5. \A s \in Threads \ {t} : Holds(s)' /\ Holds(t)' => req'[s].url # u
    BY <2>2, <2>3, <2>4 DEF OwnerInv
  <2>6. MapNeverStale'
    BY <2>1 DEF OwnerInv, MapNeverStale
  <2>7. Holds(t)' => req'[t].hdl = family'[u] /\ handle'[u] = Absent
    BY <2>1, <2>3 DEF OwnerInv, MapNeverStale
  <2>8. \A s \in Threads \ {t} : Holds(s)' =>
          /\ req'[s].hdl = family'[req'[s].url]
          /\ handle'[req'[s].url] \in {Absent, Null}
    BY <1>0, <2>1, <2>2, <2>4 DEF OwnerInv
  <2>9. \A r, s \in Threads : Holds(r)' /\ Holds(s)' /\ req'[r].url = req'[s].url => r = s
    BY <2>2, <2>4, <2>5 DEF OwnerInv
  <2> HIDE DEF u
  <2> QED BY <2>2, <2>6, <2>7, <2>8, <2>9 DEF OwnerInv
<1>5. CASE DelDrop(t)
  <2>1. CASE Halt("died")
    BY <2>1, OwnerHalt
  <2>2. CASE ~Halt("died")
    <3>1. /\ pc[t] = "del_drop" /\ req[t].url \in Urls
          /\ Holds(t)
          /\ UNCHANGED handle
          /\ \E s \in {200, 500} : Answer(t, s, NoId)
          /\ UNCHANGED family \/ family' = [family EXCEPT ![req[t].url] = 0]
      BY <1>5, <2>2 DEF DelDrop, Holds, UrlsNamed, memory
    <3>2. PICK st \in {200, 500} : Answer(t, st, NoId)
      BY <3>1
    <3>3. CASE UNCHANGED family
      BY <3>1, <3>2, <3>3, QuietAnswer, OwnerQuiet
    <3>4. CASE family' = [family EXCEPT ![req[t].url] = 0]
      <4>1. \A s \in Threads : Holds(s)' => /\ Holds(s) /\ s # t
                                           /\ req'[s] = req[s]
                                           /\ req[s].url # req[t].url
        <5>1. pc'[t] = "idle" /\ \A s \in Threads \ {t} : pc'[s] = pc[s] /\ req'[s] = req[s]
          BY <3>2 DEF Answer
        <5>2. \A s \in Threads : Holds(s)' => Holds(s) /\ s # t
          BY <5>1 DEF Holds
        <5> QED BY <3>1, <5>1, <5>2 DEF OwnerInv
      <4>2. handle[req[t].url] \in {Absent, Null}
        BY <3>1 DEF OwnerInv
      <4>3. MapNeverStale'
        BY <3>1, <3>4, <4>2 DEF OwnerInv, MapNeverStale
      <4> QED BY <1>0, <3>1, <3>4, <4>1, <4>3 DEF OwnerInv
    <3> QED BY <3>1, <3>3, <3>4
  <2> QED BY <2>1, <2>2
<1>6. CASE DelList(t)
  <2>1. \A s \in Threads \ {t} : req'[s] = req[s]
    BY <1>6 DEF DelList
  <2> QED BY <1>6, <2>1, QuietGoto, OwnerQuiet DEF DelList, db, memory
<1>7. CASE DelObjects(t)
  <2>1. /\ UNCHANGED <<family, handle>>
        /\ \A s \in Threads \ {t} : req'[s] = req[s]
        /\ Goto(t, "del_counter") \/ Goto(t, "del_objects")
    BY <1>7 DEF DelObjects, Goto, db, memory
  <2> QED BY <2>1, QuietGoto, OwnerQuiet
<1> QED BY <1>1, <1>2, <1>3, <1>4, <1>5, <1>6, <1>7 DEF Delete

\* get gives nobody a handle.
LEMMA OwnerGet == ASSUME TypeInv, OwnerInv, NEW t \in Threads, Get(t) PROVE OwnerInv'
<1>1. CASE GetRoute(t)
  BY <1>1, QuietGoto, OwnerQuiet DEF GetRoute, db, memory
<1>2. CASE GetList(t)
  BY <1>2, QuietAnswer, OwnerQuiet DEF GetList, db, memory
<1>3. CASE GetCheck(t)
  BY <1>3, QuietAnswer, QuietGoto, OwnerQuiet DEF GetCheck, db, memory
<1>4. CASE GetOpen(t)
  BY <1>4, QuietAnswer, OwnerHalt, OwnerQuiet DEF GetOpen, db, memory
<1> QED BY <1>1, <1>2, <1>3, <1>4 DEF Get

\* While the process is down no request is in progress.
DownIdle == up # "up" => \A t \in Threads : pc[t] = "idle"

\* The process is up at the start.
LEMMA DownInit == Init => DownIdle
BY DEF Init, DownIdle

\* Requests are idle as long as the process is down.
LEMMA DownNext == ASSUME TypeInv, DownIdle, [Next]_vars PROVE DownIdle'
<1>1. ASSUME NEW why, Halt(why) PROVE DownIdle'
  BY <1>1 DEF Halt, DownIdle
<1>2. ASSUME NEW t \in Threads, Step(t) PROVE DownIdle'
  <2>1. pc[t] # "idle"
    BY <1>2 DEF Step, Post, PostCan, PostNextId, PostBatch, PostWrite, PostObject,
                Put, PutExists, PutCheck, PutCount, PutStage, PutWrite, PutCommit, PutPlain,
                Add, AddCreate, AddDescr, AddCount, AddInstall, AddReset, AddCommit,
                Delete, DelCheck, DelList, DelObjects, DelCounter, DelDescr, DelCommit, DelErase, DelDrop,
                Get, GetRoute, GetList, GetCheck, GetOpen
  <2>2. UNCHANGED up \/ Halt("died")
    BY <1>2 DEF Step, Post, PostCan, PostNextId, PostBatch, PostWrite, PostObject,
                Put, PutExists, PutCheck, PutCount, PutStage, PutWrite, PutCommit, PutPlain,
                Add, AddCreate, AddDescr, AddCount, AddInstall, AddReset, AddCommit,
                Delete, DelCheck, DelList, DelObjects, DelCounter, DelDescr, DelKey, DelCommit, DelErase, DelDrop,
                Get, GetRoute, GetList, GetCheck, GetOpen, memory
  <2> QED BY <1>1, <2>1, <2>2 DEF DownIdle
<1>3. ASSUME NEW t \in Threads, Begin(t) PROVE DownIdle'
  BY <1>3 DEF Begin, DownIdle
<1>4. CASE MapRace \/ Crash
  BY <1>1, <1>4 DEF MapRace, Crash
<1>5. CASE Restart
  BY <1>5 DEF Restart, DownIdle
<1>6. CASE UNCHANGED vars
  BY <1>6 DEF vars, memory, DownIdle
<1> QED BY <1>2, <1>3, <1>4, <1>5, <1>6 DEF Next

\* The handle of a live family stays in one place.
LEMMA OwnerNext == ASSUME TypeInv, DownIdle, OwnerInv, [Next]_vars PROVE OwnerInv'
<1>1. ASSUME NEW t \in Threads, Begin(t) PROVE OwnerInv'
  <2>1. PICK o \in Ops : Goto(t, Entry[o])
    BY <1>1 DEF Begin
  <2>2. Entry[o] \in {"post_can", "put_exists", "add_create", "del_check", "get_route"}
    BY WorkloadAssumption DEF Entry, AllOps
  <2>3. \A s \in Threads \ {t} : req'[s] = req[s]
    BY <1>1 DEF Begin, TypeInv, TypeOK
  <2> QED BY <1>1, <2>1, <2>2, <2>3, QuietGoto, OwnerQuiet DEF Begin, db
<1>2. ASSUME NEW t \in Threads, Step(t) PROVE OwnerInv'
  BY <1>2, OwnerPost, OwnerPut, OwnerAdd, OwnerDelete, OwnerGet DEF Step
<1>3. CASE MapRace \/ Crash
  BY <1>3, OwnerHalt DEF MapRace, Crash
<1>4. CASE Restart
  <2>1. \A t \in Threads : pc[t] = "idle" /\ pc'[t] = "idle"
    BY <1>4 DEF Restart, DownIdle
  <2> QED BY <1>4, <2>1 DEF Restart, OwnerInv, Holds, MapNeverStale, TypeInv, TypeOK, db
<1>5. CASE UNCHANGED vars
  BY <1>5 DEF vars, db, memory, OwnerInv, Holds, MapNeverStale
<1> QED BY <1>1, <1>2, <1>3, <1>4, <1>5 DEF Next

\* However registrations, deletions, puts, crashes and restarts overlap, an entry of the handle
\* map that is not null belongs to the column family its url has now.
THEOREM MapIsFresh == Spec => []MapNeverStale
<1>1. Spec => [](TypeInv /\ DownIdle /\ OwnerInv)
  BY TypeInit, TypeNext, DownInit, DownNext, OwnerInit, OwnerNext, PTL DEF Spec
<1>2. OwnerInv => MapNeverStale
  BY DEF OwnerInv
<1> QED BY <1>1, <1>2, PTL

-----------------------------------------------------------------------------
(* The two copies of every object *)

\* Adding an object makes its id one of the ids.
LEMMA StoredIds ==
    ASSUME NEW kv, NEW i, NEW o
    PROVE  IdsOf(Stored(kv, i, o)) = IdsOf(kv) \cup {i}
<1> DEFINE n == [id |-> i, obj |-> o]
<1>1. n.id = i
  OBVIOUS
<1> QED BY <1>1 DEF Stored, IdsOf

\* Storing an object writes its row and its copy at once.
LEMMA RowsStore ==
    ASSUME TypeInv, RowsHaveCopies, NEW t \in Threads, req[t].url \in Urls,
           UNCHANGED db \/ \E counted : StoreObject(t, counted)
    PROVE  RowsHaveCopies'
<1>1. CASE UNCHANGED db
  BY <1>1 DEF db, RowsHaveCopies, IdsOf
<1>2. ASSUME NEW counted, StoreObject(t, counted) PROVE RowsHaveCopies'
  <2> DEFINE u == req[t].url
  <2>1. objects'[u] = Stored(objects[u], req[t].id, req[t].obj)
    BY <1>2 DEF StoreObject, ObjectsWith, TypeInv, TypeOK
  <2>2. rows'[u] = rows[u] \/ rows'[u] = Stored(rows[u], req[t].id, req[t].obj)
    BY <1>2 DEF StoreObject, RowsWith, TypeInv, TypeOK
  <2>3. \A v \in Urls \ {u} : /\ objects'[v] = objects[v] /\ rows'[v] = rows[v]
                              /\ stray'[v] = stray[v]
    BY <1>2 DEF StoreObject, ObjectsWith, RowsWith, StrayWith, TypeInv, TypeOK
  <2>4. stray'[u] \subseteq stray[u] \cup {req[t].id}
    BY <1>2 DEF StoreObject, StrayWith, TypeInv, TypeOK
  <2>5. IdsOf(rows'[u]) \cup stray'[u] \subseteq IdsOf(objects'[u])
    BY <2>1, <2>2, <2>4, StoredIds DEF RowsHaveCopies
  <2> QED BY <2>3, <2>5 DEF RowsHaveCopies
<1> QED BY <1>1, <1>2

\* Every row keeps its copy.
LEMMA RowsNext == ASSUME TypeInv, RowsHaveCopies, [Next]_vars PROVE RowsHaveCopies'
<1>1. ASSUME UNCHANGED <<rows, objects, stray>> PROVE RowsHaveCopies'
  BY <1>1 DEF RowsHaveCopies
<1>2. ASSUME NEW t \in Threads, PostWrite(t) \/ PostObject(t) \/ PutCommit(t)
      PROVE  RowsHaveCopies'
  <2>1. /\ req[t].url \in Urls
        /\ UNCHANGED db \/ \E counted : StoreObject(t, counted)
    BY <1>2 DEF PostWrite, PostObject, PutCommit, TypeInv, UrlsNamed
  <2> QED BY <2>1, RowsStore
<1>3. ASSUME NEW t \in Threads, PutPlain(t) PROVE RowsHaveCopies'
  <2>1. req[t].url \in Urls
    BY <1>3 DEF PutPlain, TypeInv, UrlsNamed
  <2>2. \A v \in Urls :
          \/ objects'[v] = objects[v]
          \/ objects'[v] = Stored(objects[v], NoId, req[t].obj)
    BY <1>3, <2>1 DEF PutPlain, ObjectsWith, TypeInv, TypeOK
  <2>3. \A v \in Urls : IdsOf(objects[v]) \subseteq IdsOf(objects'[v])
    BY <2>2, StoredIds
  <2> QED BY <1>3, <2>3 DEF PutPlain, RowsHaveCopies
<1>4. ASSUME NEW t \in Threads, DelDrop(t) PROVE RowsHaveCopies'
  <2>1. \A v \in Urls : /\ rows'[v] = rows[v] \/ rows'[v] = {}
                        /\ objects'[v] = objects[v] /\ stray'[v] = stray[v]
    BY <1>4 DEF DelDrop, Halt, db, TypeInv, TypeOK
  <2> QED BY <2>1 DEF RowsHaveCopies, IdsOf
<1>5. ASSUME NEW t \in Threads, Step(t), ~PostWrite(t), ~PostObject(t), ~PutCommit(t),
             ~PutPlain(t), ~DelCommit(t), ~DelDrop(t)
      PROVE  UNCHANGED <<rows, objects, stray>>
  BY <1>5 DEF Step, Post, PostCan, PostNextId, PostBatch,
              Put, PutExists, PutCheck, PutCount, PutStage, PutWrite,
              Add, AddCreate, AddDescr, AddCount, AddInstall, AddReset, AddCommit,
              Delete, DelCheck, DelList, DelObjects, DelCounter, DelDescr, DelKey, DelErase,
              Get, GetRoute, GetList, GetCheck, GetOpen, Halt, db
<1>6. ASSUME NEW t \in Threads, Begin(t) PROVE UNCHANGED <<rows, objects, stray>>
  BY <1>6 DEF Begin, db
<1>7. ASSUME MapRace \/ Crash \/ Restart \/ UNCHANGED vars PROVE UNCHANGED <<rows, objects, stray>>
  BY <1>7 DEF MapRace, Crash, Restart, Halt, vars, db
<1>8. ASSUME NEW t \in Threads, DelCommit(t) PROVE RowsHaveCopies'
  <2>1. UNCHANGED <<rows, objects>> /\ \A v \in Urls : stray'[v] \subseteq stray[v]
    BY <1>8 DEF DelCommit, TypeInv, TypeOK
  <2> QED BY <2>1 DEF RowsHaveCopies
<1> QED BY <1>1, <1>2, <1>3, <1>4, <1>5, <1>6, <1>7, <1>8 DEF Next

\* Whatever races and failures there were, an object that an endpoint lists, or that a null
\* handle sent to the default family, has a copy among all objects.
THEOREM EveryRowHasItsCopy == Spec => []RowsHaveCopies
<1>1. Init => RowsHaveCopies
  BY DEF Init, RowsHaveCopies, IdsOf
<1> QED BY <1>1, TypeInit, TypeNext, RowsNext, PTL DEF Spec

=============================================================================
