----------------------- MODULE EndpointsWorkloadProofs -----------------------
(***************************************************************************)
(* What Endpoints guarantees if writes do not fail and posts and            *)
(* registrations, where clients make them, overlap with nothing: for every  *)
(* set of requests and urls.                                                *)
(***************************************************************************)
EXTENDS EndpointsProofs

\* The workload of the runs records and log.
Calm == Outcomes = {TRUE} /\ {"post", "add"} \cap Ops \subseteq Alone

USE DEF NoId, Absent, Null, Places

-----------------------------------------------------------------------------
(* Posts and registrations run alone *)

\* While a post or a registration is in progress no other call is.
Solo ==
    \A s \in Threads :
        /\ pc[s] \in Places.post => "post" \in Ops
        /\ pc[s] \in Places.add => "add" \in Ops
        /\ pc[s] \in Places.post \cup Places.add => \A t \in Threads \ {s} : pc[t] = "idle"

\* A step of a request stays inside its call or ends it, and leaves the others where they are.
LEMMA StepPlaces ==
    ASSUME TypeInv, NEW s \in Threads, Step(s)
    PROVE  /\ pc[s] # "idle"
           /\ \/ \A t \in Threads : pc'[t] = "idle"
              \/ /\ \A t \in Threads \ {s} : pc'[t] = pc[t] /\ req'[t] = req[t]
                 /\ pc'[s] \in Places.post => pc[s] \in Places.post
                 /\ pc'[s] \in Places.add => pc[s] \in Places.add
<1> USE DEF TypeInv, TypeOK
<1>1. CASE Post(s)
  <2>1. CASE PostWrite(s) \/ PostObject(s)
    BY <2>1 DEF PostWrite, PostObject, Goto, Answer
  <2> QED BY <1>1, <2>1 DEF Post, PostCan, PostNextId, PostBatch, Goto, Answer
<1>2. CASE Put(s)
  BY <1>2 DEF Put, PutExists, PutCheck, PutCount, PutStage, PutWrite, PutCommit, PutPlain, Goto, Answer, Halt
<1>3. CASE Add(s)
  <2>1. /\ pc[s] \in Places.add
        /\ pc' = [pc EXCEPT ![s] = pc'[s]]
        /\ req' = [req EXCEPT ![s] = req'[s]]
        /\ pc'[s] \in Places.add \cup {"idle"}
    BY <1>3 DEF Add, AddCreate, AddDescr, AddCount, AddInstall, AddReset, AddCommit, AddPut, Goto, Answer
  <2> QED BY <2>1
<1>4. CASE Delete(s)
  <2>1. CASE DelList(s) \/ DelObjects(s)
    BY <2>1 DEF DelList, DelObjects, Goto
  <2> QED
    BY <1>4, <2>1
    DEF Delete, DelCheck, DelCounter, DelDescr, DelKey, DelCommit, DelErase, DelDrop, Goto, Answer, Halt
<1>5. CASE Get(s)
  BY <1>5 DEF Get, GetRoute, GetList, GetCheck, GetOpen, Goto, Answer, Halt
<1> QED BY <1>1, <1>2, <1>3, <1>4, <1>5 DEF Step

\* A call that begins is at its entry, and alone if it must be.
LEMMA SoloBegin ==
    ASSUME Calm, TypeInv, Solo, NEW s \in Threads, Begin(s)
    PROVE  /\ Solo'
           /\ \A t \in Threads \ {s} : pc'[t] = pc[t] /\ req'[t] = req[t]
           /\ \A t \in Threads \ {s} : pc[t] \notin Places.post \cup Places.add
           /\ pc'[s] \in {"post_can", "put_exists", "add_create", "del_check", "get_route"}
           /\ UNCHANGED <<db, up, handle, lock>>
<1>1. PICK o \in Ops, u \in Urls :
         /\ \A t \in Threads \ {s} : Compatible(o, t)
         /\ Goto(s, Entry[o])
         /\ req' = [req EXCEPT ![s] = [NoReq EXCEPT !.url = u, !.obj = calls + 1]]
  BY DEF Begin
<1>2. o \in AllOps
  BY WorkloadAssumption
<1>3. pc'[s] = Entry[o] /\ \A t \in Threads \ {s} : pc'[t] = pc[t] /\ req'[t] = req[t]
  BY <1>1 DEF Goto, TypeInv, TypeOK
<1>4. /\ Entry[o] \in {"post_can", "put_exists", "add_create", "del_check", "get_route"}
      /\ Entry[o] \in Places.post => o = "post"
      /\ Entry[o] \in Places.add => o = "add"
  BY <1>2 DEF Entry, AllOps
<1>5. \A t \in Threads \ {s} : pc[t] \notin Places.post \cup Places.add
  BY <1>1 DEF Compatible, Solo, Calm
<1>6. o \in {"post", "add"} => \A t \in Threads \ {s} : pc[t] = "idle"
  BY <1>1 DEF Compatible, Calm
<1> QED BY <1>3, <1>4, <1>5, <1>6 DEF Begin, Solo

\* Posts and registrations stay alone.
LEMMA SoloNext == ASSUME Calm, TypeInv, Solo, [Next]_vars PROVE Solo'
<1>1. ASSUME NEW s \in Threads, Step(s) PROVE Solo'
  BY <1>1, StepPlaces DEF Solo
<1>2. ASSUME NEW s \in Threads, Begin(s) PROVE Solo'
  BY <1>2, SoloBegin
<1>3. CASE MapRace \/ Crash
  BY <1>3 DEF MapRace, Crash, Halt, Solo
<1>4. CASE Restart \/ UNCHANGED vars
  BY <1>4 DEF Restart, vars, Solo
<1> QED BY <1>1, <1>2, <1>3, <1>4 DEF Next

-----------------------------------------------------------------------------
(* The records of an endpoint *)

\* A descriptor's lock is owned by a registration, or by a deletion about to commit.
DescrOwned ==
    \A u \in Urls, t \in Threads :
        lock[DescrKey(u)] = t => pc[t] \in Places.add \cup {"del_commit"}

\* What a request may count on: a post, that the counter is the one it read; a registration, that
\* its values are staged and its family is there; a deletion that has committed, that the url is
\* still no endpoint.
CalmAt(t) ==
    /\ pc[t] \in {"post_batch", "post_write", "post_object"} => req[t].id = counter[req[t].url]
    /\ pc[t] \in {"add_count", "add_install", "add_reset", "add_commit"} =>
         "descriptor" \in req[t].staged
    /\ pc[t] = "add_commit" => "counter" \in req[t].staged
    /\ pc[t] \in Places.add \ {"add_create"} => family[req[t].url] # 0
    /\ pc[t] \in {"del_erase", "del_drop"} => counter[req[t].url] = NoId

\* What holds of the locks and of the records in every state.
Base == TypeInv /\ LockInv /\ Solo
Locks == RecordsComeFree /\ DescrOwned
Records == DescribedIffCounted /\ CountedHasFamily /\ \A t \in Threads : CalmAt(t)

\* Who runs alone finds every key free, or its own.
LEMMA SoloLocks ==
    ASSUME Base, Locks, NEW s \in Threads, pc[s] \in Places.post \cup Places.add
    PROVE  \A k \in LockKeys : lock[k] \in {Free, s}
<1>1. \A t \in Threads \ {s} : pc[t] = "idle"
  BY DEF Base, Solo
<1>2. \A k \in LockKeys : lock[k] \in Threads \cup {Free, Orphan} /\ lock[k] # Orphan
  BY DEF Base, Locks, RecordsComeFree, TypeInv, TypeOK
<1>3. \A k \in LockKeys, t \in Threads : lock[k] = t => pc[t] # "idle"
  BY DEF Base, LockInv, Own
<1> QED BY <1>1, <1>2, <1>3

\* The locks after a step of the request s: as they were, or with one key taken by s, or without
\* those of s.
LEMMA LockSteps ==
    ASSUME Calm, Base, Locks, NEW s \in Threads, Step(s), ~Halt("died")
    PROVE  \/ /\ UNCHANGED lock
              /\ pc[s] \notin {"add_commit", "del_commit"}
           \/ /\ lock' = Released(s)
           \/ \E k \in LockKeys :
                /\ lock' = [lock EXCEPT ![k] = s]
                /\ pc'[s] \in Places.add \cup {"del_commit"} \/ (\A u \in Urls : k # DescrKey(u))
                /\ pc[s] \notin {"add_commit", "del_commit"}
<1> USE DEF Base, TypeInv, TypeOK
<1>0. pc[s] # "idle" /\ req[s].url \in Urls
  BY StepPlaces DEF UrlsNamed
<1>1. CASE Post(s)
  <2>1. CASE PostWrite(s)
    BY <1>0, <2>1, KeysDiffer DEF PostWrite, Take
  <2> QED BY <1>1, <2>1 DEF Post, PostCan, PostNextId, PostBatch, PostObject, memory
<1>2. CASE Put(s)
  <2>1. CASE PutCount(s)
    BY <1>0, <2>1, KeysDiffer DEF PutCount, Take
  <2> QED
    BY <1>2, <2>1 DEF Put, PutExists, PutCheck, PutStage, PutWrite, PutCommit, PutPlain, memory
<1>3. CASE Add(s)
  <2>1. ASSUME NEW k \in LockKeys, NEW w, AddPut(s, k, w)
        PROVE  lock' = [lock EXCEPT ![k] = s] \/ UNCHANGED lock
    BY <2>1 DEF AddPut, Take
  <2>2. CASE AddDescr(s)
    BY <1>0, <2>1, <2>2, KeysDiffer DEF AddDescr, Goto
  <2>3. CASE AddCount(s)
    BY <1>0, <2>1, <2>3, KeysDiffer DEF AddCount, Goto
  <2>4. CASE AddReset(s)
    BY <1>0, <2>1, <2>4, KeysDiffer DEF AddReset, Goto
  <2> QED
    BY <1>3, <2>2, <2>3, <2>4 DEF Add, AddCreate, AddInstall, AddCommit, memory
<1>4. CASE Delete(s)
  <2>1. ASSUME pc[s] = "del_counter", lock' = Abandoned(s) PROVE UNCHANGED lock
    <3>1. \A k \in LockKeys : lock[k] # s
      BY <2>1 DEF LockInv, Own
    <3> QED BY <2>1, <3>1 DEF Abandoned
  <2>2. ASSUME pc[s] = "del_descr" PROVE lock[DescrKey(req[s].url)] \in {Free, s}
    <3> DEFINE k == DescrKey(req[s].url)
    <3>1. k \in LockKeys /\ lock[k] \in Threads \cup {Free}
      BY <1>0, KeysDiffer DEF Locks, RecordsComeFree
    <3>2. ASSUME NEW t \in Threads \ {s}, lock[k] = t PROVE FALSE
      <4>1. pc[t] \in Places.add \cup {"del_commit"}
        BY <1>0, <3>2 DEF Locks, DescrOwned
      <4>2. pc[t] = "del_commit"
        BY <2>2, <4>1 DEF Solo
      <4>3. k \in {CountKey, CounterKey(req[t].url), DescrKey(req[t].url)} /\ req[t].url \in Urls
        BY <3>1, <3>2, <4>2 DEF LockInv, Own, UrlsNamed
      <4>4. req[t].url = req[s].url
        BY <1>0, <4>3, KeysDiffer
      <4> QED BY <2>2, <4>2, <4>4 DEF LockInv, Own
    <3> QED BY <3>1, <3>2
  <2>3. CASE DelCounter(s)
    BY <1>0, <2>1, <2>3, KeysDiffer DEF DelCounter, DelKey, Take
  <2>4. CASE DelDescr(s)
    <3>1. lock' = [lock EXCEPT ![DescrKey(req[s].url)] = s] /\ pc'[s] = "del_commit"
      BY <2>2, <2>4 DEF DelDescr, DelKey, LockOutcomes, Calm, Take, Goto
    <3>2. pc[s] = "del_descr" /\ DescrKey(req[s].url) \in LockKeys
      BY <1>0, <2>4, KeysDiffer DEF DelDescr
    <3> QED BY <3>1, <3>2
  <2> QED
    BY <1>4, <2>3, <2>4 DEF Delete, DelCheck, DelList, DelObjects, DelCommit, DelErase, DelDrop, memory
<1>5. CASE Get(s)
  BY <1>5 DEF Get, GetRoute, GetList, GetCheck, GetOpen, memory
<1> QED BY <1>1, <1>2, <1>3, <1>4, <1>5 DEF Step

\* No lock is orphaned, and the descriptors' locks stay where they belong.
LEMMA LocksNext == ASSUME Calm, Base, Locks, [Next]_vars PROVE Locks'
<1> USE DEF Base, TypeInv, TypeOK
<1>0. LockInv'
  BY LockNext
<1>1. ASSUME NEW s \in Threads, Step(s), ~Halt("died") PROVE Locks'
  <2>1. ASSUME NEW k \in LockKeys PROVE lock'[k] # Orphan
    BY <1>1, LockSteps, ThreadsAssumption DEF Locks, RecordsComeFree, Released
  <2>2. ASSUME NEW u \in Urls, NEW t \in Threads, lock'[DescrKey(u)] = t
        PROVE  pc'[t] \in Places.add \cup {"del_commit"}
    <3>1. DescrKey(u) \in LockKeys /\ t # Free
      BY KeysDiffer, ThreadsAssumption
    <3>2. pc'[t] # "idle"
      BY <1>0, <2>2, <3>1 DEF LockInv, Own
    <3>3. CASE t # s
      <4>1. lock[DescrKey(u)] = t
        BY <1>1, <2>2, <3>1, <3>3, LockSteps DEF Released
      <4> QED BY <1>1, <3>2, <3>3, <4>1, StepPlaces DEF Locks, DescrOwned
    <3>4. CASE t = s /\ lock[DescrKey(u)] = s /\ pc[s] \notin {"add_commit", "del_commit"}
      <4>1. pc[s] \in Places.add \ {"add_commit"}
        BY <3>4 DEF Locks, DescrOwned
      <4>2. Add(s)
        BY <1>1, <4>1 DEF Step, Post, PostCan, PostNextId, PostBatch, PostWrite, PostObject,
                 Put, PutExists, PutCheck, PutCount, PutStage, PutWrite, PutCommit, PutPlain,
                 Delete, DelCheck, DelList, DelObjects, DelCounter, DelDescr, DelCommit, DelErase, DelDrop,
                 Get, GetRoute, GetList, GetCheck, GetOpen
      <4> QED
        BY <3>4, <4>1, <4>2
        DEF Add, AddCreate, AddDescr, AddCount, AddInstall, AddReset, AddCommit, Goto
    <3>5. CASE t = s /\ lock' = Released(s)
      BY <2>2, <3>1, <3>5 DEF Released
    <3> QED BY <1>1, <2>2, <3>1, <3>3, <3>4, <3>5, LockSteps
  <2> QED BY <2>1, <2>2 DEF Locks, RecordsComeFree, DescrOwned
<1>2. ASSUME NEW s \in Threads, Begin(s) PROVE Locks'
  <2>1. ASSUME NEW u \in Urls, NEW t \in Threads, lock[DescrKey(u)] = t
        PROVE  pc'[t] \in Places.add \cup {"del_commit"}
    <3>1. pc[t] \in Places.add \cup {"del_commit"} /\ pc[s] = "idle"
      BY <1>2, <2>1 DEF Locks, DescrOwned, Begin
    <3> QED BY <1>2, <3>1, SoloBegin
  <2> QED BY <1>2, <2>1, SoloBegin DEF Locks, RecordsComeFree, DescrOwned
<1>3. ASSUME NEW why, Halt(why) PROVE Locks'
  <2>1. \A u \in Urls : DescrKey(u) \in LockKeys
    BY KeysDiffer
  <2> QED BY <1>3, <2>1, ThreadsAssumption DEF Halt, Locks, RecordsComeFree, DescrOwned
<1>4. CASE Restart \/ UNCHANGED vars
  BY <1>4 DEF Restart, vars, memory, Locks, RecordsComeFree, DescrOwned
<1> QED BY <1>1, <1>2, <1>3, <1>4 DEF Next, MapRace, Crash

\* With these the records of an endpoint never stay locked: a deletion that gets the counter gets
\* the descriptor, as nobody but a registration owns the one without the other.
THEOREM RecordsAreFreed == ASSUME Calm PROVE Spec => []RecordsComeFree
<1>1. Init => Solo /\ Locks
  <2>1. \A u \in Urls : DescrKey(u) \in LockKeys
    BY KeysDiffer
  <2> QED BY <2>1, ThreadsAssumption DEF Init, Solo, Locks, RecordsComeFree, DescrOwned
<1>2. TypeInv /\ LockInv /\ Solo /\ Locks /\ [Next]_vars => Solo' /\ Locks'
  BY SoloNext, LocksNext DEF Base
<1>3. Locks => RecordsComeFree
  BY DEF Locks
<1> QED BY <1>1, <1>2, <1>3, LocksHeld, PTL DEF Spec

\* The steps that write a counter, a descriptor or a family.
LEMMA RecordSteps ==
    ASSUME Base, NEW s \in Threads, Step(s)
    PROVE  \/ UNCHANGED <<counter, descr, family>>
           \/ /\ pc[s] \in {"post_write", "post_object", "put_commit"}
              /\ \E counted : StoreObject(s, counted)
           \/ AddCreate(s) \/ AddCommit(s) \/ DelCommit(s) \/ DelDrop(s)
<1>1. CASE Post(s)
  BY <1>1 DEF Post, PostCan, PostNextId, PostBatch, PostWrite, PostObject, db
<1>2. CASE Put(s)
  <2>1. CASE PutCommit(s)
    BY <2>1 DEF PutCommit, db
  <2> QED
    BY <1>2, <2>1 DEF Put, PutExists, PutCheck, PutCount, PutStage, PutWrite, PutPlain, Halt, db
<1>3. CASE Add(s)
  BY <1>3 DEF Add, AddDescr, AddCount, AddInstall, AddReset, db
<1>4. CASE Delete(s)
  BY <1>4 DEF Delete, DelCheck, DelList, DelObjects, DelCounter, DelDescr, DelKey, DelErase, db
<1>5. CASE Get(s)
  BY <1>5 DEF Get, GetRoute, GetList, GetCheck, GetOpen, Halt, db
<1> QED BY <1>1, <1>2, <1>3, <1>4, <1>5 DEF Step

\* Whoever stores an object stores it under the counter of an endpoint.
LEMMA StoresAtCounter ==
    ASSUME Base, Records, NEW s \in Threads,
           pc[s] \in {"post_write", "post_object", "put_write", "put_commit"}
    PROVE  /\ req[s].url \in Urls /\ req[s].id \in Nat
           /\ req[s].id = counter[req[s].url] /\ IsEndpoint(req[s].url)
<1>1. req[s].url \in Urls /\ req[s].id \in Nat
  BY DEF Base, TypeInv, UrlsNamed, IdsKnown, Writing
<1>2. req[s].id = counter[req[s].url]
  BY DEF Base, LockInv, Own, Records, CalmAt
<1> QED BY <1>1, <1>2 DEF IsEndpoint

\* Counter, descriptor and family after a step of a request; and a url that is no endpoint
\* remains none but for registrations.
LEMMA RecordsKept ==
    ASSUME Calm, Base, Locks, Records, NEW s \in Threads, Step(s)
    PROVE  /\ DescribedIffCounted'
           /\ CountedHasFamily'
           /\ pc[s] \notin Places.add => \A u \in Urls : counter[u] = NoId => counter'[u] = NoId
<1> USE DEF Base, TypeInv, TypeOK, IsEndpoint
<1>0. /\ \A u \in Urls : counter[u] # NoId <=> u \in descr
      /\ \A u \in Urls : counter[u] # NoId => family[u] # 0
      /\ req[s].url \in Urls
      /\ counter \in [Urls -> Ids] /\ family \in [Urls -> Nat] /\ descr \subseteq Urls
  BY StepPlaces DEF Records, DescribedIffCounted, CountedHasFamily, UrlsNamed
<1>1. CASE UNCHANGED <<counter, descr, family>>
  BY <1>0, <1>1 DEF DescribedIffCounted, CountedHasFamily
<1>2. CASE /\ pc[s] \in {"post_write", "post_object", "put_commit"}
           /\ \E counted : StoreObject(s, counted)
  <2>1. /\ req[s].id \in Nat /\ counter[req[s].url] # NoId
        /\ \/ UNCHANGED counter
           \/ counter' = [counter EXCEPT ![req[s].url] = req[s].id + 1]
        /\ UNCHANGED <<descr, family>>
    BY <1>2, StoresAtCounter DEF StoreObject
  <2>2. req[s].id + 1 # NoId
    BY <2>1
  <2> QED BY <1>0, <2>1, <2>2 DEF DescribedIffCounted, CountedHasFamily
<1>3. CASE AddCreate(s)
  <2>1. /\ pc[s] = "add_create"
        /\ UNCHANGED <<counter, descr>>
        /\ \A u \in Urls : family[u] # 0 => family'[u] # 0
    BY <1>0, <1>3 DEF AddCreate
  <2> QED BY <1>0, <2>1 DEF DescribedIffCounted, CountedHasFamily
<1>4. CASE AddCommit(s)
  <2>1. /\ pc[s] = "add_commit"
        /\ "counter" \in req[s].staged /\ "descriptor" \in req[s].staged
        /\ family[req[s].url] # 0
    BY <1>4 DEF AddCommit, Records, CalmAt
  <2>2. /\ counter' = [counter EXCEPT ![req[s].url] = 0]
        /\ descr' = descr \cup {req[s].url}
        /\ UNCHANGED family
    BY <1>4, <2>1 DEF AddCommit, Calm
  <2> QED BY <1>0, <2>1, <2>2 DEF DescribedIffCounted, CountedHasFamily
<1>5. CASE DelCommit(s)
  <2>1. /\ counter' = [counter EXCEPT ![req[s].url] = NoId]
        /\ descr' = descr \ {req[s].url}
        /\ UNCHANGED family
    BY <1>5 DEF DelCommit, Unregister, Calm
  <2> QED BY <1>0, <2>1 DEF DescribedIffCounted, CountedHasFamily
<1>6. CASE DelDrop(s)
  <2>1. /\ UNCHANGED <<counter, descr>>
        /\ family' = family \/ family' = [family EXCEPT ![req[s].url] = 0]
        /\ counter[req[s].url] = NoId
    BY <1>6 DEF DelDrop, Halt, db, Records, CalmAt
  <2> QED BY <1>0, <2>1 DEF DescribedIffCounted, CountedHasFamily
<1> QED BY <1>1, <1>2, <1>3, <1>4, <1>5, <1>6, RecordSteps

\* What a request itself may count on after its step.
LEMMA CalmSelf ==
    ASSUME Calm, Base, Locks, Records, NEW s \in Threads, Step(s), ~Halt("died")
    PROVE  CalmAt(s)'
<1> USE DEF Base, TypeInv, TypeOK
<1>0. CalmAt(s) /\ req[s].url \in Urls
  BY StepPlaces DEF Records, UrlsNamed
<1>1. CASE Post(s)
  <2>1. CASE PostNextId(s)
    <3>1. req'[s].id = counter[req[s].url] /\ req'[s].url = req[s].url
      BY <2>1 DEF PostNextId, Requests
    <3>2. pc'[s] = "post_batch" /\ UNCHANGED counter
      BY <2>1 DEF PostNextId, Goto, db
    <3> QED BY <3>1, <3>2 DEF CalmAt
  <2>2. CASE PostBatch(s)
    <3>1. \/ pc'[s] = "idle"
          \/ /\ req' = [req EXCEPT ![s].hdl = handle[req[s].url]]
             /\ pc[s] = "post_batch" /\ pc'[s] = "post_write" /\ UNCHANGED counter
      BY <2>2 DEF PostBatch, Goto, Answer, db
    <3>2. \/ pc'[s] = "idle"
          \/ /\ pc[s] = "post_batch" /\ pc'[s] = "post_write" /\ UNCHANGED counter
             /\ req'[s].id = req[s].id /\ req'[s].url = req[s].url
      BY <3>1 DEF Requests
    <3> QED BY <1>0, <3>2 DEF CalmAt
  <2>3. CASE PostCan(s) \/ PostWrite(s) \/ PostObject(s)
    BY <1>0, <2>3 DEF PostCan, PostWrite, PostObject, Goto, Answer, CalmAt, db
  <2> QED BY <1>1, <2>1, <2>2, <2>3 DEF Post
<1>2. CASE Put(s)
  BY <1>0, <1>2
  DEF Put, PutExists, PutCheck, PutCount, PutStage, PutWrite, PutCommit, PutPlain, Goto, Answer, CalmAt
<1>3. CASE Add(s)
  \* it runs alone, so that it gets each lock it asks for
  <2>1. ASSUME NEW k \in LockKeys, NEW w, AddPut(s, k, w)
        PROVE  /\ req'[s].staged = req[s].staged \cup {w}
               /\ req'[s].url = req[s].url
    <3>1. pc[s] \in Places.add
      BY <1>3 DEF Add, AddCreate, AddDescr, AddCount, AddInstall, AddReset, AddCommit
    <3>2. req' = [req EXCEPT ![s].staged = @ \cup {w}]
      BY <2>1, <3>1, SoloLocks DEF AddPut, LockOutcomes, Calm
    <3> QED BY <3>2 DEF Requests
  <2>2. {CounterKey(req[s].url), DescrKey(req[s].url), CountKey} \subseteq LockKeys
    BY <1>0, KeysDiffer
  <2>3. CASE AddCreate(s)
    BY <1>0, <2>3 DEF AddCreate, Calm, Goto, CalmAt, Requests
  <2>4. CASE AddDescr(s)
    BY <1>0, <2>1, <2>2, <2>4 DEF AddDescr, Goto, CalmAt, db
  <2>5. CASE AddCount(s)
    BY <1>0, <2>1, <2>2, <2>5 DEF AddCount, Goto, CalmAt, db
  <2>6. CASE AddReset(s)
    BY <1>0, <2>1, <2>2, <2>6 DEF AddReset, Goto, CalmAt, db
  <2>7. CASE AddInstall(s) \/ AddCommit(s)
    BY <1>0, <2>7 DEF AddInstall, AddCommit, Goto, Answer, CalmAt, db
  <2> QED BY <1>3, <2>3, <2>4, <2>5, <2>6, <2>7 DEF Add
<1>4. CASE Delete(s)
  <2>1. CASE DelCommit(s)
    BY <1>0, <2>1 DEF DelCommit, Unregister, Calm, Goto, CalmAt
  <2>2. CASE DelErase(s)
    BY <1>0, <2>2 DEF DelErase, Goto, CalmAt, Requests, db
  <2>3. CASE DelList(s) \/ DelObjects(s)
    BY <2>3 DEF DelList, DelObjects, Goto, CalmAt
  <2> QED
    BY <1>4, <2>1, <2>2, <2>3
    DEF Delete, DelCheck, DelCounter, DelDescr, DelKey, DelDrop, Goto, Answer, CalmAt
<1>5. CASE Get(s)
  BY <1>5 DEF Get, GetRoute, GetList, GetCheck, GetOpen, Goto, Answer, CalmAt
<1> QED BY <1>1, <1>2, <1>3, <1>4, <1>5 DEF Step

\* The records of every endpoint after any step.
LEMMA RecordsNext == ASSUME Calm, Base, Locks, Records, [Next]_vars PROVE Records'
<1>1. ASSUME NEW s \in Threads, Step(s), ~Halt("died") PROVE Records'
  <2>1. ASSUME NEW t \in Threads \ {s} PROVE CalmAt(t)'
    <3>1. pc[s] # "idle"
      BY <1>1, StepPlaces DEF Base
    <3>2. pc[t] \notin Places.post \cup Places.add
      BY <3>1 DEF Base, Solo
    <3>3. \/ pc'[t] = "idle"
          \/ pc'[t] = pc[t] /\ req'[t] = req[t]
      BY <1>1, StepPlaces DEF Base
    <3>4. pc[t] # "idle" => pc[s] \notin Places.add /\ req[t].url \in Urls
      BY DEF Base, Solo, TypeInv, UrlsNamed
    <3>5. CalmAt(t)
      BY DEF Records
    <3> QED BY <1>1, <3>2, <3>3, <3>4, <3>5, RecordsKept DEF CalmAt
  <2> QED BY <1>1, <2>1, RecordsKept, CalmSelf DEF Records
<1>2. ASSUME NEW s \in Threads, Begin(s) PROVE Records'
  <2>1. UNCHANGED <<counter, descr, family>>
    BY <1>2 DEF Begin, db
  <2>2. \A t \in Threads \ {s} : pc'[t] = pc[t] /\ req'[t] = req[t]
    BY <1>2, SoloBegin DEF Base
  <2>3. pc'[s] \in {"post_can", "put_exists", "add_create", "del_check", "get_route"}
    BY <1>2, SoloBegin DEF Base
  <2> QED
    BY <2>1, <2>2, <2>3 DEF Records, DescribedIffCounted, CountedHasFamily, CalmAt, IsEndpoint
<1>3. ASSUME NEW why, Halt(why) PROVE Records'
  BY <1>3 DEF Halt, db, Records, DescribedIffCounted, CountedHasFamily, CalmAt, IsEndpoint
<1>4. CASE Restart \/ UNCHANGED vars
  BY <1>4 DEF Restart, vars, db, Records, DescribedIffCounted, CountedHasFamily, CalmAt, IsEndpoint
<1> QED BY <1>1, <1>2, <1>3, <1>4 DEF Next, MapRace, Crash

\* Locks and records are as they should be in every state.
LEMMA RecordsHeld == ASSUME Calm PROVE Spec => [](Base /\ Locks /\ Records)
<1>1. Init => Solo /\ Locks /\ Records
  <2>1. \A u \in Urls : DescrKey(u) \in LockKeys
    BY KeysDiffer
  <2>2. Init => Solo /\ Locks
    BY <2>1, ThreadsAssumption DEF Init, Solo, Locks, RecordsComeFree, DescrOwned
  <2>3. Init => Records
    BY WorkloadAssumption DEF Init, Records, DescribedIffCounted, CountedHasFamily, CalmAt, IsEndpoint
  <2> QED BY <2>2, <2>3
<1>2. /\ TypeInv /\ LockInv /\ Solo /\ Locks /\ Records /\ [Next]_vars
      => Solo' /\ Locks' /\ Records'
  BY SoloNext, LocksNext, RecordsNext DEF Base
<1>3. TypeInv /\ LockInv /\ Solo => Base
  BY DEF Base
<1> QED BY <1>1, <1>2, <1>3, LocksHeld, PTL DEF Spec

\* Over any number of crashes the counter and the descriptor of a url are there together or
\* both away.
THEOREM RecordsComeTogether == ASSUME Calm PROVE Spec => []DescribedIffCounted
<1>1. Records => DescribedIffCounted
  BY DEF Records
<1> QED BY <1>1, RecordsHeld, PTL

\* An endpoint has a column family, wherever registrations and deletions were cut off.
THEOREM EndpointsHaveFamilies == ASSUME Calm PROVE Spec => []CountedHasFamily
<1>1. Records => CountedHasFamily
  BY DEF Records
<1> QED BY <1>1, RecordsHeld, PTL

=============================================================================
