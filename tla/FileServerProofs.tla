-------------------------- MODULE FileServerProofs --------------------------
(***************************************************************************)
(* Proofs about FileServer, for every pool, every length of the file and    *)
(* any number of pauses.                                                    *)
(***************************************************************************)
EXTENDS FileServer, SequenceTheorems, TLAPS

USE DEF outside

NoDone == \A i \in 1 .. Len(queue) : queue[i].kind # "done"

\* Where the one call of readFile or listFiles can be: waiting in the pool with nothing queued,
\* on one thread, or over except for its last lambda.  Until that has run, readFileScheduled_
\* is set; the lambdas of a call never outlast it.
OnePlace ==
    /\ tasks["readFile"] = 0 \/ tasks["listFiles"] = 0
    /\ \A f \in Tasks : tasks[f] > 0 =>
          /\ tasks[f] = 1
          /\ readFileScheduled
          /\ queue = <<>>
          /\ \A w \in Workers : ~Busy(w)
    /\ \A w \in Workers : Busy(w) =>
          /\ readFileScheduled
          /\ \A f \in Tasks : tasks[f] = 0
          /\ NoDone
          /\ \A v \in Workers : Busy(v) => v = w
    /\ \A i \in 1 .. Len(queue) : queue[i].kind = "done" => i = Len(queue)
    /\ queue # <<>> => readFileScheduled

\* What each place says of the request: reading is for files, with the file open, listing for
\* directories.
KindsAgree ==
    /\ \A w \in Workers :
          /\ worker[w] \in {"loop", "read", "post"} => kind = "file" /\ file
          /\ worker[w] = "notify" => kind = "file"
          /\ worker[w] = "list" => kind = "directory"
    /\ tasks["readFile"] > 0 => kind = "file" /\ file
    /\ tasks["listFiles"] > 0 => kind = "directory"
    /\ \A i \in 1 .. Len(queue) :
          kind = IF queue[i].kind = "listing" THEN "directory" ELSE "file"
    /\ kind = "directory" => readFileScheduled
    /\ file => kind \in {"file", "directory"}

\* The life of the handler.
Lifetime ==
    /\ handler = "new" =>
          kind = "unknown" /\ ~finished /\ downstream = "attached" /\ ~throttled
    /\ kind = "unknown" =>
          /\ ~readFileScheduled /\ ~file
          /\ offset = 0 /\ sent = <<>> /\ egress = "none"
    /\ handler = "deleted" => ~readFileScheduled /\ downstream = "gone"
    /\ finished => downstream = "gone" \/ kind = "directory"

\* The way of the chunks: those queued follow those sent, the one a thread holds follows those
\* queued, the position in the file is behind all of them; the end of the message, if queued,
\* is behind the last chunk, and nothing but the last lambda is behind an end.
ChunksInOrder ==
    /\ downstream = "attached" => \A i \in 1 .. Len(queue) :
          /\ queue[i].kind = "body" => queue[i].chunk = Len(sent) + i
          /\ queue[i].kind = "eom" => Len(sent) + i - 1 = Chunks
    /\ downstream = "attached" /\ kind = "file" /\ file =>
          /\ \A w \in Workers : worker[w] = "post" =>
                block[w] = offset /\ offset = Len(sent) + Len(queue) + 1
          /\ (\A w \in Workers : worker[w] # "post") /\ NoDone =>
                offset = Len(sent) + Len(queue)
          /\ ~NoDone => offset = Len(sent) + Len(queue) - 1
    /\ \A i \in 1 .. Len(queue) : queue[i].kind \in {"eom", "abort"} =>
          /\ ~file
          /\ \A j \in i + 1 .. Len(queue) : queue[j].kind = "done"
    /\ egress \in {"eom", "abort"} /\ kind = "file" =>
          /\ ~file
          /\ \A i \in 1 .. Len(queue) : queue[i].kind = "done"

HandlerInv == TypeOK /\ OnePlace /\ KindsAgree /\ Lifetime /\ ChunksInOrder

-----------------------------------------------------------------------------
(* The queue of lambdas *)

\* Queueing a lambda leaves the others in their places.
LEMMA QueueAppended ==
    ASSUME TypeOK, NEW k \in LambdaKinds, NEW c \in 0 .. Chunks, Enqueue(k, c)
    PROVE  /\ queue \in Seq(Lambdas) /\ queue' \in Seq(Lambdas)
           /\ queue' # <<>>
           /\ Len(queue) \in Nat
           /\ Len(queue') = Len(queue) + 1
           /\ \A i \in 1 .. Len(queue) : queue'[i] = queue[i]
           /\ queue'[Len(queue')].kind = k
           /\ queue'[Len(queue')].chunk = c
<1>1. queue \in Seq(Lambdas)
  BY DEF TypeOK
<1>2. Lambda(k, c) \in Lambdas /\ Lambda(k, c).kind = k /\ Lambda(k, c).chunk = c
  BY DEF Lambda, Lambdas
<1>3. Len(queue) \in Nat
  BY <1>1, LenProperties
<1>4. queue' = Append(queue, Lambda(k, c))
  BY DEF Enqueue
<1> HIDE DEF Lambdas
<1> QED BY <1>1, <1>2, <1>3, <1>4, AppendProperties

\* Running the first one moves the others up.
LEMMA QueuePopped ==
    ASSUME TypeOK, NEW k, Run(k)
    PROVE  /\ queue \in Seq(Lambdas) /\ queue' \in Seq(Lambdas)
           /\ Head(queue) = queue[1] /\ queue[1].kind = k
           /\ k \in LambdaKinds /\ queue[1].chunk \in 0 .. Chunks
           /\ Len(queue) \in Nat \ {0}
           /\ Len(queue') = Len(queue) - 1
           /\ \A i \in 1 .. Len(queue') : queue'[i] = queue[i + 1]
           /\ queue' # <<>> => Len(queue) > 1
<1>1. queue \in Seq(Lambdas) /\ queue # <<>>
  BY DEF TypeOK, Run
<1>2. queue' = Tail(queue) /\ Head(queue).kind = k
  BY DEF Run
<1>3. Len(queue) \in Nat \ {0}
  BY <1>1, LenProperties, EmptySeq
<1>4. Head(queue) = queue[1]
  BY <1>1
<1>5. Head(queue) \in Lambdas
  BY <1>1, HeadTailProperties
<1>6. k \in LambdaKinds /\ queue[1].chunk \in 0 .. Chunks
  BY <1>2, <1>4, <1>5 DEF Lambdas
<1>7. /\ queue' \in Seq(Lambdas)
      /\ Len(queue') = Len(queue) - 1
      /\ \A i \in 1 .. Len(queue') : queue'[i] = queue[i + 1]
  BY <1>1, <1>2, HeadTailProperties
<1>8. queue' # <<>> => Len(queue) > 1
  BY <1>3, <1>7, EmptySeq, LenProperties
<1> QED BY <1>1, <1>2, <1>3, <1>4, <1>6, <1>7, <1>8

-----------------------------------------------------------------------------
(* Types *)

\* The types hold at the start.
LEMMA TypeInit == Init => TypeOK
<1> SUFFICES ASSUME Init PROVE TypeOK
  OBVIOUS
<1>1. offset \in 0 .. Chunks /\ block \in [Workers -> 0 .. Chunks] /\ pauses \in Nat
  BY ChunksAssumption DEF Init
<1>2. tasks \in [Tasks -> Nat]
  BY DEF Init
<1>3. queue \in Seq(Lambdas) /\ sent \in Seq(0 .. Chunks)
  BY EmptySeq DEF Init
<1> QED BY <1>1, <1>2, <1>3 DEF Init, TypeOK, Places

\* Adding a call to the pool is a change of one number.
LEMMA TaskAdded ==
    ASSUME TypeOK, NEW f \in Tasks, AddTask(f)
    PROVE  /\ tasks' \in [Tasks -> Nat]
           /\ tasks'[f] = tasks[f] + 1
           /\ \A g \in Tasks \ {f} : tasks'[g] = tasks[g]
BY DEF TypeOK, AddTask

\* What a resumption does to the flags and the pool.
LEMMA Resumed ==
    ASSUME TypeOK, NEW s \in BOOLEAN, Resume(s)
    PROVE  /\ paused' = FALSE
           /\ readFileScheduled' \in BOOLEAN /\ readFileScheduled' = (s \/ file)
           /\ tasks' \in [Tasks -> Nat]
           /\ \/ (s \/ ~file) /\ tasks' = tasks
              \/ /\ ~s /\ file
                 /\ tasks'["readFile"] = tasks["readFile"] + 1
                 /\ tasks'["listFiles"] = tasks["listFiles"]
<1>1. "readFile" \in Tasks /\ "listFiles" \in Tasks \ {"readFile"}
  BY DEF Tasks
<1>2. tasks \in [Tasks -> Nat] /\ file \in BOOLEAN
  BY DEF TypeOK
<1>3. CASE ~s /\ file
  BY <1>1, <1>2, <1>3, TaskAdded DEF Resume
<1>4. CASE s \/ ~file
  BY <1>2, <1>4 DEF Resume
<1> QED BY <1>2, <1>3, <1>4

\* The types after any step.
LEMMA TypeNext == TypeOK /\ [Next]_vars => TypeOK'
<1> SUFFICES ASSUME TypeOK, [Next]_vars PROVE TypeOK'
  OBVIOUS
<1> USE DEF flags, pool, peer, response
<1>0. 0 \in 0 .. Chunks /\ {"body", "eom", "abort", "listing", "done"} \subseteq LambdaKinds
  BY ChunksAssumption DEF LambdaKinds
<1>1. CASE UNCHANGED vars
  BY <1>1 DEF vars, TypeOK
<1>2. CASE OnRequest
  <2>1. PICK k \in Kinds :
          /\ kind' = k
          /\ process' = IF k = "undecodable" THEN "died" ELSE "up"
          /\ egress' = Opening[k]
          /\ file' = (k \in DOMAIN TaskOf)
          /\ readFileScheduled' = (k \in DOMAIN TaskOf)
          /\ IF k \in DOMAIN TaskOf THEN AddTask(TaskOf[k]) ELSE UNCHANGED tasks
    BY <1>2 DEF OnRequest
  <2>2. k \in AllKinds
    BY KindsAssumption
  <2>3. Opening[k] \in {"none", "open", "eom", "abort"}
    BY <2>2 DEF Opening, AllKinds
  <2>4. tasks' \in [Tasks -> Nat]
    <3>1. k \in DOMAIN TaskOf => TaskOf[k] \in Tasks
      BY DEF TaskOf, Tasks
    <3> QED BY <2>1, <3>1, TaskAdded DEF TypeOK
  <2> QED BY <1>2, <2>1, <2>2, <2>3, <2>4 DEF OnRequest, TypeOK
<1>3. CASE OnEgressPaused
  BY <1>3 DEF OnEgressPaused, TypeOK
<1>4. CASE OnEgressResumed
  <2>1. readFileScheduled \in BOOLEAN
    BY DEF TypeOK
  <2> QED BY <1>4, <2>1, Resumed DEF OnEgressResumed, TypeOK
<1>5. CASE Detach
  BY <1>5 DEF Detach, CheckForCompletion, TypeOK
<1>6. ASSUME NEW w \in Workers, Work(w) PROVE TypeOK'
  <2>1. CASE Dispatch(w)
    BY <2>1 DEF Dispatch, TypeOK, Places
  <2>2. CASE ReadLoop(w)
    BY <2>2 DEF ReadLoop, TypeOK, Places
  <2>3. ASSUME NEW k \in {"eom", "abort"}, ReadEnd(w, k), ReadBlock(w) PROVE TypeOK'
    <3>1. queue' \in Seq(Lambdas)
      BY <2>3, <1>0, QueueAppended DEF ReadEnd
    <3> QED BY <2>3, <3>1 DEF ReadBlock, ReadEnd, TypeOK, Places
  <2>4. CASE ReadBlock(w) /\ offset < Chunks /\ ReadChunk(w)
    BY <2>4, ChunksAssumption DEF ReadBlock, ReadChunk, TypeOK, Places
  <2>5. CASE ReadBlock(w)
    BY <2>3, <2>4, <2>5 DEF ReadBlock, ReadNext
  <2>6. CASE PostBlock(w)
    <3>1. block[w] \in 0 .. Chunks
      BY DEF TypeOK
    <3>2. queue' \in Seq(Lambdas)
      BY <2>6, <3>1, <1>0, QueueAppended DEF PostBlock
    <3> QED BY <2>6, <3>2 DEF PostBlock, TypeOK, Places
  <2>7. CASE Notify(w)
    <3>1. queue' \in Seq(Lambdas)
      BY <2>7, <1>0, QueueAppended DEF Notify
    <3> QED BY <2>7, <3>1 DEF Notify, TypeOK, Places
  <2>8. CASE List(w)
    <3>1. queue' \in Seq(Lambdas)
      BY <2>8, <1>0, QueueAppended DEF List, TypeOK
    <3> QED BY <2>8, <3>1 DEF List, TypeOK, Places
  <2> QED BY <1>6, <2>1, <2>2, <2>5, <2>6, <2>7, <2>8 DEF Work
<1>7. CASE RunLambda
  <2>1. ASSUME NEW k, Run(k)
        PROVE  /\ queue' \in Seq(Lambdas)
               /\ Head(queue).chunk \in 0 .. Chunks
    BY <2>1, QueuePopped DEF Lambdas
  <2>2. Touch => process' \in {"up", "died"}
    BY DEF Touch
  <2>3. CASE RunBody
    <3>1. sent' \in Seq(0 .. Chunks)
      <4>1. sent \in Seq(0 .. Chunks) /\ Head(queue).chunk \in 0 .. Chunks
        BY <2>1, <2>3 DEF TypeOK, RunBody
      <4> QED BY <2>3, <4>1, AppendProperties DEF RunBody
    <3> QED BY <2>1, <2>2, <2>3, <3>1 DEF RunBody, TypeOK
  <2>4. ASSUME NEW k \in {"eom", "abort"}, RunEnd(k) PROVE TypeOK'
    BY <2>1, <2>2, <2>4 DEF RunEnd, TypeOK
  <2>5. CASE RunListing
    BY <2>1, <2>2, <2>5 DEF RunListing, TypeOK
  <2>6. CASE RunDone
    <3>1. /\ tasks' \in [Tasks -> Nat]
          /\ readFileScheduled' \in BOOLEAN
          /\ paused' \in BOOLEAN
      BY <2>6, Resumed DEF RunDone, TypeOK
    <3> QED BY <2>1, <2>6, <3>1 DEF RunDone, CheckForCompletion, TypeOK
  <2> QED BY <1>7, <2>3, <2>4, <2>5, <2>6 DEF RunLambda
<1> QED BY <1>1, <1>2, <1>3, <1>4, <1>5, <1>6, <1>7
      DEF Next, Callback, Pool, Loop, RequestComplete, OnError

\* Every variable of the handler keeps its type.
THEOREM FileTypeCorrect == Spec => []TypeOK
BY TypeInit, TypeNext, PTL DEF Spec

-----------------------------------------------------------------------------
(* One call of readFile at a time *)

ControlInv == TypeOK /\ OnePlace /\ KindsAgree /\ Lifetime

\* The two functions that run on the pool.
LEMMA TaskNames == "readFile" \in Tasks /\ "listFiles" \in Tasks /\ Tasks = {"readFile", "listFiles"}
BY DEF Tasks

\* Nothing runs at the start.
LEMMA ControlInit == Init => ControlInv
<1> SUFFICES ASSUME Init PROVE ControlInv
  OBVIOUS
<1>1. Len(queue) = 0
  BY EmptySeq DEF Init
<1>2. OnePlace
  BY <1>1, TaskNames DEF Init, OnePlace, Busy
<1>3. KindsAgree
  BY <1>1, TaskNames DEF Init, KindsAgree
<1>4. Lifetime
  BY DEF Init, Lifetime
<1> QED BY <1>2, <1>3, <1>4, TypeInit DEF ControlInv

\* onRequest gives the pool its first call.
LEMMA ControlOnRequest ==
    ASSUME ControlInv, OnRequest
    PROVE  OnePlace' /\ KindsAgree' /\ Lifetime'
<1> USE DEF ControlInv
<1>1. PICK k \in Kinds :
        /\ kind' = k
        /\ egress' = Opening[k]
        /\ file' = (k \in DOMAIN TaskOf)
        /\ readFileScheduled' = (k \in DOMAIN TaskOf)
        /\ IF k \in DOMAIN TaskOf THEN AddTask(TaskOf[k]) ELSE UNCHANGED tasks
  BY DEF OnRequest
<1>2. /\ kind = "unknown" /\ ~finished /\ downstream = "attached"
      /\ ~readFileScheduled
  BY DEF OnRequest, Lifetime
<1>3. queue = <<>> /\ Len(queue) = 0
  BY <1>2, EmptySeq DEF OnePlace
<1>4. \A f \in Tasks : tasks[f] = 0
  BY <1>2 DEF OnePlace, TypeOK
<1>5. \A w \in Workers : ~Busy(w)
  BY <1>2 DEF OnePlace
<1>6. UNCHANGED <<finished, worker, queue, downstream>> /\ handler' = "serving"
  BY DEF OnRequest
<1>7. k \in AllKinds /\ k # "unknown"
  BY KindsAssumption DEF AllKinds
<1>8. /\ k = "file" => file' /\ readFileScheduled' /\ AddTask("readFile")
      /\ k = "directory" => file' /\ readFileScheduled' /\ AddTask("listFiles")
      /\ k \notin {"file", "directory"} => ~file' /\ ~readFileScheduled' /\ UNCHANGED tasks
  <2>1. /\ DOMAIN TaskOf = {"file", "directory"}
        /\ TaskOf["file"] = "readFile" /\ TaskOf["directory"] = "listFiles"
    BY DEF TaskOf
  <2> QED BY <1>1, <2>1
<1>9. /\ tasks'["readFile"] = IF k = "file" THEN 1 ELSE 0
      /\ tasks'["listFiles"] = IF k = "directory" THEN 1 ELSE 0
  <2>1. CASE k = "file"
    BY <2>1, <1>4, <1>8, TaskNames, TaskAdded
  <2>2. CASE k = "directory"
    BY <2>2, <1>4, <1>8, TaskNames, TaskAdded
  <2>3. CASE k \notin {"file", "directory"}
    BY <2>3, <1>4, <1>8, TaskNames
  <2> QED BY <2>1, <2>2, <2>3
<1>10. OnePlace'
  BY <1>3, <1>5, <1>6, <1>8, <1>9, TaskNames DEF OnePlace, Busy
<1>11. KindsAgree'
  BY <1>1, <1>3, <1>5, <1>6, <1>7, <1>8, <1>9 DEF KindsAgree, Busy
<1>12. Lifetime'
  BY <1>1, <1>2, <1>6, <1>7 DEF Lifetime
<1> QED BY <1>10, <1>11, <1>12

\* Pausing is about flags only.
LEMMA ControlPaused ==
    ASSUME ControlInv, OnEgressPaused
    PROVE  OnePlace' /\ KindsAgree' /\ Lifetime'
<1>1. UNCHANGED <<kind, handler, finished, readFileScheduled, file, offset, pool, queue,
                  downstream, response>> /\ handler = "serving"
  BY DEF OnEgressPaused
<1> QED BY <1>1 DEF ControlInv, OnePlace, KindsAgree, Lifetime, NoDone, Busy, pool, response

\* A resumption adds a call only if there is none.
LEMMA ControlResumed ==
    ASSUME ControlInv, OnEgressResumed
    PROVE  OnePlace' /\ KindsAgree' /\ Lifetime'
<1> USE DEF ControlInv
<1>1. /\ UNCHANGED <<kind, handler, finished, file, offset, worker, queue, downstream, sent, egress>>
      /\ Resume(readFileScheduled) /\ throttled /\ downstream = "attached"
  BY DEF OnEgressResumed, response
<1>2. readFileScheduled \in BOOLEAN /\ file \in BOOLEAN
  BY DEF TypeOK
<1>3. CASE readFileScheduled \/ ~file
  <2>1. tasks' = tasks /\ readFileScheduled' = readFileScheduled
    BY <1>1, <1>2, <1>3, Resumed
  <2> QED BY <1>1, <2>1 DEF OnePlace, KindsAgree, Lifetime, NoDone, Busy
<1>4. CASE ~readFileScheduled /\ file
  <2>1. /\ readFileScheduled'
        /\ tasks'["readFile"] = tasks["readFile"] + 1
        /\ tasks'["listFiles"] = tasks["listFiles"]
    BY <1>1, <1>2, <1>4, Resumed
  <2>2. /\ queue = <<>> /\ Len(queue) = 0
        /\ tasks["readFile"] = 0 /\ tasks["listFiles"] = 0
        /\ \A w \in Workers : ~Busy(w)
    BY <1>4, EmptySeq, TaskNames DEF OnePlace, TypeOK
  <2>3. kind = "file"
    BY <1>4 DEF KindsAgree
  <2>4. OnePlace'
    BY <1>1, <2>1, <2>2, TaskNames DEF OnePlace, Busy
  <2>5. KindsAgree'
    BY <1>1, <1>4, <2>1, <2>2, <2>3 DEF KindsAgree, Busy
  <2>6. Lifetime'
    BY <1>1, <1>4, <2>3 DEF Lifetime
  <2> QED BY <2>4, <2>5, <2>6
<1> QED BY <1>3, <1>4

\* The last callback deletes the handler only if no call is left.
LEMMA ControlDetach ==
    ASSUME ControlInv, Detach
    PROVE  OnePlace' /\ KindsAgree' /\ Lifetime'
<1>1. /\ UNCHANGED <<kind, readFileScheduled, file, offset, pool, queue, response>>
      /\ downstream' = "gone"
      /\ handler' = IF finished' /\ ~readFileScheduled' THEN "deleted" ELSE handler
      /\ finished'
  BY DEF Detach, CheckForCompletion
<1>2. handler = "new" => ~readFileScheduled
  BY DEF ControlInv, Lifetime
<1> QED BY <1>1, <1>2 DEF ControlInv, OnePlace, KindsAgree, Lifetime, NoDone, Busy, pool, response

-----------------------------------------------------------------------------
(* The steps of the pool *)

\* A thread that takes the one call is the only one to run any.
LEMMA ControlDispatch ==
    ASSUME ControlInv, NEW w \in Workers, Dispatch(w)
    PROVE  OnePlace' /\ KindsAgree' /\ Lifetime'
<1> USE DEF ControlInv
<1>1. PICK f \in Tasks :
        /\ tasks[f] > 0
        /\ tasks' = [tasks EXCEPT ![f] = @ - 1]
        /\ worker' = [worker EXCEPT ![w] = IF f = "readFile" THEN "loop" ELSE "list"]
  BY DEF Dispatch
<1>2. UNCHANGED <<kind, handler, finished, readFileScheduled, file, offset, queue, downstream,
                  throttled, sent, egress>>
  BY DEF Dispatch, flags, peer, response
<1>3. /\ tasks[f] = 1 /\ readFileScheduled /\ queue = <<>> /\ Len(queue) = 0
      /\ \A v \in Workers : ~Busy(v)
  BY <1>1, EmptySeq DEF OnePlace
<1>4. \A g \in Tasks : tasks'[g] = 0
  BY <1>1, <1>3, TaskNames DEF OnePlace, TypeOK
<1>5. /\ worker'[w] = IF f = "readFile" THEN "loop" ELSE "list"
      /\ \A v \in Workers \ {w} : worker'[v] = "idle"
  BY <1>1, <1>3 DEF TypeOK, Busy
<1>6. f = "readFile" => kind = "file" /\ file
  BY <1>1 DEF KindsAgree
<1>7. f # "readFile" => kind = "directory"
  BY <1>1, TaskNames DEF KindsAgree
<1>8. OnePlace'
  BY <1>2, <1>3, <1>4, <1>5, TaskNames DEF OnePlace, Busy, NoDone
<1>9. KindsAgree'
  BY <1>2, <1>3, <1>4, <1>5, <1>6, <1>7, TaskNames DEF KindsAgree
<1>10. Lifetime'
  BY <1>2 DEF Lifetime
<1> QED BY <1>8, <1>9, <1>10

\* A busy thread that stays busy, or gets idle, with the queue as it was or one lambda longer,
\* keeps everything in one place.
LEMMA ControlBusy ==
    ASSUME ControlInv, NEW w \in Workers, Busy(w), NEW l \in Places,
           worker' = [worker EXCEPT ![w] = l],
           UNCHANGED <<readFileScheduled, tasks>>,
           \/ UNCHANGED queue
           \/ \E k \in LambdaKinds, c \in 0 .. Chunks :
                 Enqueue(k, c) /\ (k = "done" => l = "idle")
    PROVE  OnePlace'
<1> USE DEF ControlInv
<1>1. /\ readFileScheduled /\ (\A f \in Tasks : tasks[f] = 0) /\ NoDone
      /\ \A v \in Workers : Busy(v) => v = w
  BY DEF OnePlace
<1>2. worker'[w] = l /\ \A v \in Workers \ {w} : ~Busy(v)'
  BY <1>1 DEF TypeOK, Busy
<1>3. CASE UNCHANGED queue
  BY <1>1, <1>2, <1>3, TaskNames DEF OnePlace, Busy, NoDone
<1>4. CASE \E k \in LambdaKinds, c \in 0 .. Chunks :
             Enqueue(k, c) /\ (k = "done" => l = "idle")
  <2>1. PICK k \in LambdaKinds, c \in 0 .. Chunks :
          Enqueue(k, c) /\ (k = "done" => l = "idle")
    BY <1>4
  <2>2. /\ Len(queue) \in Nat /\ Len(queue') = Len(queue) + 1
        /\ \A i \in 1 .. Len(queue) : queue'[i] = queue[i]
        /\ queue'[Len(queue')].kind = k
    BY <2>1, QueueAppended
  <2>3. \A i \in 1 .. Len(queue') : queue'[i].kind = "done" => i = Len(queue') /\ k = "done"
    BY <1>1, <2>2 DEF NoDone
  <2> QED BY <1>1, <1>2, <2>1, <2>3, TaskNames DEF OnePlace, Busy, NoDone
<1> QED BY <1>3, <1>4

\* What the kind of a lambda says of the request goes for the one that is queued.
LEMMA KindsAppended ==
    ASSUME TypeOK, KindsAgree, UNCHANGED kind,
           \/ UNCHANGED queue
           \/ \E k \in LambdaKinds, c \in 0 .. Chunks :
                 Enqueue(k, c) /\ kind = IF k = "listing" THEN "directory" ELSE "file"
    PROVE  \A i \in 1 .. Len(queue') :
              kind' = IF queue'[i].kind = "listing" THEN "directory" ELSE "file"
<1>1. CASE UNCHANGED queue
  BY <1>1 DEF KindsAgree
<1>2. CASE \E k \in LambdaKinds, c \in 0 .. Chunks :
             Enqueue(k, c) /\ kind = IF k = "listing" THEN "directory" ELSE "file"
  <2>1. PICK k \in LambdaKinds, c \in 0 .. Chunks :
          Enqueue(k, c) /\ kind = IF k = "listing" THEN "directory" ELSE "file"
    BY <1>2
  <2>2. /\ Len(queue) \in Nat /\ Len(queue') = Len(queue) + 1
        /\ \A i \in 1 .. Len(queue) : queue'[i] = queue[i]
        /\ queue'[Len(queue')].kind = k
    BY <2>1, QueueAppended
  <2> QED BY <2>1, <2>2 DEF KindsAgree
<1> QED BY <1>1, <1>2

\* Every step of readFile and listFiles keeps the call in one place.
LEMMA ControlWork ==
    ASSUME ControlInv, NEW w \in Workers, Work(w)
    PROVE  OnePlace' /\ KindsAgree' /\ Lifetime'
<1> USE DEF ControlInv
<1>0. 0 \in 0 .. Chunks /\ {"body", "eom", "abort", "listing", "done"} \subseteq LambdaKinds
  BY ChunksAssumption DEF LambdaKinds
<1>1. CASE Dispatch(w)
  BY <1>1, ControlDispatch
<1>2. CASE ~Dispatch(w)
  <2>1. Busy(w)
    BY <1>2 DEF Work, ReadLoop, ReadBlock, PostBlock, Notify, List, Busy
  <2>2. UNCHANGED <<kind, handler, finished, readFileScheduled, tasks, downstream, throttled,
                    sent, egress>>
    BY <1>2 DEF Work, ReadLoop, ReadBlock, PostBlock, Notify, List, flags, peer, response
  <2>3. \A v \in Workers \ {w} : worker[v] = "idle"
    BY <2>1 DEF OnePlace, Busy
  <2>4. \A f \in Tasks : tasks[f] = 0
    BY <2>1 DEF OnePlace
  <2>5. CASE ReadLoop(w)
    <3>1. UNCHANGED <<queue, file, offset>> /\ worker[w] = "loop"
          /\ worker' = [worker EXCEPT ![w] = IF file /\ ~paused THEN "read" ELSE "notify"]
      BY <2>5 DEF ReadLoop
    <3>2. kind = "file" /\ file
      BY <3>1 DEF KindsAgree
    <3>3. worker'[w] \in {"read", "notify"} /\ \A v \in Workers \ {w} : worker'[v] = "idle"
      BY <2>3, <3>1 DEF TypeOK
    <3>4. OnePlace'
      BY <2>1, <2>2, <3>1, ControlBusy DEF Places
    <3>5. KindsAgree'
      BY <2>2, <2>4, <3>1, <3>2, <3>3 DEF KindsAgree
    <3> QED BY <2>2, <3>1, <3>4, <3>5 DEF Lifetime
  <2>6. CASE ReadBlock(w)
    <3>1. worker[w] = "read" /\ kind = "file" /\ file
      BY <2>6 DEF ReadBlock, KindsAgree
    <3>2. ASSUME NEW k \in {"eom", "abort"}, ReadEnd(w, k)
          PROVE  OnePlace' /\ KindsAgree' /\ Lifetime'
      <4>1. worker' = [worker EXCEPT ![w] = "notify"] /\ Enqueue(k, 0) /\ ~file'
            /\ UNCHANGED offset
        BY <3>2 DEF ReadEnd
      <4>2. worker'[w] = "notify" /\ \A v \in Workers \ {w} : worker'[v] = "idle"
        BY <2>3, <4>1 DEF TypeOK
      <4>3. OnePlace'
        BY <1>0, <2>1, <2>2, <4>1, ControlBusy DEF Places
      <4>4. \A i \in 1 .. Len(queue') :
              kind' = IF queue'[i].kind = "listing" THEN "directory" ELSE "file"
        BY <1>0, <2>2, <3>1, <4>1, KindsAppended
      <4>5. KindsAgree'
        BY <2>2, <2>4, <3>1, <4>1, <4>2, <4>4, TaskNames DEF KindsAgree
      <4> QED BY <2>2, <3>1, <4>1, <4>3, <4>5 DEF Lifetime
    <3>3. ASSUME ReadChunk(w) PROVE OnePlace' /\ KindsAgree' /\ Lifetime'
      <4>1. worker' = [worker EXCEPT ![w] = "post"] /\ UNCHANGED <<file, queue>>
        BY <3>3 DEF ReadChunk
      <4>2. worker'[w] = "post" /\ \A v \in Workers \ {w} : worker'[v] = "idle"
        BY <2>3, <4>1 DEF TypeOK
      <4>3. OnePlace'
        BY <2>1, <2>2, <4>1, ControlBusy DEF Places
      <4>4. KindsAgree'
        BY <2>2, <2>4, <3>1, <4>1, <4>2, TaskNames DEF KindsAgree
      <4> QED BY <2>2, <3>1, <4>3, <4>4 DEF Lifetime
    <3> QED BY <2>6, <3>2, <3>3 DEF ReadBlock, ReadNext
  <2>7. CASE PostBlock(w)
    <3>1. worker[w] = "post" /\ kind = "file" /\ file
      BY <2>7 DEF PostBlock, KindsAgree
    <3>2. /\ worker' = [worker EXCEPT ![w] = "loop"] /\ Enqueue("body", block[w])
          /\ UNCHANGED <<file, offset>> /\ block[w] \in 0 .. Chunks
      BY <2>7 DEF PostBlock, TypeOK
    <3>3. worker'[w] = "loop" /\ \A v \in Workers \ {w} : worker'[v] = "idle"
      BY <2>3, <3>2 DEF TypeOK
    <3>4. OnePlace'
      BY <1>0, <2>1, <2>2, <3>2, ControlBusy DEF Places
    <3>5. \A i \in 1 .. Len(queue') :
            kind' = IF queue'[i].kind = "listing" THEN "directory" ELSE "file"
      BY <1>0, <2>2, <3>1, <3>2, KindsAppended
    <3>6. KindsAgree'
      BY <2>2, <2>4, <3>1, <3>2, <3>3, <3>5, TaskNames DEF KindsAgree
    <3> QED BY <2>2, <3>2, <3>4, <3>6 DEF Lifetime
  <2>8. CASE Notify(w)
    <3>1. worker[w] = "notify" /\ kind = "file"
      BY <2>8 DEF Notify, KindsAgree
    <3>2. /\ worker' = [worker EXCEPT ![w] = "idle"] /\ Enqueue("done", 0)
          /\ UNCHANGED <<file, offset>>
      BY <2>8 DEF Notify
    <3>3. \A v \in Workers : worker'[v] = "idle"
      BY <2>3, <3>2 DEF TypeOK
    <3>4. OnePlace'
      BY <1>0, <2>1, <2>2, <3>2, ControlBusy DEF Places
    <3>5. \A i \in 1 .. Len(queue') :
            kind' = IF queue'[i].kind = "listing" THEN "directory" ELSE "file"
      BY <1>0, <2>2, <3>1, <3>2, KindsAppended
    <3>6. KindsAgree'
      BY <2>2, <2>4, <3>1, <3>2, <3>3, <3>5, TaskNames DEF KindsAgree
    <3> QED BY <2>2, <3>2, <3>4, <3>6 DEF Lifetime
  <2>9. CASE List(w)
    <3>1. worker[w] = "list" /\ kind = "directory"
      BY <2>9 DEF List, KindsAgree
    <3>2. /\ worker' = [worker EXCEPT ![w] = "idle"] /\ (Enqueue("listing", 0) \/ UNCHANGED queue)
          /\ UNCHANGED <<file, offset>>
      BY <2>9 DEF List
    <3>3. \A v \in Workers : worker'[v] = "idle"
      BY <2>3, <3>2 DEF TypeOK
    <3>4. OnePlace'
      BY <1>0, <2>1, <2>2, <3>2, ControlBusy DEF Places
    <3>5. \A i \in 1 .. Len(queue') :
            kind' = IF queue'[i].kind = "listing" THEN "directory" ELSE "file"
      BY <1>0, <2>2, <3>1, <3>2, KindsAppended
    <3>6. KindsAgree'
      BY <2>2, <2>4, <3>1, <3>2, <3>3, <3>5, TaskNames DEF KindsAgree
    <3> QED BY <2>2, <3>2, <3>4, <3>6 DEF Lifetime
  <2> QED BY <1>2, <2>5, <2>6, <2>7, <2>8, <2>9 DEF Work
<1> QED BY <1>1, <1>2

-----------------------------------------------------------------------------
(* The steps of the event base *)

\* Running a lambda other than the last one of readFile moves nothing.
LEMMA ControlLambda ==
    ASSUME ControlInv, NEW k \in LambdaKinds \ {"done"}, Run(k),
           UNCHANGED <<kind, handler, readFileScheduled, file, tasks, worker>>
    PROVE  OnePlace' /\ KindsAgree'
<1> USE DEF ControlInv
<1>1. /\ Len(queue) \in Nat \ {0} /\ Len(queue') = Len(queue) - 1
      /\ \A i \in 1 .. Len(queue') : queue'[i] = queue[i + 1]
      /\ queue # <<>>
  BY QueuePopped DEF Run
<1>2. \A f \in Tasks : tasks[f] = 0
  BY <1>1 DEF OnePlace, TypeOK
<1>3. readFileScheduled
  BY <1>1 DEF OnePlace
<1>4. NoDone => NoDone'
  BY <1>1 DEF NoDone
<1>5. OnePlace'
  BY <1>1, <1>2, <1>3, <1>4, TaskNames DEF OnePlace, Busy
<1>6. KindsAgree'
  BY <1>1 DEF KindsAgree
<1> QED BY <1>5, <1>6

\* The last lambda of readFile leaves nothing behind it, and starts at most one new call.
LEMMA ControlDone ==
    ASSUME ControlInv, RunDone
    PROVE  OnePlace' /\ KindsAgree' /\ Lifetime'
<1> USE DEF ControlInv
<1>1. /\ Run("done") /\ finished' = finished
      /\ IF finished \/ paused
           THEN readFileScheduled' = FALSE /\ UNCHANGED <<paused, tasks>>
           ELSE Resume(FALSE)
      /\ handler' = IF finished' /\ ~readFileScheduled' THEN "deleted" ELSE handler
      /\ UNCHANGED <<kind, file, offset, worker, downstream, throttled, sent, egress>>
  BY DEF RunDone, CheckForCompletion, peer, response
<1>2. /\ Len(queue) \in Nat \ {0} /\ Len(queue') = Len(queue) - 1
      /\ queue[1].kind = "done" /\ queue # <<>> /\ queue' \in Seq(Lambdas)
  BY <1>1, QueuePopped DEF Run
<1>3. Len(queue) = 1
  BY <1>2 DEF OnePlace
<1>4. queue' = <<>> /\ Len(queue') = 0
  BY <1>2, <1>3, EmptySeq
<1>5. /\ \A f \in Tasks : tasks[f] = 0
      /\ \A w \in Workers : ~Busy(w)
      /\ readFileScheduled
  BY <1>2 DEF OnePlace, NoDone, TypeOK
<1>6. kind = "file"
  BY <1>2 DEF KindsAgree
<1>7. /\ tasks'["listFiles"] = 0
      /\ \/ tasks'["readFile"] = 0
         \/ tasks'["readFile"] = 1 /\ readFileScheduled' /\ file
  <2>1. CASE UNCHANGED tasks
    BY <1>5, <2>1, TaskNames
  <2>2. CASE Resume(FALSE)
    <3>1. FALSE \in BOOLEAN
      OBVIOUS
    <3>2. /\ readFileScheduled' = file
          /\ \/ ~file /\ tasks' = tasks
             \/ /\ file
                /\ tasks'["readFile"] = tasks["readFile"] + 1
                /\ tasks'["listFiles"] = tasks["listFiles"]
      BY <2>2, <3>1, Resumed DEF TypeOK
    <3> QED BY <1>5, <3>2, TaskNames
  <2> QED BY <1>1, <2>1, <2>2
<1>8. OnePlace'
  BY <1>1, <1>4, <1>5, <1>7, TaskNames DEF OnePlace, Busy
<1>9. KindsAgree'
  BY <1>1, <1>4, <1>5, <1>6, <1>7 DEF KindsAgree, Busy
<1>10. Lifetime'
  BY <1>1, <1>5, <1>6 DEF Lifetime
<1> QED BY <1>8, <1>9, <1>10

\* The event base runs a queued lambda.
LEMMA ControlRun ==
    ASSUME ControlInv, RunLambda
    PROVE  OnePlace' /\ KindsAgree' /\ Lifetime'
<1> USE DEF ControlInv
<1>1. CASE RunBody
  <2>1. Run("body") /\ "body" \in LambdaKinds \ {"done"}
    BY <1>1 DEF RunBody, LambdaKinds
  <2>2. UNCHANGED <<kind, handler, finished, readFileScheduled, file, offset, tasks, worker,
                    downstream, throttled, egress>>
    BY <1>1 DEF RunBody, flags, pool, peer
  <2>3. kind # "unknown"
    BY <2>1, QueuePopped DEF KindsAgree
  <2> QED BY <2>1, <2>2, <2>3, ControlLambda DEF Lifetime
<1>2. ASSUME NEW k \in {"eom", "abort"}, RunEnd(k) PROVE OnePlace' /\ KindsAgree' /\ Lifetime'
  <2>1. Run(k) /\ k \in LambdaKinds \ {"done"}
    BY <1>2 DEF RunEnd, LambdaKinds
  <2>2. UNCHANGED <<kind, handler, finished, readFileScheduled, file, offset, tasks, worker,
                    downstream, throttled, sent>>
    BY <1>2 DEF RunEnd, flags, pool, peer
  <2>3. kind # "unknown"
    BY <2>1, QueuePopped DEF KindsAgree
  <2> QED BY <2>1, <2>2, <2>3, ControlLambda DEF Lifetime
<1>3. CASE RunListing
  <2>1. Run("listing") /\ "listing" \in LambdaKinds \ {"done"}
    BY <1>3 DEF RunListing, LambdaKinds
  <2>2. UNCHANGED <<kind, handler, readFileScheduled, file, offset, tasks, worker,
                    downstream, throttled, sent>>
    BY <1>3 DEF RunListing, pool, peer
  <2>3. kind = "directory"
    BY <2>1, QueuePopped DEF KindsAgree
  <2> QED BY <2>1, <2>2, <2>3, ControlLambda DEF Lifetime
<1>4. CASE RunDone
  BY <1>4, ControlDone
<1> QED BY <1>1, <1>2, <1>3, <1>4 DEF RunLambda

\* The control invariant is inductive.
LEMMA ControlNext == ControlInv /\ [Next]_vars => ControlInv'
<1> SUFFICES ASSUME ControlInv, [Next]_vars PROVE ControlInv'
  OBVIOUS
<1>1. TypeOK'
  BY TypeNext DEF ControlInv
<1>2. CASE UNCHANGED vars
  BY <1>1, <1>2 DEF ControlInv, OnePlace, KindsAgree, Lifetime, NoDone, Busy, vars, flags, pool,
                    peer, response
<1>3. CASE Next
  BY <1>1, <1>3, ControlOnRequest, ControlPaused, ControlResumed, ControlDetach, ControlWork,
     ControlRun DEF ControlInv, Next, Callback, Pool, Loop, RequestComplete, OnError
<1> QED BY <1>2, <1>3

\* The control invariant holds.
LEMMA Controlled == Spec => []ControlInv
BY ControlInit, ControlNext, PTL DEF Spec

\* readFile and listFiles never run twice at a time, on any number of pool threads, and never
\* without readFileScheduled_.
THEOREM ReadersExclude == Spec => []OneReader
<1>1. ControlInv => OneReader
  BY TaskNames DEF ControlInv, OnePlace, OneReader
<1> QED BY <1>1, Controlled, PTL

\* The handler exists as long as a call, a lambda or the filter points to it.
LEMMA HandlerOutlives == Spec => []AliveWhileUsed
<1>1. ControlInv => AliveWhileUsed
  <2> SUFFICES ASSUME ControlInv, handler = "deleted"
               PROVE  /\ \A w \in Workers : ~Busy(w)
                      /\ ~(tasks["readFile"] + tasks["listFiles"] > 0)
                      /\ queue = <<>>
                      /\ downstream # "attached"
    BY DEF AliveWhileUsed, UnderWay
  <2>1. ~readFileScheduled /\ downstream = "gone"
    BY DEF ControlInv, Lifetime
  <2>2. tasks["readFile"] \in Nat /\ tasks["listFiles"] \in Nat
    BY TaskNames DEF ControlInv, TypeOK
  <2>3. tasks["readFile"] = 0 /\ tasks["listFiles"] = 0
    BY <2>1, <2>2, TaskNames DEF ControlInv, OnePlace
  <2> QED BY <2>1, <2>3 DEF ControlInv, OnePlace
<1> QED BY <1>1, Controlled, PTL

-----------------------------------------------------------------------------
(* The chunks arrive in order *)

\* A lambda that is not an end keeps the order of the chunks, if a chunk continues it.
LEMMA ChunksAppended ==
    ASSUME TypeOK, KindsAgree, ChunksInOrder, NEW k \in LambdaKinds, NEW c \in 0 .. Chunks,
           Enqueue(k, c), kind = "file",
           UNCHANGED <<sent, downstream, egress>>,
           k = "done" \/ (file /\ NoDone),
           downstream = "attached" /\ k = "body" => c = Len(sent) + Len(queue) + 1,
           downstream = "attached" /\ k = "eom" => Len(sent) + Len(queue) = Chunks
    PROVE  /\ downstream' = "attached" => \A i \in 1 .. Len(queue') :
                /\ queue'[i].kind = "body" => queue'[i].chunk = Len(sent') + i
                /\ queue'[i].kind = "eom" => Len(sent') + i - 1 = Chunks
           /\ \A i \in 1 .. Len(queue') : queue'[i].kind \in {"eom", "abort"} =>
                /\ i = Len(queue') \/ ~file
                /\ \A j \in i + 1 .. Len(queue') : queue'[j].kind = "done"
           /\ egress' \in {"eom", "abort"} =>
                \A i \in 1 .. Len(queue') : queue'[i].kind = "done"
<1>1. /\ Len(queue) \in Nat /\ Len(queue') = Len(queue) + 1
      /\ \A i \in 1 .. Len(queue) : queue'[i] = queue[i]
      /\ queue'[Len(queue')].kind = k /\ queue'[Len(queue')].chunk = c
  BY QueueAppended
<1>2. Len(sent) \in Nat
  BY LenProperties DEF TypeOK
<1>3. downstream' = "attached" => \A i \in 1 .. Len(queue') :
        /\ queue'[i].kind = "body" => queue'[i].chunk = Len(sent') + i
        /\ queue'[i].kind = "eom" => Len(sent') + i - 1 = Chunks
  <2> SUFFICES ASSUME downstream = "attached", NEW i \in 1 .. Len(queue')
               PROVE  /\ queue'[i].kind = "body" => queue'[i].chunk = Len(sent) + i
                      /\ queue'[i].kind = "eom" => Len(sent) + i - 1 = Chunks
    OBVIOUS
  <2>1. CASE i \in 1 .. Len(queue)
    BY <1>1, <2>1 DEF ChunksInOrder
  <2>2. CASE i = Len(queue')
    BY <1>1, <1>2, <2>2
  <2> QED BY <1>1, <2>1, <2>2
<1>4. \A i \in 1 .. Len(queue') : queue'[i].kind \in {"eom", "abort"} =>
        /\ i = Len(queue') \/ ~file
        /\ \A j \in i + 1 .. Len(queue') : queue'[j].kind = "done"
  BY <1>1 DEF ChunksInOrder
<1>5. egress' \in {"eom", "abort"} => \A i \in 1 .. Len(queue') : queue'[i].kind = "done"
  BY <1>1 DEF ChunksInOrder
<1> QED BY <1>3, <1>4, <1>5

\* There are no chunks at the start.
LEMMA ChunksInit == Init => ChunksInOrder
<1> SUFFICES ASSUME Init PROVE ChunksInOrder
  OBVIOUS
<1>1. Len(queue) = 0
  BY EmptySeq DEF Init
<1> QED BY <1>1 DEF Init, ChunksInOrder

\* Callbacks touch neither chunks nor lambdas.
LEMMA ChunksCallback ==
    ASSUME ControlInv, ChunksInOrder,
           OnRequest \/ OnEgressPaused \/ OnEgressResumed \/ Detach
    PROVE  ChunksInOrder'
<1> USE DEF ControlInv
<1>1. CASE OnRequest
  <2>1. kind = "unknown" /\ UNCHANGED <<offset, worker, block, queue, downstream, sent>>
    BY <1>1 DEF OnRequest, Lifetime
  <2>2. /\ ~readFileScheduled /\ sent = <<>> /\ offset = 0
    BY <2>1 DEF Lifetime
  <2>3. queue = <<>> /\ Len(queue) = 0 /\ Len(sent) = 0
    BY <2>2, EmptySeq DEF OnePlace
  <2>4. \A w \in Workers : worker[w] = "idle"
    BY <2>2 DEF OnePlace, Busy
  <2>5. egress' \in {"eom", "abort"} => kind' # "file"
    BY <1>1 DEF OnRequest, Opening
  <2> QED BY <2>1, <2>2, <2>3, <2>4, <2>5 DEF ChunksInOrder, NoDone
<1>2. CASE OnEgressPaused \/ OnEgressResumed \/ Detach
  <2>1. UNCHANGED <<kind, file, offset, worker, block, queue, sent, egress>>
    BY <1>2 DEF OnEgressPaused, OnEgressResumed, Detach, pool, response
  <2>2. downstream' = "attached" => downstream = "attached"
    BY <1>2 DEF OnEgressPaused, OnEgressResumed, Detach
  <2> QED BY <2>1, <2>2 DEF ChunksInOrder, NoDone
<1> QED BY <1>1, <1>2

\* What a thread reads and queues continues what is queued.
LEMMA ChunksWork ==
    ASSUME ControlInv, ChunksInOrder, NEW w \in Workers, Work(w)
    PROVE  ChunksInOrder'
<1> USE DEF ControlInv
<1>0. 0 \in 0 .. Chunks /\ {"body", "eom", "abort", "listing", "done"} \subseteq LambdaKinds
  BY ChunksAssumption DEF LambdaKinds
<1>1. UNCHANGED <<kind, handler, downstream, sent, egress>>
  BY DEF Work, Dispatch, ReadLoop, ReadBlock, ReadNext, PostBlock, Notify, List, response
<1>2. Len(sent) \in Nat /\ Len(queue) \in Nat /\ offset \in 0 .. Chunks
  BY LenProperties DEF TypeOK
<1>3. CASE Dispatch(w)
  <2>1. UNCHANGED <<file, offset, block, queue>> /\ worker[w] = "idle"
    BY <1>3 DEF Dispatch
  <2>2. /\ worker'[w] \in {"loop", "list"}
        /\ \A v \in Workers \ {w} : worker'[v] = worker[v]
    BY <1>3 DEF Dispatch, TypeOK
  <2> QED BY <1>1, <2>1, <2>2 DEF ChunksInOrder, NoDone
<1>4. CASE Busy(w)
  <2>1. NoDone /\ \A v \in Workers \ {w} : worker[v] = "idle"
    BY <1>4 DEF OnePlace, Busy
  <2>2. CASE ReadLoop(w)
    <3>1. UNCHANGED <<file, offset, block, queue>> /\ worker[w] = "loop"
      BY <2>2 DEF ReadLoop
    <3>2. /\ worker'[w] \in {"read", "notify"}
          /\ \A v \in Workers \ {w} : worker'[v] = worker[v]
      BY <2>2 DEF ReadLoop, TypeOK
    <3> QED BY <1>1, <3>1, <3>2 DEF ChunksInOrder, NoDone
  <2>3. CASE ReadBlock(w)
    <3>1. worker[w] = "read" /\ kind = "file" /\ file
      BY <2>3 DEF ReadBlock, KindsAgree
    <3>2. downstream = "attached" => offset = Len(sent) + Len(queue)
      BY <2>1, <3>1 DEF ChunksInOrder
    <3>3. ASSUME NEW k \in {"eom", "abort"}, ReadEnd(w, k), k = "eom" => offset = Chunks
          PROVE  ChunksInOrder'
      <4>1. ~file' /\ Enqueue(k, 0) /\ k # "body"
        BY <3>3 DEF ReadEnd
      <4>2. egress \notin {"eom", "abort"}
        BY <3>1 DEF ChunksInOrder
      <4> QED BY <1>0, <1>1, <2>1, <3>1, <3>2, <3>3, <4>1, <4>2, ChunksAppended
              DEF ChunksInOrder
    <3>4. ASSUME offset < Chunks, ReadChunk(w) PROVE ChunksInOrder'
      <4>1. UNCHANGED <<file, queue>> /\ offset' = offset + 1
        BY <3>4 DEF ReadChunk
      <4>2. /\ worker'[w] = "post" /\ block'[w] = offset + 1
            /\ \A v \in Workers \ {w} : worker'[v] = "idle"
        BY <2>1, <3>4 DEF ReadChunk, TypeOK
      <4> QED BY <1>1, <1>2, <2>1, <3>1, <3>2, <4>1, <4>2 DEF ChunksInOrder, NoDone
    <3>5. ReadEnd(w, "abort") \/ (ReadEnd(w, "eom") /\ offset = Chunks)
             \/ (offset < Chunks /\ ReadChunk(w))
      BY <1>2, <2>3, ChunksAssumption DEF ReadBlock, ReadNext
    <3> QED BY <3>3, <3>4, <3>5
  <2>4. CASE PostBlock(w)
    <3>1. worker[w] = "post" /\ kind = "file" /\ file
      BY <2>4 DEF PostBlock, KindsAgree
    <3>2. /\ Enqueue("body", block[w]) /\ UNCHANGED <<file, offset, block>>
          /\ block[w] \in 0 .. Chunks
      BY <2>4 DEF PostBlock, TypeOK
    <3>3. downstream = "attached" =>
            block[w] = Len(sent) + Len(queue) + 1 /\ offset = Len(sent) + Len(queue) + 1
      BY <3>1 DEF ChunksInOrder
    <3>4. \A v \in Workers : worker'[v] # "post"
      BY <2>1, <2>4 DEF PostBlock, TypeOK
    <3>5. /\ Len(queue') = Len(queue) + 1
          /\ \A i \in 1 .. Len(queue) : queue'[i] = queue[i]
          /\ queue'[Len(queue')].kind = "body"
      BY <1>0, <3>2, QueueAppended
    <3>6. NoDone'
      BY <1>2, <2>1, <3>5 DEF NoDone
    <3>7. \A i \in 1 .. Len(queue') : queue'[i].kind \notin {"eom", "abort"}
      BY <1>2, <3>1, <3>5 DEF ChunksInOrder
    <3>8. downstream' = "attached" => \A i \in 1 .. Len(queue') :
             queue'[i].kind = "body" => queue'[i].chunk = Len(sent') + i
      BY <1>0, <1>1, <2>1, <3>1, <3>2, <3>3, ChunksAppended
    <3>9. egress' \notin {"eom", "abort"}
      BY <1>1, <3>1 DEF ChunksInOrder
    <3> QED BY <1>1, <1>2, <3>1, <3>2, <3>3, <3>4, <3>5, <3>6, <3>7, <3>8, <3>9
            DEF ChunksInOrder
  <2>5. CASE Notify(w)
    <3>1. worker[w] = "notify" /\ kind = "file"
      BY <2>5 DEF Notify, KindsAgree
    <3>2. Enqueue("done", 0) /\ UNCHANGED <<file, offset, block>>
      BY <2>5 DEF Notify
    <3>3. \A v \in Workers : worker'[v] = "idle" /\ worker[v] # "post"
      BY <2>1, <2>5, <3>1 DEF Notify, TypeOK
    <3>4. /\ Len(queue') = Len(queue) + 1
          /\ \A i \in 1 .. Len(queue) : queue'[i] = queue[i]
          /\ queue'[Len(queue')].kind = "done"
      BY <1>0, <3>2, QueueAppended
    <3>5. ~NoDone'
      BY <1>2, <3>4 DEF NoDone
    <3>6. downstream = "attached" /\ file => offset = Len(sent) + Len(queue') - 1
      BY <1>2, <2>1, <3>1, <3>3, <3>4 DEF ChunksInOrder
    <3>7. /\ downstream' = "attached" => \A i \in 1 .. Len(queue') :
               /\ queue'[i].kind = "body" => queue'[i].chunk = Len(sent') + i
               /\ queue'[i].kind = "eom" => Len(sent') + i - 1 = Chunks
          /\ \A i \in 1 .. Len(queue') : queue'[i].kind \in {"eom", "abort"} =>
               /\ i = Len(queue') \/ ~file
               /\ \A j \in i + 1 .. Len(queue') : queue'[j].kind = "done"
          /\ egress' \in {"eom", "abort"} =>
               \A i \in 1 .. Len(queue') : queue'[i].kind = "done"
      BY <1>0, <1>1, <3>1, <3>2, ChunksAppended
    <3>8. egress' \in {"eom", "abort"} => ~file
      BY <1>1, <3>1 DEF ChunksInOrder
    <3> QED BY <1>1, <3>1, <3>2, <3>3, <3>4, <3>5, <3>6, <3>7, <3>8 DEF ChunksInOrder
  <2>6. CASE List(w)
    <3>1. worker[w] = "list" /\ kind = "directory"
      BY <2>6 DEF List, KindsAgree
    <3>2. Enqueue("listing", 0) \/ UNCHANGED queue
      BY <2>6 DEF List
    <3>3. \A i \in 1 .. Len(queue') : queue'[i].kind \notin {"body", "eom", "abort"}
      <4>1. \A i \in 1 .. Len(queue) : queue[i].kind = "listing"
        BY <3>1 DEF KindsAgree
      <4>2. CASE Enqueue("listing", 0)
        BY <1>0, <1>2, <4>1, <4>2, QueueAppended
      <4> QED BY <3>2, <4>1, <4>2
    <3> QED BY <1>1, <3>1, <3>3 DEF ChunksInOrder
  <2> QED BY <1>4, <2>2, <2>3, <2>4, <2>5, <2>6 DEF Work, Dispatch, Busy
<1> QED BY <1>3, <1>4 DEF Work, ReadLoop, ReadBlock, PostBlock, Notify, List, Busy

\* A lambda hands on the next chunk, or ends the message after the last one.
LEMMA ChunksRun ==
    ASSUME ControlInv, ChunksInOrder, RunLambda
    PROVE  ChunksInOrder'
<1> USE DEF ControlInv
<1>1. PICK k : Run(k)
  BY DEF RunLambda, RunBody, RunEnd, RunListing, RunDone
<1>2. /\ Len(queue) \in Nat \ {0} /\ Len(queue') = Len(queue) - 1
      /\ \A i \in 1 .. Len(queue') : queue'[i] = queue[i + 1]
      /\ Head(queue) = queue[1] /\ queue[1].kind = k /\ queue[1].chunk \in 0 .. Chunks
  BY <1>1, QueuePopped
<1>3. UNCHANGED <<kind, file, offset, worker, block, downstream>>
  BY DEF RunLambda, RunBody, RunEnd, RunListing, RunDone, pool
<1>4. Len(sent) \in Nat /\ sent \in Seq(0 .. Chunks)
  BY LenProperties DEF TypeOK
<1>5. \A i \in 1 .. Len(queue') : queue'[i].kind \in {"eom", "abort"} =>
        /\ ~file'
        /\ \A j \in i + 1 .. Len(queue') : queue'[j].kind = "done"
  <2> SUFFICES ASSUME NEW i \in 1 .. Len(queue'), queue'[i].kind \in {"eom", "abort"}
               PROVE  /\ ~file'
                      /\ \A j \in i + 1 .. Len(queue') : queue'[j].kind = "done"
    OBVIOUS
  <2>1. i + 1 \in 1 .. Len(queue) /\ queue[i + 1].kind \in {"eom", "abort"}
    BY <1>2
  <2>2. ~file /\ \A j \in i + 2 .. Len(queue) : queue[j].kind = "done"
    BY <1>2, <2>1 DEF ChunksInOrder
  <2>3. \A j \in i + 1 .. Len(queue') :
           j \in 1 .. Len(queue') /\ j + 1 \in i + 2 .. Len(queue)
    BY <1>2
  <2> QED BY <1>2, <1>3, <2>2, <2>3
<1>6. k # "done" => (NoDone' <=> NoDone)
  <2>1. ASSUME k # "done", NoDone' PROVE NoDone
    <3>1. \A i \in 2 .. Len(queue) : i - 1 \in 1 .. Len(queue') /\ queue'[i - 1] = queue[i]
      BY <1>2
    <3> QED BY <1>2, <2>1, <3>1 DEF NoDone
  <2>2. ASSUME NoDone PROVE NoDone'
    BY <1>2, <2>2 DEF NoDone
  <2> QED BY <2>1, <2>2
<1>7. CASE RunBody
  <2>1. k = "body" /\ egress' = egress
    BY <1>1, <1>7 DEF RunBody, Run
  <2>2. egress \notin {"eom", "abort"} \/ kind # "file"
    BY <1>2, <2>1 DEF ChunksInOrder
  <2>3. CASE downstream = "attached"
    <3>1. Len(sent') = Len(sent) + 1
      BY <1>2, <1>4, <1>7, <2>3, AppendProperties DEF RunBody
    <3> QED BY <1>2, <1>3, <1>4, <1>5, <1>6, <2>1, <2>2, <2>3, <3>1 DEF ChunksInOrder
  <2>4. CASE downstream # "attached"
    BY <1>3, <1>5, <2>1, <2>2, <2>4 DEF ChunksInOrder
  <2> QED BY <2>3, <2>4
<1>8. CASE RunEnd("eom") \/ RunEnd("abort")
  <2>1. k \in {"eom", "abort"} /\ sent' = sent /\ egress' \in {egress, k}
    BY <1>1, <1>8 DEF RunEnd, Run
  <2>2. ~file /\ \A i \in 1 .. Len(queue') : queue'[i].kind = "done"
    BY <1>2, <2>1 DEF ChunksInOrder
  <2> QED BY <1>3, <1>5, <2>1, <2>2 DEF ChunksInOrder
<1>9. CASE RunListing
  <2>1. k = "listing" /\ sent' = sent
    BY <1>1, <1>9 DEF RunListing, Run
  <2>2. kind = "directory"
    BY <1>2, <2>1 DEF KindsAgree
  <2>3. \A i \in 1 .. Len(queue) : queue[i].kind = "listing"
    BY <2>2 DEF KindsAgree
  <2> QED BY <1>2, <1>3, <1>5, <2>1, <2>2, <2>3 DEF ChunksInOrder
<1>10. CASE RunDone
  <2>1. k = "done" /\ UNCHANGED <<sent, egress>>
    BY <1>1, <1>10 DEF RunDone, Run, response
  <2>2. Len(queue) = 1 /\ Len(queue') = 0
    BY <1>2, <2>1 DEF OnePlace
  <2>3. ~NoDone /\ NoDone'
    BY <1>2, <2>1, <2>2 DEF NoDone
  <2>4. \A w \in Workers : worker[w] = "idle"
    BY <2>3 DEF OnePlace, Busy
  <2>5. kind = "file"
    BY <1>2, <2>1 DEF KindsAgree
  <2> QED BY <1>3, <1>4, <2>1, <2>2, <2>3, <2>4, <2>5 DEF ChunksInOrder
<1> QED BY <1>7, <1>8, <1>9, <1>10 DEF RunLambda

\* The chunks stay in order, after any step.
LEMMA ChunksNext == ControlInv /\ ChunksInOrder /\ [Next]_vars => ChunksInOrder'
<1> SUFFICES ASSUME ControlInv, ChunksInOrder, [Next]_vars PROVE ChunksInOrder'
  OBVIOUS
<1>1. CASE UNCHANGED vars
  BY <1>1 DEF ChunksInOrder, NoDone, vars, flags, pool, peer, response
<1>2. CASE Next
  BY <1>2, ChunksCallback, ChunksWork, ChunksRun
     DEF Next, Callback, Pool, Loop, RequestComplete, OnError
<1> QED BY <1>1, <1>2

-----------------------------------------------------------------------------
(* The response is a prefix of the file *)

\* The state of the response that FileStream speaks of.
state == IF egress = "eom" /\ kind = "file" THEN "whole"
         ELSE IF egress \in {"eom", "abort"} \/ downstream = "gone" THEN "cut"
         ELSE "open"

\* Each step delivers the next chunk, ends the stream, or changes nothing FileStream speaks of.
LEMMA StreamStep ==
    ASSUME ControlInv, ChunksInOrder, [Next]_vars
    PROVE  [Stream!Next]_<<sent, state>>
<1> USE DEF ControlInv
<1>1. egress \in {"none", "open", "eom", "abort"} /\ downstream \in {"attached", "gone"}
  BY DEF TypeOK
<1>2. CASE UNCHANGED <<sent, egress, kind, downstream>>
  BY <1>2 DEF state
<1>3. CASE OnRequest
  <2>1. kind = "unknown" /\ UNCHANGED <<sent, downstream>>
    BY <1>3 DEF OnRequest, Lifetime
  <2>2. egress = "none"
    BY <2>1 DEF Lifetime
  <2>3. egress' \in {"none", "open"} \/ (egress' = "eom" /\ kind' # "file")
    <3>1. PICK k \in Kinds : kind' = k /\ egress' = Opening[k]
      BY <1>3 DEF OnRequest
    <3>2. k \in AllKinds
      BY KindsAssumption
    <3> QED BY <3>1, <3>2 DEF Opening, AllKinds
  <2>4. CASE downstream = "gone"
    BY <2>1, <2>2, <2>3, <2>4 DEF state
  <2>5. CASE downstream = "attached"
    BY <2>1, <2>2, <2>3, <2>5 DEF state, Stream!Next, Stream!Cut
  <2> QED BY <1>1, <2>4, <2>5
<1>4. CASE Detach
  <2>1. UNCHANGED <<sent, egress, kind>> /\ downstream' = "gone" /\ downstream = "attached"
    BY <1>4 DEF Detach, response
  <2> QED BY <1>1, <2>1 DEF state, Stream!Next, Stream!Cut
<1>5. CASE RunBody
  <2>1. Run("body") /\ UNCHANGED <<kind, downstream, egress>>
    BY <1>5 DEF RunBody
  <2>2. CASE downstream = "gone"
    BY <1>5, <2>1, <2>2 DEF RunBody, state
  <2>3. CASE downstream = "attached"
    <3>1. Len(queue) \in Nat \ {0} /\ Head(queue) = queue[1] /\ queue[1].kind = "body"
          /\ queue[1].chunk \in 0 .. Chunks
      BY <2>1, QueuePopped
    <3>2. queue[1].chunk = Len(sent) + 1
      BY <2>3, <3>1 DEF ChunksInOrder
    <3>3. sent' = Append(sent, Len(sent) + 1)
      BY <1>5, <2>3, <3>1, <3>2 DEF RunBody
    <3>4. Len(sent) \in Nat
      BY LenProperties DEF TypeOK
    <3>5. Len(sent) < Chunks
      BY <3>1, <3>2, <3>4, ChunksAssumption
    <3>6. kind = "file"
      BY <3>1 DEF KindsAgree
    <3>7. egress \notin {"eom", "abort"}
      BY <3>1, <3>6 DEF ChunksInOrder
    <3> QED BY <2>1, <2>3, <3>3, <3>5, <3>7 DEF state, Stream!Next, Stream!Deliver
  <2> QED BY <1>1, <2>2, <2>3
<1>6. ASSUME NEW k \in {"eom", "abort"}, RunEnd(k) PROVE [Stream!Next]_<<sent, state>>
  <2>1. Run(k) /\ UNCHANGED <<kind, downstream, sent>>
    BY <1>6 DEF RunEnd
  <2>2. CASE downstream = "gone"
    BY <1>6, <2>1, <2>2 DEF RunEnd, state
  <2>3. CASE downstream = "attached"
    <3>1. Len(queue) \in Nat \ {0} /\ queue[1].kind = k
      BY <2>1, QueuePopped
    <3>2. kind = "file"
      BY <3>1 DEF KindsAgree
    <3>3. egress \notin {"eom", "abort"}
      BY <3>1, <3>2 DEF ChunksInOrder
    <3>4. k = "eom" => Len(sent) = Chunks
      <4>1. Len(sent) \in Nat
        BY LenProperties DEF TypeOK
      <4> QED BY <2>3, <3>1, <4>1 DEF ChunksInOrder
    <3>5. egress' = k
      BY <1>6, <2>3 DEF RunEnd
    <3> QED BY <2>1, <2>3, <3>2, <3>3, <3>4, <3>5 DEF state, Stream!Next, Stream!Finish, Stream!Cut
  <2> QED BY <1>1, <2>2, <2>3
<1>7. CASE RunListing
  <2>1. Run("listing") /\ UNCHANGED <<kind, downstream, sent>> /\ egress' \in {egress, "eom"}
    BY <1>7 DEF RunListing
  <2>2. kind = "directory"
    BY <2>1, QueuePopped DEF KindsAgree
  <2>3. state' \in {state, "cut"}
    BY <2>1, <2>2 DEF state
  <2>4. state # "cut" => state = "open"
    BY <1>1, <2>2 DEF state
  <2> QED BY <2>1, <2>3, <2>4 DEF state, Stream!Next, Stream!Cut
<1> QED BY <1>2, <1>3, <1>4, <1>5, <1>6, <1>7
      DEF Next, Callback, Pool, Loop, RequestComplete, OnError, RunLambda, RunDone, OnEgressPaused,
          OnEgressResumed, Work, Dispatch, ReadLoop, ReadBlock, PostBlock, Notify, List, vars,
          response

\* For every length of the file, every pool and every interleaving of pauses and errors, the
\* response to a request for a file is a prefix of the file, and all of it if its end is sent.
THEOREM FileIsStreamed == Spec => ImplementsStream
<1>1. Init => Stream!Init
  BY DEF Init, Stream!Init
<1>2. ControlInv /\ ChunksInOrder /\ [Next]_vars => [Stream!Next]_<<sent, state>>
  BY StreamStep
<1>3. Spec => [](ControlInv /\ ChunksInOrder)
  BY ControlInit, ControlNext, ChunksInit, ChunksNext, PTL DEF Spec
<1> QED BY <1>1, <1>2, <1>3, PTL DEF Spec, ImplementsStream, Stream!StreamSpec, state

-----------------------------------------------------------------------------
(* Nothing is forgotten: no handler, and no response *)

\* The call of readFile that readFileScheduled_ stands for exists: it waits, runs, or its last
\* lambda is queued.
CallExists ==
    readFileScheduled /\ kind # "directory" =>
        tasks["readFile"] > 0 \/ (\E w \in Workers : Busy(w)) \/ ~NoDone

\* A handler that has been told of the end goes with its last call.
GoesWithCall ==
    /\ downstream = "gone" => finished
    /\ finished /\ ~readFileScheduled => handler = "deleted"

\* As long as the filters are there paused_ is what the peer was told, and only a pause keeps an
\* open file from being read.
OnlyPausesStop ==
    downstream = "attached" =>
        /\ paused <=> throttled
        /\ kind = "file" /\ file /\ ~readFileScheduled => throttled

\* A file that was closed has left an end for the response in the queue.
EndQueued ==
    kind = "file" /\ downstream = "attached" /\ egress = "open" /\ ~file =>
        \E i \in 1 .. Len(queue) : queue[i].kind \in {"eom", "abort"}

InTime == CallExists /\ GoesWithCall /\ OnlyPausesStop /\ EndQueued

\* Nothing is owed at the start.
LEMMA InTimeInit == Init => InTime
BY DEF Init, InTime, CallExists, GoesWithCall, OnlyPausesStop, EndQueued

\* onRequest of a file leaves a call, and an open file.
LEMMA InTimeOnRequest ==
    ASSUME ControlInv, InTime, OnRequest
    PROVE  InTime'
<1> USE DEF ControlInv, InTime
<1>1. PICK k \in Kinds :
        /\ kind' = k
        /\ file' = (k \in DOMAIN TaskOf)
        /\ readFileScheduled' = (k \in DOMAIN TaskOf)
        /\ IF k \in DOMAIN TaskOf THEN AddTask(TaskOf[k]) ELSE UNCHANGED tasks
  BY DEF OnRequest
<1>2. /\ UNCHANGED <<finished, paused, downstream, throttled>>
      /\ kind = "unknown" /\ ~finished /\ downstream = "attached"
  BY DEF OnRequest, Lifetime, peer
<1>3. DOMAIN TaskOf = {"file", "directory"} /\ TaskOf["file"] = "readFile"
  BY DEF TaskOf
<1>4. /\ k = "file" => readFileScheduled' /\ file' /\ AddTask("readFile")
      /\ k \notin {"file", "directory"} => ~readFileScheduled'
  BY <1>1, <1>3
<1>5. CallExists'
  <2>1. CASE k = "file"
    <3>1. tasks'["readFile"] > 0
      BY <1>4, <2>1, TaskNames, TaskAdded DEF TypeOK
    <3> QED BY <3>1 DEF CallExists
  <2>2. CASE k # "file"
    BY <1>1, <1>4, <2>2 DEF CallExists
  <2> QED BY <2>1, <2>2
<1>6. GoesWithCall'
  BY <1>2 DEF GoesWithCall
<1>7. OnlyPausesStop'
  BY <1>1, <1>2, <1>4 DEF OnlyPausesStop
<1>8. EndQueued'
  BY <1>1, <1>4 DEF EndQueued
<1> QED BY <1>5, <1>6, <1>7, <1>8

\* A pause is remembered, a resumption starts the call that is missing, and the last callback
\* deletes the handler if none is left.
LEMMA InTimeCallback ==
    ASSUME ControlInv, InTime, OnEgressPaused \/ OnEgressResumed \/ Detach
    PROVE  InTime'
<1> USE DEF ControlInv, InTime
<1>1. CASE OnEgressPaused
  <2>1. /\ UNCHANGED <<kind, handler, finished, readFileScheduled, file, tasks, worker, queue,
                       downstream, egress>>
        /\ throttled' /\ paused'
    BY <1>1 DEF OnEgressPaused, pool, response
  <2> QED BY <2>1 DEF CallExists, GoesWithCall, OnlyPausesStop, EndQueued, NoDone, Busy
<1>2. CASE OnEgressResumed
  <2>1. /\ UNCHANGED <<kind, handler, finished, file, worker, queue, downstream, egress>>
        /\ Resume(readFileScheduled) /\ ~throttled'
    BY <1>2 DEF OnEgressResumed, response
  <2>2. readFileScheduled \in BOOLEAN /\ file \in BOOLEAN
    BY DEF TypeOK
  <2>3. /\ ~paused' /\ readFileScheduled' = (readFileScheduled \/ file)
        /\ \/ (readFileScheduled \/ ~file) /\ tasks' = tasks
           \/ ~readFileScheduled /\ tasks'["readFile"] = tasks["readFile"] + 1
    BY <2>1, <2>2, Resumed
  <2>4. CallExists'
    <3>1. tasks["readFile"] \in Nat
      BY TaskNames DEF TypeOK
    <3> QED BY <2>1, <2>2, <2>3, <3>1 DEF CallExists, NoDone, Busy
  <2>5. GoesWithCall'
    BY <2>1, <2>3 DEF GoesWithCall
  <2>6. OnlyPausesStop'
    BY <2>1, <2>2, <2>3 DEF OnlyPausesStop
  <2> QED BY <2>1, <2>4, <2>5, <2>6 DEF EndQueued
<1>3. CASE Detach
  <2>1. /\ UNCHANGED <<kind, readFileScheduled, file, tasks, worker, queue>>
        /\ downstream' = "gone"
        /\ finished'
        /\ handler' = IF finished' /\ ~readFileScheduled' THEN "deleted" ELSE handler
    BY <1>3 DEF Detach, CheckForCompletion, pool
  <2> QED BY <2>1 DEF CallExists, GoesWithCall, OnlyPausesStop, EndQueued, NoDone, Busy
<1> QED BY <1>1, <1>2, <1>3

\* readFile leaves its last lambda behind, and the end of the response when it closes the file.
LEMMA InTimeWork ==
    ASSUME ControlInv, InTime, NEW w \in Workers, Work(w)
    PROVE  InTime'
<1> USE DEF ControlInv, InTime
<1>0. 0 \in 0 .. Chunks /\ {"body", "eom", "abort", "listing", "done"} \subseteq LambdaKinds
  BY ChunksAssumption DEF LambdaKinds
<1>1. UNCHANGED <<kind, handler, finished, paused, readFileScheduled, downstream, throttled, egress>>
  BY DEF Work, Dispatch, ReadLoop, ReadBlock, PostBlock, Notify, List, flags, peer, response
<1>2. GoesWithCall'
  BY <1>1 DEF GoesWithCall
<1>3. Busy(w) \/ \E f \in Tasks : tasks[f] > 0
  BY DEF Work, Dispatch, ReadLoop, ReadBlock, PostBlock, Notify, List, Busy
<1>4. readFileScheduled
  BY <1>3 DEF OnePlace
<1>5. OnlyPausesStop'
  BY <1>1, <1>4 DEF OnlyPausesStop
<1>6. ASSUME UNCHANGED queue, UNCHANGED file, worker'[w] # "idle" PROVE InTime'
  <2>1. CallExists'
    BY <1>6 DEF CallExists, Busy
  <2>2. EndQueued'
    BY <1>1, <1>6 DEF EndQueued
  <2> QED BY <1>2, <1>5, <2>1, <2>2
<1>7. CASE Dispatch(w)
  <2>1. UNCHANGED <<queue, file>> /\ worker'[w] # "idle"
    BY <1>7 DEF Dispatch, TypeOK
  <2> QED BY <1>6, <2>1
<1>8. CASE ReadLoop(w)
  <2>1. UNCHANGED <<queue, file>> /\ worker'[w] # "idle"
    BY <1>8 DEF ReadLoop, TypeOK
  <2> QED BY <1>6, <2>1
<1>9. CASE ReadBlock(w)
  <2>1. ASSUME NEW k \in {"eom", "abort"}, ReadEnd(w, k) PROVE InTime'
    <3>1. worker'[w] = "notify" /\ Enqueue(k, 0)
      BY <2>1 DEF ReadEnd, TypeOK
    <3>2. Len(queue') \in 1 .. Len(queue') /\ queue'[Len(queue')].kind = k
      BY <1>0, <3>1, QueueAppended
    <3>3. CallExists'
      BY <3>1 DEF CallExists, Busy
    <3>4. EndQueued'
      BY <3>2 DEF EndQueued
    <3> QED BY <1>2, <1>5, <3>3, <3>4
  <2>2. ASSUME ReadChunk(w) PROVE InTime'
    <3>1. UNCHANGED <<queue, file>> /\ worker'[w] # "idle"
      BY <2>2 DEF ReadChunk, TypeOK
    <3> QED BY <1>6, <3>1
  <2> QED BY <1>9, <2>1, <2>2 DEF ReadBlock, ReadNext
<1>10. CASE PostBlock(w)
  <2>1. worker[w] = "post" /\ worker'[w] = "loop" /\ UNCHANGED file
    BY <1>10 DEF PostBlock, TypeOK
  <2>2. kind = "file" /\ file
    BY <2>1 DEF KindsAgree
  <2>3. CallExists'
    BY <2>1 DEF CallExists, Busy
  <2>4. EndQueued'
    BY <2>1, <2>2 DEF EndQueued
  <2> QED BY <1>2, <1>5, <2>3, <2>4
<1>11. CASE Notify(w)
  <2>1. Enqueue("done", 0) /\ UNCHANGED file
    BY <1>11 DEF Notify
  <2>2. /\ Len(queue) \in Nat /\ Len(queue') = Len(queue) + 1
        /\ \A i \in 1 .. Len(queue) : queue'[i] = queue[i]
        /\ queue'[Len(queue')].kind = "done"
    BY <1>0, <2>1, QueueAppended
  <2>3. ~NoDone'
    BY <2>2 DEF NoDone
  <2>4. EndQueued'
    <3>1. 1 .. Len(queue) \subseteq 1 .. Len(queue')
      BY <2>2
    <3> QED BY <1>1, <2>1, <2>2, <3>1 DEF EndQueued
  <2> QED BY <1>2, <1>5, <2>3, <2>4 DEF CallExists
<1>12. CASE List(w)
  <2>1. kind = "directory"
    BY <1>12 DEF List, KindsAgree
  <2> QED BY <1>1, <1>2, <1>5, <2>1 DEF CallExists, EndQueued
<1> QED BY <1>7, <1>8, <1>9, <1>10, <1>11, <1>12 DEF Work

\* Lambdas other than the last leave the last in the queue; the last one goes on unless the peer
\* has stopped taking data or the file is closed.
LEMMA InTimeRun ==
    ASSUME ControlInv, InTime, RunLambda
    PROVE  InTime'
<1> USE DEF ControlInv, InTime
<1>1. PICK k : Run(k)
  BY DEF RunLambda, RunBody, RunEnd, RunListing, RunDone
<1>2. /\ Len(queue) \in Nat \ {0} /\ Len(queue') = Len(queue) - 1
      /\ \A i \in 1 .. Len(queue') : queue'[i] = queue[i + 1]
      /\ queue[1].kind = k /\ queue # <<>>
  BY <1>1, QueuePopped DEF Run
<1>3. \A i \in 2 .. Len(queue) : i - 1 \in 1 .. Len(queue') /\ queue'[i - 1] = queue[i]
  BY <1>2
<1>4. k # "done" /\ ~NoDone => ~NoDone'
  BY <1>2, <1>3 DEF NoDone
<1>5. readFileScheduled
  BY <1>2 DEF OnePlace
<1>6. CASE RunBody
  <2>1. /\ k = "body"
        /\ UNCHANGED <<kind, handler, finished, paused, readFileScheduled, file, tasks, worker,
                       downstream, throttled, egress>>
    BY <1>1, <1>6 DEF RunBody, Run, flags, pool, peer
  <2>2. EndQueued'
    BY <1>2, <1>3, <2>1 DEF EndQueued
  <2> QED BY <1>4, <2>1, <2>2 DEF CallExists, GoesWithCall, OnlyPausesStop, Busy
<1>7. CASE RunEnd("eom") \/ RunEnd("abort")
  <2>1. /\ k \in {"eom", "abort"}
        /\ UNCHANGED <<kind, handler, finished, paused, readFileScheduled, file, tasks, worker,
                       downstream, throttled>>
        /\ downstream = "attached" => egress' = k
    BY <1>1, <1>7 DEF RunEnd, Run, flags, pool, peer
  <2> QED BY <1>4, <2>1 DEF CallExists, GoesWithCall, OnlyPausesStop, EndQueued, Busy
<1>8. CASE RunListing
  <2>1. /\ k = "listing" /\ finished'
        /\ UNCHANGED <<kind, handler, paused, readFileScheduled, file, downstream, throttled>>
    BY <1>1, <1>8 DEF RunListing, Run, peer
  <2>2. kind = "directory"
    BY <1>2, <2>1 DEF KindsAgree
  <2> QED BY <1>5, <2>1, <2>2 DEF CallExists, GoesWithCall, OnlyPausesStop, EndQueued
<1>9. CASE RunDone
  <2>1. /\ k = "done" /\ finished' = finished
        /\ \/ (finished \/ paused) /\ ~readFileScheduled' /\ UNCHANGED <<paused, tasks>>
           \/ ~(finished \/ paused) /\ Resume(FALSE)
        /\ handler' = IF finished' /\ ~readFileScheduled' THEN "deleted" ELSE handler
        /\ UNCHANGED <<kind, file, worker, downstream, throttled, egress>>
    BY <1>1, <1>9 DEF RunDone, Run, CheckForCompletion, peer, response
  <2>2. kind = "file" /\ Len(queue) = 1
    BY <1>2, <2>1 DEF KindsAgree, OnePlace
  <2>3. ~(downstream = "attached" /\ finished)
    BY <2>2 DEF Lifetime, TypeOK
  <2>4. EndQueued'
    BY <1>2, <2>1, <2>2 DEF EndQueued
  <2>5. CASE (finished \/ paused) /\ ~readFileScheduled' /\ UNCHANGED <<paused, tasks>>
    BY <2>1, <2>3, <2>4, <2>5 DEF CallExists, GoesWithCall, OnlyPausesStop
  <2>6. CASE ~(finished \/ paused) /\ Resume(FALSE)
    <3>1. /\ ~paused' /\ readFileScheduled' = file
          /\ ~file \/ tasks'["readFile"] = tasks["readFile"] + 1
      <4>1. FALSE \in BOOLEAN
        OBVIOUS
      <4> QED BY <2>6, <4>1, Resumed DEF TypeOK
    <3>2. tasks["readFile"] \in Nat
      BY TaskNames DEF TypeOK
    <3>3. CallExists'
      BY <3>1, <3>2 DEF CallExists
    <3>4. downstream = "attached" => ~throttled
      BY <2>6, <2>3 DEF OnlyPausesStop
    <3> QED BY <2>1, <2>4, <2>6, <3>1, <3>3, <3>4 DEF GoesWithCall, OnlyPausesStop
  <2> QED BY <2>1, <2>5, <2>6
<1> QED BY <1>6, <1>7, <1>8, <1>9 DEF RunLambda

\* What is owed stays owed, after any step.
LEMMA InTimeNext == ControlInv /\ InTime /\ [Next]_vars => InTime'
<1> SUFFICES ASSUME ControlInv, InTime, [Next]_vars PROVE InTime'
  OBVIOUS
<1>1. CASE UNCHANGED vars
  BY <1>1 DEF InTime, CallExists, GoesWithCall, OnlyPausesStop, EndQueued, NoDone, Busy, vars,
              flags, pool, peer, response
<1>2. CASE Next
  BY <1>2, InTimeOnRequest, InTimeCallback, InTimeWork, InTimeRun
     DEF Next, Callback, Pool, Loop, RequestComplete, OnError
<1> QED BY <1>1, <1>2

\* With no call in the pool and nothing queued there is no readFile.
LEMMA NothingUnderWay ==
    ASSUME ControlInv, InTime, ~UnderWay
    PROVE  /\ kind # "directory" => ~readFileScheduled
           /\ Len(queue) = 0
<1>1. /\ tasks["readFile"] \in Nat /\ tasks["listFiles"] \in Nat
      /\ ~(tasks["readFile"] + tasks["listFiles"] > 0)
  BY TaskNames DEF ControlInv, TypeOK, UnderWay
<1>2. queue = <<>> /\ Len(queue) = 0
  BY EmptySeq DEF UnderWay
<1> QED BY <1>1, <1>2 DEF InTime, CallExists, UnderWay, NoDone

\* For every pool and every file, and whatever the order of pauses, errors and lambdas: once the
\* connection is over and nothing is under way, the handlers that are left list directories.
THEOREM HandlersGoInTime == Spec => []DeletedInTime
<1>1. ControlInv /\ InTime => NoHandlerLeaks
  <2> SUFFICES ASSUME ControlInv, InTime, downstream = "gone", ~UnderWay
               PROVE  handler = "deleted" <=> kind # "directory"
    BY DEF NoHandlerLeaks
  <2>1. kind # "directory" => handler = "deleted"
    BY NothingUnderWay DEF InTime, GoesWithCall
  <2>2. kind = "directory" => handler # "deleted"
    BY DEF ControlInv, KindsAgree, Lifetime
  <2> QED BY <2>1, <2>2
<1> QED BY <1>1, HandlerOutlives, ControlInit, ControlNext, InTimeInit, InTimeNext, PTL DEF Spec, DeletedInTime

\* For every pool, every length of the file and any number of pauses, a response that is not at
\* its end is being read or waits for the peer, whose resumption will be heard.
THEOREM WakeUpsAreHeard == Spec => []NoWakeUpLost
<1>1. ControlInv /\ InTime => NoWakeUpLost
  <2> SUFFICES ASSUME ControlInv, InTime, kind = "file", egress = "open",
                      downstream = "attached", ~UnderWay
               PROVE  throttled /\ file /\ ~readFileScheduled
    BY DEF NoWakeUpLost
  <2>1. ~readFileScheduled /\ Len(queue) = 0
    BY NothingUnderWay
  <2>2. file
    BY <2>1 DEF InTime, EndQueued
  <2> QED BY <2>1, <2>2 DEF InTime, OnlyPausesStop
<1> QED BY <1>1, ControlInit, ControlNext, InTimeInit, InTimeNext, PTL DEF Spec
=============================================================================
