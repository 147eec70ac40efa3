----------------------------- MODULE FileServer -----------------------------
(***************************************************************************)
(* One FileServerRequestHandler, from its creation by the factory to its    *)
(* "delete this".                                                           *)
(*                                                                         *)
(* Two kinds of thread run its code:                                        *)
(*   - the event-base thread of its connection, which calls it back         *)
(*     (onRequest, onEgressPaused, onEgressResumed, requestComplete,        *)
(*     onError) and runs, in the order they were queued, the lambdas that   *)
(*     runInEventBaseThread was given,                                      *)
(*   - the threads of the CPU pool, which run readFile or listFiles when    *)
(*     the event-base thread has added it to the pool.                      *)
(* paused_ is atomic and read by both; file_ belongs to whoever runs        *)
(* readFile; readFileScheduled_ and finished_ are the event-base thread's.  *)
(*                                                                         *)
(* Between the handler and the connection is a filter.  It deletes itself   *)
(* after it has passed on onError or requestComplete, and downstream_ of    *)
(* the handler is then a dangling pointer.                                  *)
(***************************************************************************)
EXTENDS Integers, Sequences

CONSTANTS
    Workers,     \* the threads of the CPU pool
    Kinds,       \* what the request may turn out to ask for
    Chunks,      \* length of the file, in reads of 4000 bytes
    MaxPauses    \* bound on the times the peer stops taking data

AllKinds == {"refused", "undecodable", "file", "directory"}
Tasks == {"readFile", "listFiles"}

ASSUME KindsAssumption == Kinds \subseteq AllKinds
ASSUME ChunksAssumption == Chunks \in Nat
ASSUME MaxPausesAssumption == MaxPauses \in Nat

VARIABLES
    kind,                \* what was asked for, "unknown" before onRequest
    handler,             \* "new", "serving" or "deleted"
    finished,            \* finished_
    paused,              \* paused_
    readFileScheduled,   \* readFileScheduled_
    file,                \* file_: is there an open file?
    offset,              \* chunks read from it so far
    tasks,               \* calls waiting for a thread of the pool
    worker,              \* where each thread of the pool is
    block,               \* the chunk each thread has read and not queued yet
    queue,               \* lambdas for the event-base thread
    downstream,          \* the filter in front: "attached" or "gone"
    throttled,           \* the peer was told to have stopped taking data
    pauses,              \* how often that happened
    sent,                \* the chunks handed to the connection
    egress,              \* how far the response is: "none", "open", "eom" or "abort"
    process              \* "up" or "died"

flags == <<finished, paused, readFileScheduled>>
pool == <<tasks, worker, block>>
peer == <<throttled, pauses>>
response == <<sent, egress>>
outside == <<kind, handler, flags, downstream, peer, response, process>>   \* of the pool
vars == <<outside, file, offset, pool, queue>>

Init ==
    /\ kind = "unknown"
    /\ handler = "new"
    /\ finished = FALSE
    /\ paused = FALSE
    /\ readFileScheduled = FALSE
    /\ file = FALSE
    /\ offset = 0
    /\ tasks = [f \in Tasks |-> 0]
    /\ worker = [w \in Workers |-> "idle"]
    /\ block = [w \in Workers |-> 0]
    /\ queue = <<>>
    /\ downstream = "attached"
    /\ throttled = FALSE
    /\ pauses = 0
    /\ sent = <<>>
    /\ egress = "none"
    /\ process = "up"

-----------------------------------------------------------------------------
(* Helpers *)

\* getCPUExecutor()->add
AddTask(f) == tasks' = [tasks EXCEPT ![f] = @ + 1]

\* runInEventBaseThread
Lambda(k, c) == [kind |-> k, chunk |-> c]
Enqueue(k, c) == queue' = Append(queue, Lambda(k, c))

\* delete this, as soon as the response is over and nothing of readFile is left
CheckNever ==   \* mutant
    handler' = handler
CheckForCompletion ==
    handler' = IF finished' /\ ~readFileScheduled' THEN "deleted" ELSE handler

\* onEgressResumed: a readFile that is still scheduled will come back to paused_ itself
ResumeAlways(scheduled) ==   \* mutant
    /\ paused' = FALSE
    /\ readFileScheduled' = (scheduled \/ file)
    /\ IF file THEN AddTask("readFile") ELSE UNCHANGED tasks
Resume(scheduled) ==
    /\ paused' = FALSE
    /\ readFileScheduled' = (scheduled \/ file)
    /\ IF ~scheduled /\ file THEN AddTask("readFile") ELSE UNCHANGED tasks

\* ResponseBuilder(downstream_).send() with a downstream_ that is gone: undefined
Touch == process' \in IF downstream = "attached" THEN {"up"} ELSE {"up", "died"}

-----------------------------------------------------------------------------
(* Callbacks *)

\* how the response begins, and the task it needs; the status line is sent before it is known
\* whether the path is a directory
Opening == [refused |-> "eom", undecodable |-> "none", file |-> "open", directory |-> "open"]
TaskOf == [file |-> "readFile", directory |-> "listFiles"]

\* an escape that cannot be decoded is an exception that leaves a noexcept function
OnRequest ==
    /\ handler = "new"
    /\ handler' = "serving"
    /\ \E k \in Kinds :
         /\ kind' = k
         /\ process' = IF k = "undecodable" THEN "died" ELSE "up"
         /\ egress' = Opening[k]
         /\ file' = (k \in DOMAIN TaskOf)
         /\ readFileScheduled' = (k \in DOMAIN TaskOf)
         /\ IF k \in DOMAIN TaskOf THEN AddTask(TaskOf[k]) ELSE UNCHANGED tasks
    /\ UNCHANGED <<finished, paused, offset, worker, block, queue, downstream, peer, sent>>

\* the filters let a pause through as long as they are there
OnEgressPaused ==
    /\ handler = "serving" /\ downstream = "attached"
    /\ ~throttled
    /\ pauses < MaxPauses
    /\ throttled' = TRUE
    /\ pauses' = pauses + 1
    /\ paused' = TRUE
    /\ UNCHANGED <<kind, handler, finished, readFileScheduled, file, offset, pool, queue,
                   downstream, response, process>>

OnEgressResumed ==
    /\ downstream = "attached"
    /\ throttled
    /\ throttled' = FALSE
    /\ Resume(readFileScheduled)
    /\ UNCHANGED <<kind, handler, finished, file, offset, worker, block, queue, downstream,
                   pauses, response, process>>

\* the filter passes on the last callback and deletes itself
Detach ==
    /\ downstream = "attached"
    /\ downstream' = "gone"
    /\ finished' = TRUE
    /\ paused' = TRUE
    /\ readFileScheduled' = readFileScheduled
    /\ CheckForCompletion
    /\ UNCHANGED <<kind, file, offset, pool, queue, peer, response, process>>

RequestComplete == egress \in {"eom", "abort"} /\ Detach

\* a timeout, a reset connection, a refused token: at any moment, even before onRequest
OnError == Detach

-----------------------------------------------------------------------------
(* readFile and listFiles, on a thread of the pool *)

Dispatch(w) ==
    /\ worker[w] = "idle"
    /\ \E f \in Tasks :
         /\ tasks[f] > 0
         /\ tasks' = [tasks EXCEPT ![f] = @ - 1]
         /\ worker' = [worker EXCEPT ![w] = IF f = "readFile" THEN "loop" ELSE "list"]
    /\ UNCHANGED <<outside, file, offset, block, queue>>

\* while (file_ && !paused_)
ReadLoop(w) ==
    /\ worker[w] = "loop"
    /\ worker' = [worker EXCEPT ![w] = IF file /\ ~paused THEN "read" ELSE "notify"]
    /\ UNCHANGED <<outside, file, offset, tasks, block, queue>>

\* end of file, or error: the file is closed and the response is given an end
ReadEnd(w, k) ==
    /\ file' = FALSE
    /\ Enqueue(k, 0)
    /\ worker' = [worker EXCEPT ![w] = "notify"]
    /\ UNCHANGED <<offset, block>>

ReadChunk(w) ==
    /\ offset' = offset + 1
    /\ block' = [block EXCEPT ![w] = offset + 1]
    /\ worker' = [worker EXCEPT ![w] = "post"]
    /\ UNCHANGED <<file, queue>>

\* read(2) gives the next chunk, or nothing at the end
ReadPast(w) == ReadChunk(w)   \* mutant
ReadShort(w) == IF offset + 1 < Chunks THEN ReadChunk(w) ELSE ReadEnd(w, "eom")   \* mutant
ReadNext(w) == IF offset < Chunks THEN ReadChunk(w) ELSE ReadEnd(w, "eom")

ReadBlock(w) ==
    /\ worker[w] = "read"
    /\ ReadNext(w) \/ ReadEnd(w, "abort")
    /\ UNCHANGED <<outside, tasks>>

PostBlock(w) ==
    /\ worker[w] = "post"
    /\ Enqueue("body", block[w])
    /\ worker' = [worker EXCEPT ![w] = "loop"]
    /\ UNCHANGED <<outside, file, offset, tasks, block>>

Notify(w) ==
    /\ worker[w] = "notify"
    /\ Enqueue("done", 0)
    /\ worker' = [worker EXCEPT ![w] = "idle"]
    /\ UNCHANGED <<outside, file, offset, tasks, block>>

\* a directory that cannot be iterated is an exception the pool swallows
List(w) ==
    /\ worker[w] = "list"
    /\ Enqueue("listing", 0) \/ UNCHANGED queue
    /\ worker' = [worker EXCEPT ![w] = "idle"]
    /\ UNCHANGED <<outside, file, offset, tasks, block>>

Work(w) == Dispatch(w) \/ ReadLoop(w) \/ ReadBlock(w) \/ PostBlock(w) \/ Notify(w) \/ List(w)

-----------------------------------------------------------------------------
(* Lambdas, on the event-base thread *)

Run(k) ==
    /\ queue # <<>>
    /\ Head(queue).kind = k
    /\ queue' = Tail(queue)

RunBody ==
    /\ Run("body")
    /\ Touch
    /\ sent' = IF downstream = "attached" THEN Append(sent, Head(queue).chunk) ELSE sent
    /\ UNCHANGED <<kind, handler, flags, file, offset, pool, downstream, peer, egress>>

\* sendWithEOM or sendAbort
RunEnd(k) ==
    /\ Run(k)
    /\ Touch
    /\ egress' = IF downstream = "attached" THEN k ELSE egress
    /\ UNCHANGED <<kind, handler, flags, file, offset, pool, downstream, peer, sent>>

\* the listing and its end; nothing clears readFileScheduled_
RunListing ==
    /\ Run("listing")
    /\ Touch
    /\ egress' = IF downstream = "attached" THEN "eom" ELSE egress
    /\ finished' = TRUE
    /\ UNCHANGED <<kind, handler, paused, readFileScheduled, file, offset, pool, downstream,
                   peer, sent>>

\* readFile has returned: delete, or go on if the peer takes data (again)
RunDoneForgetful ==   \* mutant
    /\ Run("done")
    /\ readFileScheduled' = FALSE
    /\ UNCHANGED <<finished, paused, tasks>>
    /\ CheckForCompletion
    /\ UNCHANGED <<kind, file, offset, worker, block, downstream, peer, response, process>>
RunDoneChecksFirst ==   \* mutant
    /\ Run("done")
    /\ UNCHANGED finished
    /\ handler' = IF finished /\ ~readFileScheduled THEN "deleted" ELSE handler
    /\ IF finished \/ paused
         THEN readFileScheduled' = FALSE /\ UNCHANGED <<paused, tasks>>
         ELSE Resume(FALSE)
    /\ UNCHANGED <<kind, file, offset, worker, block, downstream, peer, response, process>>
RunDone ==
    /\ Run("done")
    /\ UNCHANGED finished
    /\ IF finished \/ paused
         THEN readFileScheduled' = FALSE /\ UNCHANGED <<paused, tasks>>
         ELSE Resume(FALSE)
    /\ CheckForCompletion
    /\ UNCHANGED <<kind, file, offset, worker, block, downstream, peer, response, process>>

RunLambda == RunBody \/ RunEnd("eom") \/ RunEnd("abort") \/ RunListing \/ RunDone

-----------------------------------------------------------------------------

Callback ==
    /\ process = "up"
    /\ OnRequest \/ OnEgressPaused \/ OnEgressResumed \/ RequestComplete \/ OnError

Pool(w) == process = "up" /\ Work(w)

Loop == process = "up" /\ RunLambda

Next == Callback \/ (\E w \in Workers : Pool(w)) \/ Loop

Spec == Init /\ [][Next]_vars

\* the threads of the pool and the event base never stop running what they were given
Threads == (\A w \in Workers : WF_vars(Pool(w))) /\ WF_vars(Loop)

\* and a peer that stopped taking data takes some again
FairSpec == Spec /\ Threads /\ WF_vars(process = "up" /\ OnEgressResumed)

-----------------------------------------------------------------------------
(* Properties *)

LambdaKinds == {"body", "eom", "abort", "listing", "done"}
Lambdas == [kind : LambdaKinds, chunk : 0 .. Chunks]
Places == {"idle", "loop", "read", "post", "notify", "list"}

\* The type of every variable of the handler and of what runs it.
TypeOK ==
    /\ kind \in AllKinds \cup {"unknown"}
    /\ handler \in {"new", "serving", "deleted"}
    /\ finished \in BOOLEAN /\ paused \in BOOLEAN /\ readFileScheduled \in BOOLEAN
    /\ file \in BOOLEAN
    /\ offset \in 0 .. Chunks
    /\ tasks \in [Tasks -> Nat]
    /\ worker \in [Workers -> Places]
    /\ block \in [Workers -> 0 .. Chunks]
    /\ queue \in Seq(Lambdas)
    /\ downstream \in {"attached", "gone"}
    /\ throttled \in BOOLEAN /\ pauses \in Nat
    /\ sent \in Seq(0 .. Chunks)
    /\ egress \in {"none", "open", "eom", "abort"}
    /\ process \in {"up", "died"}

Busy(w) == worker[w] # "idle"

\* file_, a plain pointer, and the position in the file belong to one thread: however pauses,
\* resumptions, errors and the lambdas of an earlier readFile interleave, readFile never runs
\* on two threads, none waits in the pool while one runs, and while one runs
\* readFileScheduled_ keeps the event-base thread away from file_.
OneReader ==
    \A w \in Workers : Busy(w) =>
        /\ readFileScheduled
        /\ tasks["readFile"] = 0 /\ tasks["listFiles"] = 0
        /\ \A v \in Workers : Busy(v) => v = w

\* A call waits in the pool or runs there, or a lambda is queued.
UnderWay ==
    \/ \E w \in Workers : Busy(w)
    \/ tasks["readFile"] + tasks["listFiles"] > 0
    \/ queue # <<>>

\* "delete this" comes last: as long as a call waits in the pool or runs there, a lambda is
\* queued, or the filter can still call back, the handler they point to exists.
AliveWhileUsed == UnderWay \/ downstream = "attached" => handler # "deleted"

\* ... and it does come: when the connection is over and nothing is under way, on whichever of
\* the paths that came last, the handler has deleted itself, unless it lists a directory.
NoHandlerLeaks ==
    downstream = "gone" /\ ~UnderWay => (handler = "deleted" <=> kind # "directory")

\* Both: the handler deletes itself neither too early nor never, but for directories.
DeletedInTime == AliveWhileUsed /\ NoHandlerLeaks

\* A response that has begun and is not at its end has somebody to go on with it.  If no readFile
\* is under way the peer has stopped taking data, and onEgressResumed, when it takes some again,
\* will find an open file and readFileScheduled_ clear: so a resumption that comes between the
\* end of the read loop and its last lambda is not lost, nor a pause taken for the end.
NoWakeUpLost ==
    kind = "file" /\ egress = "open" /\ downstream = "attached" /\ ~UnderWay =>
        throttled /\ file /\ ~readFileScheduled

\* The response to a request for a file is the file: its chunks in order, each once, and the
\* end of the message only after the last of them; whatever ends it early, nothing follows.
Stream == INSTANCE FileStream WITH
    state <- IF egress = "eom" /\ kind = "file" THEN "whole"
             ELSE IF egress \in {"eom", "abort"} \/ downstream = "gone" THEN "cut"
             ELSE "open"

ImplementsStream == Stream!StreamSpec

\* With a peer that takes data again, the response to a request for a file comes to its end, or
\* its connection does.
ResponseEnds ==
    kind = "file" ~> (egress \in {"eom", "abort"} \/ downstream = "gone" \/ process = "died")

\* A handler that does not list a directory is deleted after its connection is over, on
\* whichever of the two paths (the last callback, the last lambda) comes second.
HandlerDeleted ==
    (kind \in {"refused", "file"} /\ downstream = "gone") ~> (handler = "deleted" \/ process = "died")

=============================================================================
