------------------------------ MODULE LogEngine ------------------------------
(***************************************************************************)
(* LogEngine (core/log_engine.hpp, src/log_engine.cpp): producers call     *)
(* enqueue(), which starts the engine if it is not running, takes a record *)
(* from the free list, fills it and pushes it on the queue; the worker     *)
(* thread pops, prints and recycles the records; shutdown() stops and      *)
(* joins it, and the next enqueue() starts everything again on a new pool. *)
(*                                                                         *)
(* FreeList and MpscQueue are the real ones, step by step.                 *)
(***************************************************************************)
EXTENDS FreeList, MpscQueue, FiniteSets

CONSTANTS
    Producer,       \* threads that call enqueue()
    Worker,         \* the thread that runs worker_loop()
    Closer,         \* threads that call shutdown()
    PoolSize,       \* 1024 in the code
    Logs,           \* bound: calls of enqueue() per producer
    Shutdowns,      \* bound: calls of shutdown()
    Quiet,          \* no enqueue() overlaps a shutdown()
    StartFails,     \* memory or threads may run out at a start
    NoMsg           \* destroyed storage

Pools == Shutdowns + 1      \* every start needs a shutdown before it

ASSUME LogEngineAssumption ==
    /\ Thread = Producer \cup {Worker}
    /\ Worker \notin Producer
    /\ PoolSize \in Nat \ {0}
    /\ Logs \in Nat
    /\ Shutdowns \in Nat
    /\ Quiet \in BOOLEAN /\ StartFails \in BOOLEAN
    /\ Record = (1..Pools) \X (1..PoolSize)     \* <<pool, index>>
    /\ NULL \notin Record /\ Stub \notin Record

\* The k-th envelope logged by producer t.
Msg == Producer \X (1..Logs)

VARIABLES
    run_,               \* run_
    pool,               \* which allocation pool_storage_ holds; 0: none
    worker_,            \* worker_: "none" or "joinable"
    dropped_, enqueued_, written_,      \* the counters
    storage,            \* the envelope in LogRecord::storage
    e_pc, e_i, e_rec,   \* enqueue(): control, loop index of the init, rec
    w_pc, w_stage, w_rec, pending_recycle,      \* worker_loop()
    s_pc,               \* shutdown()
    calls,              \* history: calls of enqueue() per producer
    closes,             \* history: calls of shutdown()
    thrown,             \* history: calls of enqueue() that threw
    output,             \* history: what submit_fn printed
    terminated          \* std::terminate: a joinable thread was overwritten

counters == <<dropped_, enqueued_, written_>>
lifecycle == <<run_, pool, worker_, s_pc, closes, thrown, terminated>>
enqueueVars == <<e_pc, e_i, e_rec, calls>>
workerVars == <<w_pc, w_stage, w_rec, pending_recycle, output>>
vars == <<flVars, queueVars, counters, lifecycle, enqueueVars, workerVars, storage>>

\* What no access of enqueue() to the two structures changes, what none of
\* worker_loop() does, and the locals of worker_loop().
besideEnqueue == <<counters, lifecycle, storage, calls, workerVars>>
besideLoop == <<counters, lifecycle, storage, enqueueVars, output>>
loopLocals == <<w_stage, w_rec, pending_recycle>>

Init ==
    /\ FreeListInit
    /\ MpscQueueInit
    /\ run_ = FALSE /\ pool = 0 /\ worker_ = "none"
    /\ dropped_ = 0 /\ enqueued_ = 0 /\ written_ = 0
    /\ storage = [r \in Record |-> NoMsg]
    /\ e_pc = [t \in Producer |-> "idle"]
    /\ e_i = [t \in Producer |-> 0]
    /\ e_rec = [t \in Producer |-> NULL]
    /\ w_pc = "none" /\ w_stage = "main" /\ w_rec = NULL
    /\ pending_recycle = NULL
    /\ s_pc = [c \in Closer |-> "idle"]
    /\ calls = [t \in Producer |-> 0]
    /\ closes = 0 /\ thrown = 0
    /\ output = <<>>
    /\ terminated = FALSE

TypeOK ==
    /\ FreeListTypeOK
    /\ MpscQueueTypeOK
    /\ run_ \in BOOLEAN /\ pool \in 0..Pools /\ worker_ \in {"none", "joinable"}
    /\ dropped_ \in Nat /\ enqueued_ \in Nat /\ written_ \in Nat
    /\ storage \in [Record -> Msg \cup {NoMsg}]
    /\ e_pc \in [Producer -> {"idle", "alloc", "fill", "filling", "acquire",
                              "store", "queue", "count"}]
    /\ e_i \in [Producer -> 0..PoolSize + 1]
    /\ e_rec \in [Producer -> FreePtr]
    /\ w_pc \in {"none", "loop", "empty", "pop", "recycle", "recycling",
                 "submit", "reset", "done"}
    /\ w_stage \in {"main", "drain", "last"}
    /\ w_rec \in FreePtr /\ pending_recycle \in FreePtr
    /\ s_pc \in [Closer -> {"idle", "joinable", "join"}]
    /\ calls \in [Producer -> 0..Logs] /\ closes \in 0..Shutdowns
    /\ thrown \in Nat
    /\ output \in Seq(Msg \cup {NoMsg})
    /\ terminated \in BOOLEAN

-----------------------------------------------------------------------------
(* enqueue(), producer t *)

Goto(t, from, to) ==
    /\ ~terminated
    /\ e_pc[t] = from
    /\ e_pc' = [e_pc EXCEPT ![t] = to]

\* ensure_running: the CAS false -> true on run_.  Only its winner starts the
\* engine; the others go on at once, whether it is started yet or not.
EnsureRunning(t) ==
    /\ calls[t] < Logs
    /\ Quiet => \A c \in Closer : s_pc[c] = "idle"
    /\ Goto(t, "idle", IF run_ THEN "acquire" ELSE "alloc")
    /\ run_' = TRUE
    /\ calls' = [calls EXCEPT ![t] = @ + 1]
    /\ UNCHANGED <<flVars, queueVars, counters, pool, worker_, s_pc, closes,
                   thrown, terminated, storage, e_i, e_rec, workerVars>>

\* init_pool_and_queue: a new array; assigning the unique_ptr frees the old
\* one.  What a thread reads in a freed record is anything at all, and here it
\* is what was there before: a behaviour says something of the program as long
\* as NoFreedRecord holds, and what is claimed is claimed of those.
AllocPool(t) ==
    /\ Goto(t, "alloc", "fill")
    /\ pool' = pool + 1
    /\ e_i' = [e_i EXCEPT ![t] = 1]
    /\ UNCHANGED <<flVars, queueVars, counters, run_, worker_, s_pc, closes,
                   thrown, terminated, storage, e_rec, calls, workerVars>>

\* Neither function is noexcept: make_unique throws before the old array is
\* freed, or std::thread before worker_ is assigned, and the exception leaves
\* enqueue(); nobody takes run_ back.
StartThrows(t) ==
    /\ StartFails
    /\ \/ Goto(t, "alloc", "idle")
       \/ e_i[t] > PoolSize /\ Goto(t, "fill", "idle")
    /\ thrown' = thrown + 1
    /\ UNCHANGED <<flVars, queueVars, counters, run_, pool, worker_, s_pc, closes,
                   terminated, storage, e_i, e_rec, calls, workerVars>>

\* Mutation of Fill: i <= pool_size_ in the loop over the pool.
FillOneMore(t) ==
    /\ e_i[t] <= PoolSize + 1
    /\ Goto(t, "fill", "filling")
    /\ PushLoad(t, <<pool, e_i[t]>>)
    /\ UNCHANGED <<queueVars, e_i, e_rec, besideEnqueue>>

\* init_pool_and_queue: freelist_.push(&pool_storage_[i]).
Fill(t) ==
    /\ e_i[t] <= PoolSize
    /\ Goto(t, "fill", "filling")
    /\ PushLoad(t, <<pool, e_i[t]>>)
    /\ UNCHANGED <<queueVars, e_i, e_rec, besideEnqueue>>

Filling(t) ==
    /\ \/ /\ Goto(t, "filling", "filling")
          /\ PushStep(t)
          /\ UNCHANGED e_i
       \/ /\ Goto(t, "filling", "fill")
          /\ PushCas(t)
          /\ e_i' = [e_i EXCEPT ![t] = @ + 1]
    /\ UNCHANGED <<queueVars, e_rec, besideEnqueue>>

\* worker_ = std::thread(...): overwriting a joinable thread terminates.
StartWorker(t) ==
    /\ e_i[t] > PoolSize
    /\ Goto(t, "fill", "acquire")
    /\ IF worker_ = "joinable"
       THEN terminated' = TRUE /\ UNCHANGED <<worker_, workerVars>>
       ELSE /\ worker_' = "joinable"
            /\ w_pc' = "loop" /\ w_stage' = "main"
            /\ w_rec' = NULL /\ pending_recycle' = NULL
            /\ UNCHANGED <<terminated, output>>
    /\ UNCHANGED <<flVars, queueVars, counters, run_, pool, s_pc, closes, thrown,
                   storage, e_i, e_rec, calls>>

\* acquire_record: try_pop() goes on, ...
AcquireStep(t) ==
    /\ Goto(t, "acquire", "acquire")
    /\ PopLoad(t) \/ PopStep(t)
    /\ UNCHANGED <<queueVars, e_i, e_rec, besideEnqueue>>

\* ... returns nullptr: the message is dropped, ...
Drop(t) ==
    /\ Goto(t, "acquire", "idle")
    /\ PopLoadNull(t) \/ PopRetryNull(t)
    /\ dropped_' = dropped_ + 1
    /\ UNCHANGED <<queueVars, enqueued_, written_, lifecycle, storage, e_i,
                   e_rec, calls, workerVars>>

\* ... or returns a record.
Acquire(t) ==
    /\ Goto(t, "acquire", "store")
    /\ PopCas(t)
    /\ e_rec' = [e_rec EXCEPT ![t] = fl_h[t]]
    /\ UNCHANGED <<queueVars, e_i, besideEnqueue>>

\* Mutation of Store: the record goes to the queue as it was.
StoreNothing(t) ==
    /\ Goto(t, "store", "queue")
    /\ UNCHANGED <<flVars, queueVars, e_i, e_rec, besideEnqueue>>

\* new (mem) Stored{env}, destroy_fn and submit_fn.
Store(t) ==
    /\ Goto(t, "store", "queue")
    /\ storage' = [storage EXCEPT ![e_rec[t]] = <<t, calls[t]>>]
    /\ UNCHANGED <<flVars, queueVars, counters, lifecycle, e_i, e_rec, calls,
                   workerVars>>

\* push_to_queue.
Queue(t) ==
    /\ \/ Goto(t, "queue", "queue") /\ (QClear(t, e_rec[t]) \/ QSwap(t))
       \/ Goto(t, "queue", "count") /\ QLink(t)
    /\ UNCHANGED <<flVars, e_i, e_rec, besideEnqueue>>

\* enqueued_.fetch_add(1), and enqueue() returns.
Count(t) ==
    /\ Goto(t, "count", "idle")
    /\ enqueued_' = enqueued_ + 1
    /\ e_rec' = [e_rec EXCEPT ![t] = NULL]
    /\ UNCHANGED <<flVars, queueVars, dropped_, written_, lifecycle, storage,
                   e_i, calls, workerVars>>

Enqueue(t) ==
    \/ EnsureRunning(t) \/ AllocPool(t) \/ Fill(t) \/ Filling(t)
    \/ StartWorker(t) \/ StartThrows(t) \/ AcquireStep(t) \/ Drop(t) \/ Acquire(t)
    \/ Store(t) \/ Queue(t) \/ Count(t)

-----------------------------------------------------------------------------
(* worker_loop() *)

WGoto(from, to) ==
    /\ ~terminated
    /\ w_pc = from
    /\ w_pc' = to

\* Mutation of WorkerTest: a cleared run_ ends both loops.
WorkerTestOnlyRun ==
    /\ WGoto("loop", IF run_ THEN "pop" ELSE "reset")
    /\ UNCHANGED <<flVars, queueVars, besideLoop, loopLocals>>

\* Mutation of WorkerTest: run_ is not asked.
WorkerTestNever ==
    /\ WGoto("loop", "pop")
    /\ UNCHANGED <<flVars, queueVars, besideLoop, loopLocals>>

\* while (run_ || ...).
WorkerTest ==
    /\ WGoto("loop", IF run_ THEN "pop" ELSE "empty")
    /\ UNCHANGED <<flVars, queueVars, besideLoop, loopLocals>>

\* ... || !queue_.empty(); the loop ends when both are false.
WorkerAskEmpty ==
    /\ \/ WGoto("empty", "pop") /\ (QEmptyNo \/ QEmptyBusy) /\ UNCHANGED w_stage
       \/ WGoto("empty", "empty") /\ QEmptyMiss /\ UNCHANGED w_stage
       \/ WGoto("empty", "pop") /\ QEmptyYes /\ w_stage' = "drain"
    /\ UNCHANGED <<flVars, w_rec, pending_recycle, besideLoop>>

\* queue_.pop() returns a node: first the record before it is recycled.
WorkerPop ==
    /\ WGoto("pop", IF pending_recycle = NULL THEN "submit" ELSE "recycle")
    /\ QPop \/ QPopSpun
    /\ w_rec' = NextOfHead
    /\ UNCHANGED <<flVars, w_stage, pending_recycle, besideLoop>>

\* Mutation of WorkerPopNone: an empty queue ends the main loop too.
WorkerPopNoneLeaves ==
    /\ \/ WGoto("pop", "pop") /\ (QPopMiss \/ QPopBusy)
       \/ WGoto("pop", "reset") /\ QPopEmpty
    /\ UNCHANGED <<flVars, besideLoop, loopLocals>>

\* queue_.pop() goes on, or returns nullptr: sleep in the main loop, leave
\* the drain loop.
WorkerPopNone ==
    /\ \/ WGoto("pop", "pop") /\ (QPopMiss \/ QPopBusy)
       \/ WGoto("pop", IF w_stage = "main" THEN "loop" ELSE "reset") /\ QPopEmpty
    /\ UNCHANGED <<flVars, besideLoop, loopLocals>>

\* freelist_.push(pending_recycle).
WorkerRecycle ==
    /\ \/ WGoto("recycle", "recycling") /\ PushLoad(Worker, pending_recycle)
       \/ WGoto("recycling", "recycling") /\ PushStep(Worker)
       \/ /\ WGoto("recycling", IF w_stage = "last" THEN "done" ELSE "submit")
          /\ PushCas(Worker)
    /\ UNCHANGED <<queueVars, besideLoop, loopLocals>>

\* Mutation of WorkerSubmit: pending_recycle keeps the record before.
WorkerSubmitForgets ==
    /\ WGoto("submit", IF w_stage = "main" THEN "loop" ELSE "pop")
    /\ output' = Append(output, storage[w_rec])
    /\ storage' = [storage EXCEPT ![w_rec] = NoMsg]
    /\ written_' = written_ + 1
    /\ w_rec' = NULL
    /\ UNCHANGED <<flVars, queueVars, dropped_, enqueued_, lifecycle,
                   enqueueVars, w_stage, pending_recycle>>

\* submit_fn, destroy_fn, ++written_, pending_recycle = rec.
WorkerSubmit ==
    /\ WGoto("submit", IF w_stage = "main" THEN "loop" ELSE "pop")
    /\ output' = Append(output, storage[w_rec])
    /\ storage' = [storage EXCEPT ![w_rec] = NoMsg]
    /\ written_' = written_ + 1
    /\ pending_recycle' = w_rec
    /\ w_rec' = NULL
    /\ UNCHANGED <<flVars, queueVars, dropped_, enqueued_, lifecycle,
                   enqueueVars, w_stage>>

\* queue_.reset(), then the last record is recycled.
WorkerReset ==
    /\ \/ WGoto("reset", "reset") /\ QResetStub /\ UNCHANGED w_stage
       \/ /\ WGoto("reset", IF pending_recycle = NULL THEN "done" ELSE "recycle")
          /\ QResetTail
          /\ w_stage' = "last"
    /\ UNCHANGED <<flVars, w_rec, pending_recycle, besideLoop>>

WorkerStep ==
    \/ WorkerTest \/ WorkerAskEmpty \/ WorkerPop \/ WorkerPopNone
    \/ WorkerRecycle \/ WorkerSubmit \/ WorkerReset

-----------------------------------------------------------------------------
(* shutdown(), thread c *)

SGoto(c, from, to) ==
    /\ ~terminated
    /\ s_pc[c] = from
    /\ s_pc' = [s_pc EXCEPT ![c] = to]

\* Mutation of Shutdown: the worker is told to stop and not joined.
ShutdownNoJoin(c) ==
    /\ closes < Shutdowns
    /\ Quiet => \A t \in Producer : e_pc[t] = "idle"
    /\ SGoto(c, "idle", "idle")
    /\ run_' = FALSE
    /\ closes' = closes + 1
    /\ UNCHANGED <<flVars, queueVars, counters, pool, worker_, thrown, terminated,
                   storage, enqueueVars, workerVars>>

\* stop_worker: the CAS true -> false on run_; whoever loses it returns.
Shutdown(c) ==
    /\ closes < Shutdowns
    /\ Quiet => \A t \in Producer : e_pc[t] = "idle"
    /\ SGoto(c, "idle", IF run_ THEN "joinable" ELSE "idle")
    /\ run_' = FALSE
    /\ closes' = closes + 1
    /\ UNCHANGED <<flVars, queueVars, counters, pool, worker_, thrown, terminated,
                   storage, enqueueVars, workerVars>>

\* if (worker_.joinable()): not while ensure_running has yet to assign it.
ShutdownJoinable(c) ==
    /\ SGoto(c, "joinable", IF worker_ = "joinable" THEN "join" ELSE "idle")
    /\ UNCHANGED <<flVars, queueVars, counters, run_, pool, worker_, closes,
                   thrown, terminated, storage, enqueueVars, workerVars>>

\* worker_.join() returns once worker_loop has.
ShutdownJoin(c) ==
    /\ w_pc = "done"
    /\ SGoto(c, "join", "idle")
    /\ worker_' = "none"
    /\ w_pc' = "none"
    /\ UNCHANGED <<flVars, queueVars, counters, run_, pool, closes, thrown,
                   terminated, storage, enqueueVars, output, loopLocals>>

ShutdownStep(c) == ShutdownJoinable(c) \/ ShutdownJoin(c)

-----------------------------------------------------------------------------
\* No thread is left to take a step: the bounds on the calls are used up.
Finished ==
    \/ terminated
    \/ /\ \A t \in Producer : e_pc[t] = "idle" /\ calls[t] = Logs
       /\ \A c \in Closer : s_pc[c] = "idle"
       /\ closes = Shutdowns
       /\ w_pc \in {"none", "done"}

Done == Finished /\ UNCHANGED vars

Next ==
    \/ \E t \in Producer : Enqueue(t)
    \/ WorkerStep
    \/ \E c \in Closer : Shutdown(c) \/ ShutdownStep(c)
    \/ Done

Spec == Init /\ [][Next]_vars

\* A thread inside a call is scheduled, the worker thread is scheduled, and a
\* CAS that is offered its expected value again and again succeeds: the
\* standard allows compare_exchange_weak to fail, not to fail for ever.
FairSpec ==
    /\ Spec
    /\ WF_vars(WorkerStep)
    /\ SF_vars(WorkerRecycle /\ PushCas(Worker))
    /\ \A t \in Producer :
          /\ WF_vars(Enqueue(t) /\ e_pc[t] # "idle")
          /\ SF_vars(Filling(t) /\ PushCas(t))
          /\ SF_vars(Acquire(t))
    /\ \A c \in Closer : WF_vars(ShutdownStep(c))

-----------------------------------------------------------------------------
(* Who owns a record *)

\* Acquired by a producer and not yet exchanged into the queue.
OwnedBy(t) ==
    IF e_pc[t] \in {"store", "queue"} /\ q_pc[t] # "link"
    THEN {e_rec[t]} ELSE {}

\* Popped and being printed, or kept back until the next pop.
OwnedByWorker ==
    (IF w_pc \in {"recycle", "recycling", "submit"} THEN {w_rec} \ {NULL} ELSE {})
    \cup (IF w_pc \in {"loop", "empty", "pop", "recycle", "reset"}
          THEN {pending_recycle} \ {NULL} ELSE {})

InPush(t) == IF Pushing(t) THEN {fl_n[t]} ELSE {}

\* How many places hold record r.
Holders(r) ==
    Cardinality({t \in Producer : r \in OwnedBy(t)})
    + Cardinality({t \in Thread : r \in InPush(t)})
    + Cardinality({i \in 1..Len(fifo) : fifo[i] = r})
    + Cardinality({i \in 1..Len(free_stack) : free_stack[i] = r})
    + (IF r \in OwnedByWorker THEN 1 ELSE 0)

\* Records of the current pool that init_pool_and_queue has pushed.
Filled ==
    {<<pool, i>> : i \in {k \in 1..PoolSize :
        pool > 0 /\ \A t \in Producer : e_pc[t] \in {"fill", "filling"} => k < e_i[t]}}

\* Until a stale CAS succeeds, a record of the running pool is in exactly one
\* place, through all its way around: free, owned, queued, printed, kept
\* back, recycled.
OneHolder ==
    ~aba => \A r \in Filled : Holders(r) = 1

-----------------------------------------------------------------------------
(* What the callers see *)

CallsMade == {m \in Msg : m[2] <= calls[m[1]]}

\* Every call has returned, the worker has ended and nobody restarted it.
Stopped ==
    /\ ~run_
    /\ w_pc \in {"none", "done"}
    /\ \A c \in Closer : s_pc[c] = "idle"
    /\ \A t \in Producer : e_pc[t] = "idle"

\* "After shutdown, worker has drained everything": the counters agree, and
\* the output holds as many messages as the calls made and not dropped.
\* test/stress/log_engine_stress_test.cpp:30-31 and 46-50.  A call that threw
\* is counted nowhere, and where one threw there may have been no worker: then
\* what was accepted is still in the queue.
ShutdownDrains ==
    ~aba /\ Stopped =>
        /\ written_ + Len(fifo) = enqueued_
        /\ Len(output) = written_
        /\ enqueued_ + dropped_ + thrown = Cardinality(CallsMade)
        /\ thrown = 0 => fifo = <<>>

\* std::terminate is not reached.
NeverTerminated == ~terminated

\* Accepted, dropped or still on its way.
SentBy(t) ==
    IF \/ e_pc[t] \in {"idle", "count"}
       \/ q_pc[t] = "link"
    THEN calls[t] ELSE calls[t] - 1

\* The messages accepted and not printed: the one in the worker's hands and
\* those in the queue.
PendingMsgs ==
    (IF w_pc \in {"recycle", "recycling", "submit"} /\ w_rec # NULL
     THEN <<storage[w_rec]>> ELSE <<>>)
    \o [i \in 1..Len(fifo) |-> storage[fifo[i]]]

Service == INSTANCE LogService
    WITH sent <- [t \in Producer |-> SentBy(t)],
         pending <- PendingMsgs,
         dropped <- dropped_ + thrown

\* The engine implements the service: QSwap accepts, a nullptr of try_pop and
\* an exception drop, WorkerSubmit prints.
ImplementsService == Service!Spec

\* An accepted message is printed, whatever shutdowns and restarts come.
EveryLogWritten ==
    \A m \in Msg :
        (\E i \in 1..Len(fifo) : storage[fifo[i]] = m)
            ~> (\E i \in 1..Len(output) : output[i] = m)

\* shutdown() returns.
ShutdownReturns == \A c \in Closer : s_pc[c] # "idle" ~> s_pc[c] = "idle"

\* enqueue() returns: no thread can be kept from its record for ever.
EnqueueReturns == \A t \in Producer : e_pc[t] # "idle" ~> e_pc[t] = "idle"

-----------------------------------------------------------------------------
(* What the code's comments and tests say of the engine *)

\* test/integration/log_engine_pipeline_test.cpp:76: "Restart and enqueue
\* again - pool must have been recycled": the links that try_pop reads, the
\* records that a producer fills and the worker prints and those in the queue
\* are records of the pool that is allocated.
NoFreedRecord ==
    /\ \A t \in Producer :
          /\ \A r \in OwnedBy(t) : r[1] = pool
          /\ fl_pc[t] = "pop_read" => fl_h[t][1] = pool
    /\ \A r \in OwnedByWorker : r[1] = pool
    /\ \A i \in 1..Len(fifo) : fifo[i][1] = pool
=============================================================================
