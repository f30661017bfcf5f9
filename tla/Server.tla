-------------------------------- MODULE Server --------------------------------
(***************************************************************************)
(* The runtime of app/include/server/server.h: trySubmit() puts an event   *)
(* into a queue, worker threads take it out and run it through the         *)
(* pipeline, start(), shutdown() and wait() bring the workers up and down. *)
(* One action per access to shared memory.                                 *)
(*                                                                         *)
(* Nothing but the queue's own lock protects the queue; queuedApprox_      *)
(* counts it from outside, after each push and each pop, and a worker that *)
(* finds nothing sleeps on wakeCv_ until queuedApprox_ or stopRequested_   *)
(* changes.  Who changes them does not hold wakeMutex_.                    *)
(*                                                                         *)
(* Abstracted: the event's way through adapters, parser, executor and      *)
(* distributor is one step that succeeds or fails (Pipeline has it in      *)
(* detail); hooks do nothing.  The owner calls start() and wait();         *)
(* shutdown() and trySubmit() may come from anybody at any time, and the   *)
(* history variables lapse and lost say where they met at a bad moment.    *)
(***************************************************************************)
EXTENDS Integers, Sequences, FiniteSets

CONSTANTS
    Submitter, Worker, Owner, Stopper,  \* threads; Owner is one of them
    Event, NoEvent,
    NoWorker,
    queue_capacity,         \* ExecutionConfig
    enable_backpressure,
    Limit,                  \* of the injected QueueT (SimpleMutexQueue: none)
    Wrap,                   \* 2^64: the range of queuedApprox_
    Mode,                   \* the shutdown modes that are used
    MaxStarts, MaxShutdowns     \* bounds

ASSUME ServerAssumption ==
    /\ Owner \notin Stopper
    /\ Submitter # {} /\ IsFiniteSet(Submitter)
    /\ Worker # {} /\ IsFiniteSet(Worker)      \* start() makes one of none
    /\ queue_capacity \in Nat
    /\ IsFiniteSet(Event) /\ Wrap \in Nat /\ Cardinality(Event) < Wrap
    /\ Limit \in Nat
    /\ enable_backpressure \in BOOLEAN
    /\ Mode \subseteq {"graceful", "force"}

Caller == {Owner} \cup Stopper

VARIABLES
    state_, shutdownMode_, stopRequested_, queuedApprox_, wakeMutex_,
    queue_,
    workers_,       \* the worker threads that were started and not joined
    metrics_,       \* MetricsMixin
    s_pc, s_ev,     \* each submitter inside trySubmit
    w_pc, w_ev,     \* each worker inside workerLoop
    l_pc,           \* each caller of start, shutdown and wait
    used,           \* history: the events that were submitted
    calls,          \* history: how many starts and shutdowns
    lapse,          \* history: which of Lapses have happened
    lost            \* history: what start() found where it wrote zero

lifeVars == <<state_, shutdownMode_, stopRequested_>>
subVars  == <<s_pc, s_ev, used>>
workVars == <<w_pc, w_ev, workers_, wakeMutex_>>
callVars == <<l_pc, calls>>
histVars == <<lapse, lost>>
vars == <<lifeVars, queuedApprox_, queue_, metrics_, subVars, workVars, callVars, histVars>>

Init ==
    /\ state_ = "created" /\ shutdownMode_ = "graceful" /\ stopRequested_ = FALSE
    /\ queuedApprox_ = 0 /\ wakeMutex_ = NoWorker /\ queue_ = <<>>
    /\ workers_ = {}
    /\ metrics_ = [accepted |-> 0, full |-> 0, stopped |-> 0, error |-> 0, inflight |-> 0]
    /\ s_pc = [s \in Submitter |-> "idle"] /\ s_ev = [s \in Submitter |-> NoEvent]
    /\ w_pc = [w \in Worker |-> "exited"] /\ w_ev = [w \in Worker |-> NoEvent]
    /\ l_pc = [t \in Caller |-> "idle"]
    /\ used = {} /\ calls = [starts |-> 0, shutdowns |-> 0]
    /\ lapse = {} /\ lost = 0

Lapses == {
    "missed",       \* a notification between a worker's look at the condition and its sleep
    "forced",       \* a forced shutdown
    "early",        \* a trySubmit while start() has still to write zero over the count
    "late",         \* stopping is stored while a trySubmit is past its look at the state
    "forgotten",    \* the stop flag is stored before a start() that has begun clears it
    "stray"         \* the stop flag is stored on a server that has been started since
}

TypeOK ==
    /\ state_ \in {"created", "running", "stopping", "stopped"}
    /\ shutdownMode_ \in {"graceful", "force"} /\ stopRequested_ \in BOOLEAN
    /\ queuedApprox_ \in 0..Wrap - 1
    /\ wakeMutex_ \in Worker \cup {NoWorker}
    /\ queue_ \in Seq(Event)
    /\ workers_ \subseteq Worker
    /\ metrics_ \in [{"accepted", "full", "stopped", "error", "inflight"} -> Nat]
    /\ s_pc \in [Submitter -> {"idle", "depth", "push", "add", "notify"}]
    /\ s_ev \in [Submitter -> Event \cup {NoEvent}]
    /\ w_pc \in [Worker -> {"pop", "sub", "process", "stop?", "mode?", "depth?", "lock",
                            "queued?", "stopping?", "block", "wait", "exited"}]
    /\ w_ev \in [Worker -> Event \cup {NoEvent}]
    /\ l_pc \in [Caller -> {"idle", "clear", "count", "spawn", "check", "stopping",
                            "flag", "notify", "join", "store"}]
    /\ used \subseteq Event
    /\ calls.starts \in Nat /\ calls.shutdowns \in Nat
    /\ lapse \subseteq Lapses /\ lost \in Int

Bump(counter) == metrics_' = [metrics_ EXCEPT ![counter] = @ + 1]

\* A worker that has looked at the condition and is not asleep yet.
Lapse(kind, when) == lapse' = lapse \cup (IF when THEN {kind} ELSE {})
FallingAsleep == \E w \in Worker : w_pc[w] \in {"stopping?", "block"}

-----------------------------------------------------------------------------
(* trySubmit *)

Submitting(s) == s_pc[s] # "idle"

SubmitGoes(s, to) == s_pc' = [s_pc EXCEPT ![s] = to]

SubmitReturns(s) ==
    /\ SubmitGoes(s, "idle")
    /\ s_ev' = [s_ev EXCEPT ![s] = NoEvent]

\* state_ decides; validateEvent accepts everything.
Submit(s, e) ==
    /\ s_pc[s] = "idle"
    /\ e \notin used
    /\ used' = used \cup {e}
    /\ IF state_ # "running"
       THEN Bump("stopped") /\ UNCHANGED <<s_pc, s_ev>>
       ELSE /\ SubmitGoes(s, IF enable_backpressure THEN "depth" ELSE "push")
            /\ s_ev' = [s_ev EXCEPT ![s] = e]
            /\ UNCHANGED metrics_
    /\ Lapse("early", state_ = "running" /\ l_pc[Owner] \in {"clear", "count"})
    /\ UNCHANGED <<lifeVars, queuedApprox_, queue_, workVars, callVars, lost>>

\* Mutation of SubmitDepth: one more than the capacity is let in.
SubmitDepthOneMore(s) ==
    /\ s_pc[s] = "depth"
    /\ IF queuedApprox_ > queue_capacity
       THEN Bump("full") /\ SubmitReturns(s)
       ELSE SubmitGoes(s, "push") /\ UNCHANGED <<metrics_, s_ev>>
    /\ UNCHANGED <<lifeVars, queuedApprox_, queue_, used, workVars, callVars, histVars>>

SubmitDepth(s) ==
    /\ s_pc[s] = "depth"
    /\ IF queuedApprox_ >= queue_capacity
       THEN Bump("full") /\ SubmitReturns(s)
       ELSE SubmitGoes(s, "push") /\ UNCHANGED <<metrics_, s_ev>>
    /\ UNCHANGED <<lifeVars, queuedApprox_, queue_, used, workVars, callVars, histVars>>

SubmitPush(s) ==
    /\ s_pc[s] = "push"
    /\ IF Len(queue_) >= Limit
       THEN Bump("full") /\ SubmitReturns(s) /\ UNCHANGED queue_
       ELSE /\ queue_' = Append(queue_, s_ev[s])
            /\ SubmitGoes(s, "add")
            /\ UNCHANGED <<metrics_, s_ev>>
    /\ UNCHANGED <<lifeVars, queuedApprox_, used, workVars, callVars, histVars>>

\* fetch_add and onAccepted.
SubmitAdd(s) ==
    /\ s_pc[s] = "add"
    /\ queuedApprox_' = (queuedApprox_ + 1) % Wrap
    /\ Bump("accepted")
    /\ SubmitGoes(s, "notify")
    /\ UNCHANGED <<lifeVars, queue_, s_ev, used, workVars, callVars, histVars>>

\* Mutation of SubmitNotify: nobody is woken.
SubmitNotifyNobody(s) ==
    /\ s_pc[s] = "notify"
    /\ Lapse("missed", FallingAsleep) /\ UNCHANGED lost
    /\ SubmitReturns(s)
    /\ UNCHANGED <<lifeVars, queuedApprox_, queue_, metrics_, used, workVars, callVars>>

\* notify_one wakes one of the workers that sleep, if any does.
SubmitNotify(s) ==
    /\ s_pc[s] = "notify"
    /\ IF \A w \in Worker : w_pc[w] # "wait" THEN UNCHANGED w_pc
       ELSE \E w \in Worker : /\ w_pc[w] = "wait"
                              /\ w_pc' = [w_pc EXCEPT ![w] = "lock"]
    /\ Lapse("missed", FallingAsleep) /\ UNCHANGED lost
    /\ SubmitReturns(s)
    /\ UNCHANGED <<lifeVars, queuedApprox_, queue_, metrics_, used,
                   w_ev, workers_, wakeMutex_, callVars>>

SubmitStep(s) == SubmitDepth(s) \/ SubmitPush(s) \/ SubmitAdd(s) \/ SubmitNotify(s)

-----------------------------------------------------------------------------
(* workerLoop *)

\* A step of w that only looks, or takes or leaves the mutex.
WorkerGoes(w, from, to) ==
    /\ w_pc[w] = from
    /\ w_pc' = [w_pc EXCEPT ![w] = to]
    /\ UNCHANGED <<lifeVars, queuedApprox_, queue_, metrics_, subVars, w_ev, workers_,
                   callVars, histVars>>

\* tryPop, and in tryPopOne what it leads to.
WorkerPop(w) ==
    /\ w_pc[w] = "pop"
    /\ queue_ # <<>>
    /\ w_ev' = [w_ev EXCEPT ![w] = Head(queue_)]
    /\ queue_' = Tail(queue_)
    /\ w_pc' = [w_pc EXCEPT ![w] = "sub"]
    /\ UNCHANGED <<lifeVars, queuedApprox_, metrics_, subVars, workers_, wakeMutex_,
                   callVars, histVars>>

\* Mutation of WorkerSub: the count is not taken back.
WorkerSubNothing(w) ==
    /\ w_pc[w] = "sub"
    /\ Bump("inflight")
    /\ w_pc' = [w_pc EXCEPT ![w] = "process"]
    /\ UNCHANGED <<lifeVars, queue_, queuedApprox_, subVars, w_ev, workers_, wakeMutex_,
                   callVars, histVars>>

\* fetch_sub, which wraps below zero, and inflightInc.
WorkerSub(w) ==
    /\ w_pc[w] = "sub"
    /\ queuedApprox_' = (queuedApprox_ - 1) % Wrap
    /\ Bump("inflight")
    /\ w_pc' = [w_pc EXCEPT ![w] = "process"]
    /\ UNCHANGED <<lifeVars, queue_, subVars, w_ev, workers_, wakeMutex_, callVars, histVars>>

\* Mutation of WorkerProcess: an early return past inflightDec.
WorkerProcessNoDec(w) ==
    /\ w_pc[w] = "process"
    /\ \E failed \in {0, 1} :
          metrics_' = [metrics_ EXCEPT !.error = @ + failed, !.inflight = @ - 1 + failed]
    /\ w_ev' = [w_ev EXCEPT ![w] = NoEvent]
    /\ w_pc' = [w_pc EXCEPT ![w] = "pop"]
    /\ UNCHANGED <<lifeVars, queuedApprox_, queue_, subVars, workers_, wakeMutex_,
                   callVars, histVars>>

\* processEvent, whose decoding, parsing or execution may fail; inflightDec.
WorkerProcess(w) ==
    /\ w_pc[w] = "process"
    /\ \E failed \in {0, 1} :
          metrics_' = [metrics_ EXCEPT !.error = @ + failed, !.inflight = @ - 1]
    /\ w_ev' = [w_ev EXCEPT ![w] = NoEvent]
    /\ w_pc' = [w_pc EXCEPT ![w] = "pop"]
    /\ UNCHANGED <<lifeVars, queuedApprox_, queue_, subVars, workers_, wakeMutex_,
                   callVars, histVars>>

\* Nothing to pop: shouldExitWorker looks at the flag,
WorkerIdle(w) ==
    /\ queue_ = <<>>
    /\ WorkerGoes(w, "pop", "stop?")
    /\ UNCHANGED wakeMutex_

WorkerAskStop(w) ==
    /\ WorkerGoes(w, "stop?", IF stopRequested_ THEN "mode?" ELSE "lock")
    /\ UNCHANGED wakeMutex_

\* at the mode,
WorkerAskMode(w) ==
    /\ WorkerGoes(w, "mode?", IF shutdownMode_ = "force" THEN "exited" ELSE "depth?")
    /\ UNCHANGED wakeMutex_

\* Mutation of WorkerAskDepth: the tryPop before is trusted.
WorkerAskNoDepth(w) ==
    /\ WorkerGoes(w, "depth?", "exited")
    /\ UNCHANGED wakeMutex_

\* and at the count.
WorkerAskDepth(w) ==
    /\ WorkerGoes(w, "depth?", IF queuedApprox_ = 0 THEN "exited" ELSE "lock")
    /\ UNCHANGED wakeMutex_

\* unique_lock; also the end of a sleep.
WorkerLock(w) ==
    /\ wakeMutex_ = NoWorker
    /\ WorkerGoes(w, "lock", "queued?")
    /\ wakeMutex_' = w

\* The condition of wait(): its two loads, one after the other.
WorkerQueued(w) ==
    IF queuedApprox_ > 0
    THEN WorkerGoes(w, "queued?", "pop") /\ wakeMutex_' = NoWorker
    ELSE WorkerGoes(w, "queued?", "stopping?") /\ UNCHANGED wakeMutex_

WorkerStopping(w) ==
    IF stopRequested_
    THEN WorkerGoes(w, "stopping?", "pop") /\ wakeMutex_' = NoWorker
    ELSE WorkerGoes(w, "stopping?", "block") /\ UNCHANGED wakeMutex_

\* wait() releases the mutex and sleeps, in one step.
WorkerBlock(w) ==
    /\ WorkerGoes(w, "block", "wait")
    /\ wakeMutex_' = NoWorker

WorkerStep(w) ==
    \/ WorkerPop(w) \/ WorkerSub(w) \/ WorkerProcess(w)
    \/ WorkerIdle(w) \/ WorkerAskStop(w) \/ WorkerAskMode(w) \/ WorkerAskDepth(w)
    \/ WorkerLock(w) \/ WorkerQueued(w) \/ WorkerStopping(w) \/ WorkerBlock(w)

\* A condition variable may wake a sleeper for no reason.
Spurious(w) ==
    /\ WorkerGoes(w, "wait", "lock")
    /\ UNCHANGED wakeMutex_

-----------------------------------------------------------------------------
(* start, shutdown, wait *)

Waiting(e) == \E i \in 1..Len(queue_) : queue_[i] = e
Pushed  == {s \in Submitter : s_pc[s] = "add"}
Popped  == {w \in Worker : w_pc[w] = "sub"}
Working == {w \in Worker : w_pc[w] = "process"}

\* What queuedApprox_ would be if it were exact.
Balance == Len(queue_) + Cardinality(Popped) - Cardinality(Pushed)

CallGoes(t, from, to) ==
    /\ l_pc[t] = from
    /\ l_pc' = [l_pc EXCEPT ![t] = to]
    /\ UNCHANGED <<queue_, metrics_, subVars>>

\* The two compare_exchange; in every other state start() returns false.
Start ==
    /\ state_ \in {"created", "stopped"}
    /\ calls.starts < MaxStarts
    /\ CallGoes(Owner, "idle", "clear")
    /\ calls' = [calls EXCEPT !.starts = @ + 1]
    /\ state_' = "running"
    /\ UNCHANGED <<shutdownMode_, stopRequested_, queuedApprox_, workVars, histVars>>

StartClear ==
    /\ CallGoes(Owner, "clear", "count")
    /\ stopRequested_' = FALSE
    /\ UNCHANGED <<state_, shutdownMode_, queuedApprox_, workVars, calls, histVars>>

StartCount ==
    /\ CallGoes(Owner, "count", "spawn")
    /\ queuedApprox_' = 0
    /\ lost' = Balance
    /\ UNCHANGED <<lifeVars, workVars, calls, lapse>>

\* worker_count threads.
StartSpawn ==
    /\ CallGoes(Owner, "spawn", "idle")
    /\ workers_' = Worker
    /\ w_pc' = [w \in Worker |-> "pop"]
    /\ UNCHANGED <<lifeVars, queuedApprox_, w_ev, wakeMutex_, calls, histVars>>

\* shutdown(mode): the mode is stored whatever the state,
Shutdown(t, mode) ==
    /\ calls.shutdowns < MaxShutdowns
    /\ CallGoes(t, "idle", "check")
    /\ calls' = [calls EXCEPT !.shutdowns = @ + 1]
    /\ shutdownMode_' = mode
    /\ Lapse("forced", mode = "force")
    /\ UNCHANGED <<state_, stopRequested_, queuedApprox_, workVars, lost>>

ShutdownCheck(t) ==
    /\ CallGoes(t, "check", IF state_ = "stopped" THEN "idle" ELSE "stopping")
    /\ UNCHANGED <<lifeVars, queuedApprox_, workVars, calls, histVars>>

\* the state is overwritten without another look at it,
ShutdownState(t) ==
    /\ CallGoes(t, "stopping", "flag")
    /\ state_' = "stopping"
    /\ Lapse("late", \E s \in Submitter : Submitting(s))
    /\ UNCHANGED <<shutdownMode_, stopRequested_, queuedApprox_, workVars, calls, lost>>

ShutdownFlag(t) ==
    /\ CallGoes(t, "flag", "notify")
    /\ stopRequested_' = TRUE
    /\ lapse' = lapse \cup (IF l_pc[Owner] = "clear" THEN {"forgotten"}
                             ELSE IF state_ = "running" THEN {"stray"} ELSE {})
    /\ UNCHANGED <<state_, shutdownMode_, queuedApprox_, workVars, calls, lost>>

\* Mutation of ShutdownNotify: notify_one.
ShutdownNotifyOne(t) ==
    /\ CallGoes(t, "notify", "idle")
    /\ IF \A w \in Worker : w_pc[w] # "wait" THEN UNCHANGED w_pc
       ELSE \E w \in Worker : /\ w_pc[w] = "wait"
                              /\ w_pc' = [w_pc EXCEPT ![w] = "lock"]
    /\ Lapse("missed", FallingAsleep) /\ UNCHANGED lost
    /\ UNCHANGED <<lifeVars, queuedApprox_, w_ev, workers_, wakeMutex_, calls>>

\* and notify_all wakes those that are asleep.
ShutdownNotify(t) ==
    /\ CallGoes(t, "notify", "idle")
    /\ w_pc' = [w \in Worker |-> IF w_pc[w] = "wait" THEN "lock" ELSE w_pc[w]]
    /\ Lapse("missed", FallingAsleep) /\ UNCHANGED lost
    /\ UNCHANGED <<lifeVars, queuedApprox_, w_ev, workers_, wakeMutex_, calls>>

ShutdownStep(t) ==
    ShutdownCheck(t) \/ ShutdownState(t) \/ ShutdownFlag(t) \/ ShutdownNotify(t)

Wait ==
    /\ CallGoes(Owner, "idle", "join")
    /\ UNCHANGED <<lifeVars, queuedApprox_, workVars, calls, histVars>>

\* Every worker is joined, and workers_ cleared.
WaitJoin ==
    /\ \A w \in workers_ : w_pc[w] = "exited"
    /\ CallGoes(Owner, "join", "store")
    /\ workers_' = {}
    /\ UNCHANGED <<lifeVars, queuedApprox_, w_pc, w_ev, wakeMutex_, calls, histVars>>

\* Nobody sets failed, so the state is always stored.
WaitStore ==
    /\ CallGoes(Owner, "store", "idle")
    /\ state_' = "stopped"
    /\ UNCHANGED <<shutdownMode_, stopRequested_, queuedApprox_, workVars, calls, histVars>>

OwnerStep == StartClear \/ StartCount \/ StartSpawn \/ WaitJoin \/ WaitStore

Next ==
    \/ \E s \in Submitter : SubmitStep(s) \/ \E e \in Event : Submit(s, e)
    \/ \E w \in Worker : WorkerStep(w) \/ Spurious(w)
    \/ Start \/ Wait \/ OwnerStep
    \/ \E t \in Caller : ShutdownStep(t) \/ \E mode \in Mode : Shutdown(t, mode)

Spec == Init /\ [][Next]_vars

\* Threads inside a call and workers that do not sleep are scheduled; nobody
\* is promised a spurious wake-up.
FairSpec ==
    /\ Spec
    /\ \A s \in Submitter : WF_vars(SubmitStep(s))
    /\ \A w \in Worker : WF_vars(WorkerStep(w))
    /\ \A t \in Caller : WF_vars(ShutdownStep(t))
    /\ WF_vars(OwnerStep)

-----------------------------------------------------------------------------
Had(kinds) == lapse \cap kinds # {}

\* queuedApprox_ is the length of the queue but for the submitters that have
\* still to add their push and the workers that have still to subtract their
\* pop, modulo its range: below zero when a worker is the faster one.  start()
\* writes zero over it; that loses something only after a forced shutdown, a
\* trySubmit overtaken by a shutdown, or a flag that reached the wrong server.
DepthTracksQueue ==
    /\ queuedApprox_ = (Balance - lost) % Wrap
    /\ lost # 0 => Had({"early", "forced", "late", "stray"})

\* The check of the capacity is apart from the push, and the push from the
\* count: each submitter beside the first may let the queue grow by one, and so
\* does each event that start() has not counted.
OvershootBounded ==
    enable_backpressure =>
        Len(queue_) < queue_capacity + Cardinality(Submitter) + (IF lost > 0 THEN lost ELSE 0)

\* Each event that was let in is queued, popped, in progress, or done: the
\* counters of MetricsMixin account for every trySubmit.
MetricsAddUp ==
    /\ metrics_.accepted + metrics_.full + metrics_.stopped
          + Cardinality({s \in Submitter : s_pc[s] \in {"depth", "push", "add"}})
       = Cardinality(used)
    /\ metrics_.inflight = Cardinality(Working)
    /\ metrics_.error + metrics_.inflight + Cardinality(Popped) + Len(queue_)
          <= metrics_.accepted + Cardinality(Pushed)

\* A stopped server has no worker left that touches it, and nothing in its
\* queue unless it was forced, or a trySubmit or start() met a shutdown: a
\* worker leaves only when the count says that the queue is empty, not because
\* it found it so before the shutdown.
StoppedIsDrained ==
    state_ = "stopped" =>
        /\ \A w \in Worker : w_pc[w] = "exited"
        /\ queue_ # <<>> => Had({"early", "forced", "late", "stray"})

\* A server that is told to stop comes to an end: every worker sees the flag and
\* leaves, unless the notification was missed by a worker about to sleep, the flag
\* was cleared by a start() under way, or the count is wrong.
ShutdownEndsWorkers ==
    state_ = "stopping" ~>
        (\/ \A w \in Worker : w_pc[w] = "exited"
         \/ Had({"missed", "forgotten"}) \/ lost # 0)

\* An event in the queue of a running server is taken out of it, unless the
\* notification was missed by a worker about to sleep, a shutdown's flag reached
\* the server after it was started again, or the count is wrong.
EventTaken ==
    \A e \in Event : (Waiting(e) /\ state_ = "running") ~>
        (~Waiting(e) \/ state_ # "running" \/ Had({"missed", "stray"}) \/ lost # 0)

Busy == queue_ # <<>> \/ state_ # "running"

\* No worker of a running server that has nothing to do goes round and round: one
\* that comes back to the queue again and again sleeps in between, unless the
\* count is wrong.
IdleServerRests ==
    \A w \in Worker : []<>(w_pc[w] = "pop") => []<>(w_pc[w] = "wait" \/ Busy \/ lost # 0)

\* "no spin/yield worker loop" (server.h:28), whatever was submitted when.
NoSpinWorkerLoop ==
    \A w \in Worker : []<>(w_pc[w] = "pop") => []<>(w_pc[w] = "wait" \/ Busy)
=============================================================================
