# my-server: specification, model checking and proofs

TLA+ modules for my-server: the lock-free logger, the text of a log line and the
sinks that format it, the token registry of the publisher, the runtime of the
server, its builder and the way of an event through it.  TLC checks them on small
instances.  TLAPS proves the theorems about the two lock-free structures, the
engine that uses them, the text, the registry with its handles, the runtime of the
server, its builder and the pipeline for every number of threads, records, handles,
events and characters.

## 1. Inventory

### Logger (`src/modules/logger`, `src/modules/common`)

| Component | State | Operations |
|---|---|---|
| `FreeList` (`core/lockfree_queue.hpp:12-50`), a Treiber stack | `head_`, the `next` of each `FreeNode` | `push`, `try_pop` |
| `MpscQueue` (`core/lockfree_queue.hpp:52-112`) | `head_` (the dummy), `tail_`, `stub_`, the `next` of each `MpscNode` | `push`, `pop`, `empty`, `reset` |
| `LogRecord` (`core/log_record.hpp`) | storage, two function pointers, two base nodes | placement new, `submit_fn`, `destroy_fn` |
| `LogEngine` (`core/log_engine.hpp`, `log_engine.cpp`) | `run_`, `worker_`, `pool_storage_`, the two structures, three counters | `enqueue`, `ensure_running`, `worker_loop`, `shutdown` |
| `FixedStringBuf` (`core/stream_adapter.hpp:42-61`), one for each thread | the put area over a fixed array | `reset`, `view`, `overflow` |
| front end (`logger.hpp`, `registry/*`, `common/messages/*`, `log_names.cpp`) | none | `Handler::log`, `Build`, printing of a payload, names of ids |

Any thread may call `enqueue`.  The first one flips `run_`, allocates and fills
the pool, and starts the worker.  A call takes a record from the free list (or
drops the message), constructs the message in it and pushes it into the queue.
The worker pops, prints and destroys.  The record that `pop` returned *is* the
queue's new dummy node, so the worker keeps it (`pending_recycle`) and gives it
to the free list only after the next `pop`, or after `reset()` has put the stub
back.  `shutdown` clears `run_` and joins; a later `enqueue` starts again.
To print is to write the fields of the payload one after the other into the
thread's `FixedStringBuf`, and to pass on its view.

Hard: the window of ABA in `try_pop`; the window between the exchange and the
link in `MpscQueue::push`; the moment at which a record may be recycled; the
races of `enqueue` with `shutdown` and with the start; the second pool after a
restart; a start that throws; a buffer that outlives its line and silently drops what does not fit.

Correct means: a record has one owner; the queue is first-in first-out and
loses nothing; whatever was accepted is printed once, unchanged and in order;
a shutdown drains; every call returns; the buffer holds a prefix of this line
and nothing of another.

### Publisher (`src/modules/publisher`)

| Component | State | Operations |
|---|---|---|
| `TokenRegistry` (`runtime/token_registry.hpp`) | token and channel free stacks, `tokenToChannel_`, `tokenUsed_`, `channelRefCount_`, `channelMode_`, `groupToChannel_` | `acquire()`, `acquire(group)`, `release`, `resolve` |
| `RegistrationHandle` (`runtime/registration_handle.hpp`) | `registry_`, `token_` | constructors, destructor, moves, `reassign` |
| `PublisherRuntime`, `OutputResourceStore`, `SinkTraits` | an array of slots by channel, a stream in each | `publish`, `publish_view` |
| `TextSink`, `JsonSink` (`sink_publisher.cpp`) | none | `format_impl`: a date and names in place of numbers, one mark per turn of a loop |
| policies (`publisher.hpp`, `policy_publisher.hpp`) | none | write to the terminal, or to a file opened for one line |

A handle owns a token, a token maps to a channel, a channel is exclusive to a
token or shared by the tokens of a group, and a channel indexes a slot of the store.
Which stream is in a slot is the configuration's choice: `log_engine.cpp:20-23` and
`main.cpp:23-24` put `std::cout` in each.  Nothing here synchronises; registration happens on one thread.

Hard: exhaustion (tokens or channels) in the middle of a call that has already
changed something; recycling of tokens and channels; moves and exceptions; a
text that contains the marks `TextSink` looks for, glued together in a word or with
numbers that do not convert; ids beyond the tables of names.

Correct means: tokens and channels are free or used and never both; a token
has one owner; two publishers share a channel exactly when they asked for the
same group; `TextSink` names the marks that it should and loses nothing but what
stands in a word with them, and the header of a line gives the class and method of the call.

### Server (`src/app`)

| Component | State | Operations |
|---|---|---|
| `Server` (`server/server.h:56-373`) | `state_`, `shutdownMode_`, `stopRequested_`, `queuedApprox_`, `wakeMutex_`, `wakeCv_`, `workers_`, the queue | `start`, `shutdown`, `wait`, `trySubmit`, `workerLoop`, destructor |
| `SimpleMutexQueue` (`server/server.h:380-403`) | a vector under a lock | `tryPush`, `tryPop` |
| `MetricsMixin` (`server/metrics/metrics.hpp`) | six atomic counters | increments, `snapshot` |
| `ServerBuilder` (`server/server.h:413-514`) | the pieces and a flag for each | setters, `isValid`, `build` |
| pipeline (`server/pipeline.hpp`, `command.hpp`) | what an adapter keeps of its own | decode, parse, execute, distribute |
| hooks, configuration, types | none | callbacks, data |

Any thread submits; worker threads pop and process; `shutdown` may come from
any thread and `wait` joins the workers.  The atomics are written without
`wakeMutex_`, and the depth counter is kept outside the queue's lock.  The
workers share the adapters, parser, executor and distributor without a lock.

Hard: lost notifications; a counter that is late in both directions; capacity
checked apart from the push; workers that decide to leave on what they read
before; start, shutdown, wait and submit overlapping; a second `build()`; views
of a buffer that another worker overwrites; hooks called from two threads.

Correct means: the counter tracks the queue up to calls in progress; the
metrics add up; the capacity is exceeded by at most the submitters in flight;
a stopped server has no workers and, if stopped gracefully, nothing queued;
events are taken and workers leave; an idle server sleeps; a server runs on the pieces
that were given; each event comes to one end and its result was made from it.

`PROJECT.json` lists the components and the hazards line by line.

## 2. Modules

```
LogRecord ── FreeList ── RecordPool ── RecordPoolProofs
        │        │           └ INSTANCE FreePool (abstract)
        └ MpscQueue ── RecordQueue ── RecordQueueProofs
                 │
        FreeList + MpscQueue ── LogEngine ─────── LogEngineProofs
                 │                └ INSTANCE LogService (abstract)
                 └ LockFreeProofs (lemmas) ────── LogEngineProofs
LogLine ── LogText ── LogTextProofs
TokenRegistry ── Registration ── RegistrationProofs
Server ── ServerProofs
ServerBuilder ── Pipeline ── PipelineProofs
                    └ INSTANCE EventService (abstract)
```

Each `MC*` module extends the module it names and adds symmetry sets, the set of
records, the values of the calls, and constraints.

**LogRecord** keeps a record's two base subobjects apart: the free list writes
one `next`, the queue the other, so a record in one cannot disturb the other.

**FreeList** is `push` and `try_pop` with one action per access to shared
memory: load of the head, read or write of a link, CAS.  A weak CAS may fail
although it is offered what it expects.  A failing CAS and the read that
follows it in the loop are two steps of the code; the failure reloads the
expected value and is the action `PopRetry`/`PushRetry`.  Two history variables
do not exist in the code: `free_stack`, the stack that the operations spell,
and `aba`, set by a CAS that succeeds with a successor that is not that of the
head any more.  They are only read by properties.

**RecordPool** is its clients: *poppers* take records, *pushers* return them,
and `out` is the set nobody has returned.  It starts like
`init_pool_and_queue`, with every record out and to be pushed; `pool_recycling` starts it
like the stress test, with every record in the list.
**FreePool** is the abstract stack with atomic `Get` and `Put`; a `try_pop` that returns nullptr
is a stutter of it.

**MpscQueue** is `push` (clear the link, exchange the tail, link), `pop`,
`empty` and `reset`.  Its history variable `fifo` is the order of the
exchanges.  `Chained` says that the links spell `fifo` from the dummy on,
except after a node whose successor's producer is between exchange and link.
**RecordQueue** composes it with the producers and with the worker loop's
recycling discipline; the free list is folded into the set `free`.

**LogEngine** composes both structures with the code of the engine.  Each
producer is inside `enqueue` at `e_pc`, the worker inside `worker_loop` at
`w_pc`, each caller of `shutdown` at `s_pc`.  A record is a pair of the number
of its pool and an index, so that the records of a freed pool can be told from
the live ones.  A message is the pair (producer, number of the call).
Its parameter `Quiet` says that no `enqueue` overlaps a `shutdown`, which is how the tests
use the engine; the properties depend on it (section 4 says what an overlap does).
With `StartFails` a start may throw out of `enqueue`, for want of memory or of a thread:
none of the functions in between is `noexcept`, and nobody takes `run_` back (`StartThrows`,
counted in `thrown`).  A restart frees the old pool, and the free list still names its records;
the model lets them be, and what the properties and theorems say of the engine they say up to
the first use of such a record (`NoFreedRecord`).
**LogService** is what callers may rely on: a message is accepted or not,
and accepted messages are printed once, unchanged, in order.

**LogLine** is what a log call says: `Build` puts each argument at its place into a
field, `PrintLine` lists the fields that the kind of payload prints, and
`ClassName`, `MethodName` are the tables with the narrowing that precedes them
(`ClassIndex`, `MethodIndex`); `HasName` says whether the index is inside of the table, and `Converts`
whether `stoull` or `stoi` returns.
A line is a sequence of tokens, one for each `name=value`, with the number that
the value begins with and its number of characters; a text that contains a mark
is several tokens.  A token with a blank behind it ends a word.  Characters are counted, not spelled.
**LogText** is the two ways of a line.  `Submit`, `Put`, `PublishView` print into the thread's
buffer, where `Put` keeps what fits and drops the rest, token by token.  `Publish`
hands the whole text to a sink: `FormatTimestamp`, `FormatClass`, `FormatMethod`
are the turns of `TextSink`'s loop, each of which goes to the first of its marks
from `pos` on, copies what is before it, and replaces everything up to the next blank by the
name, further marks in the same word included.  Or the conversion throws, and the exception
leaves `publish`; or the name is read beyond its table, which is undefined, and the behaviour ends
there.  `Write` is the policy.  `Expected` is `TextSink` without its loop: which token of the
line should read as a date or a name, which is swallowed and which copied.  The date is one
value: what `format_timestamp_us` makes of a time, and of one too large for its
`time_point`, is not looked into.

**TokenRegistry** is a value, not a state machine: `Acquire(r, p)` and
`Release(r, t)` give the registry after the call.  `Acquire` is the registry
the code leaves *also when it throws*, which is the registry with a channel
counted and no token for it; `Grants` says whether it returned.
**Registration** is the handles over one registry: every constructor, the
destructor, the moves and `reassign` are actions, and calls are atomic
because one thread makes them.  The history variable `purpose` remembers what
the owner of a token asked for.  `ChannelOf` is `resolve`, which picks the slot of the
store that a publisher's output goes to.

**Server** has one action per access to shared memory in `trySubmit`,
`workerLoop`, `start`, `shutdown` and `wait`.  The condition variable is what
the standard says of one: the check of the condition happens with the mutex
held, blocking releases the mutex and goes to sleep in one step, notifications
reach those asleep, and a wake-up may be spurious.  The two loads of the
condition are two steps, since their writers do not take the mutex.
`queuedApprox_` is counted modulo `Wrap`.  One thread, the owner, starts and
waits; shutdowns and submissions come from anybody at any moment, in particular
inside of `start` and of each other.  Two history variables record what that does:

* `lapse`, the bad moments that have occurred: a notification between a worker's look
  at the condition and its sleep (`missed`), a forced shutdown (`forced`), a
  `trySubmit` let in before `start` has zeroed the count (`early`), one that is
  overtaken by `stopping` (`late`), a stop flag that a `start` under way clears
  (`forgotten`), a stop flag that reaches a server started since (`stray`);
* `lost`, what the count should have been where `start` wrote zero.

A property that does not hold when something of the kind has happened says so by name,
so that it also says that nothing *else* breaks it.

**ServerBuilder** is the setters, the flags and `build()`, which moves the pieces out
and leaves the flags set; a moved-from configuration has lost its vectors and kept
its numbers.  `given` remembers what was put in since the last `build()`.
**Pipeline** starts the server that the builder returned and follows each event: submitter's
and worker's steps with the hooks they call, `Decode` once per adapter (the recursion of
`decodeEventImpl`), `Parse`, `Execute`, `Distribute`, each of which may fail.  A command is the
event it was made from; `Buffered` are the adapters whose view shows a buffer of their
own, the "stable buffer" that `pipeline.hpp:16` allows besides the event's storage (it says neither
how long the contents stay nor that workers share the adapter), and `Shown` is what a worker sees in it.
The states, capacity and wake-ups of the server are in `Server` and left out here.
**EventService** is what `Pipeline` implements: events are taken in order, once, and each
ends distributed or failed.

The definitions introduced by a comment *Mutation of ...* are plausible
mistakes in the definition named.  They are not part of any specification; each
shows that a property below notices the mistake (`mutants` in `PROJECT.json`).

### Memory model

Accesses are sequentially consistent, one at a time.  The code's acquire and
release pairs are what makes this a fair picture of the lock-free structures: a
node's contents are published by the CAS, exchange or store of a link that
makes it reachable.  Reorderings of relaxed accesses are not modelled.

## 3. Runs

| Run | Question | Instance |
|---|---|---|
| `pool` | Is the free list sound with one popper, and an atomic pool? | 1 popper, 2 pushers, 3 records |
| `pool_recycling` (violated) | Are all nodes back when several threads have popped? | 2 poppers, 1 pusher, 3 records, all in the list at first |
| `queue` | Are order, ownership, dummy, spin, reset right, and is everything popped? | 2 producers, the worker, 4 records, fair |
| `engine_quiet` | Does the whole engine implement the service, and drain? | 2 producers with 2 calls, pool of 2, one shutdown, starts may throw |
| `engine_live` | Does everything return and every message get printed across a restart? | 1 producer with 4 calls, pool of 3, one shutdown, fair |
| `engine_restart` (violated) | Is the pool recycled on a restart? | 1 producer, 5 calls, pool of 2, one shutdown |
| `text` | What does the buffer cut, and what does `TextSink` make of a line? | buffer of 1024, 5 argument lists, 8 texts, 3 kinds of payload, 2 lines |
| `registration_safety` | Is the registry consistent under every history of handles? | 4 handles, 3 tokens, 2 channels, 2 groups |
| `server_safety` | What do counter, metrics, capacity and the stopped state guarantee? | 2 submitters, 2 workers, 3 events, capacity 1, a second stopper, both modes, 2 starts, 1 shutdown |
| `server_live` | Do workers leave, are events taken, does an idle server rest? | 1 submitter, 2 workers, 1 event, a second stopper, both modes, 2 starts, 1 shutdown, fair |
| `server_spin` (violated) | Is there no spinning worker? | 1 submitter, 1 worker, 1 event, 1 start, no shutdown, fair |
| `pipeline` | Which pieces has a server, whose event is a result made from, in which order do hooks come? | 2 adapters, the second buffered; an event for each case of decoding; 0 or 2 workers configured; 2 builds |

**Why the bounds are enough.**  ABA needs a popper that is overtaken by a pop,
a second pop and a push of the first record; it must be impossible with one
popper against two pushers and the three records it takes.
The queue's hard cases are two producers between exchange and link at the same
time, a consumer that waits for the first of them, and a record that comes
around again; four records leave one in each place.  The engine adds the
shutdown, the final drain, the restart, and an exhausted pool (two records, one
of which is always kept back); with three, in `engine_live`, the worker pushes while
the producer is at its CAS.  For the registry, tokens outnumber channels and
handles outnumber tokens, so that each runs out with the other left.  The
server's counter is late by at most one step per thread: two threads on each
side, one more event than the capacity holds, two starts with a shutdown that can fall
anywhere between them; `Wrap` only has to exceed the number of events by enough that
a count below zero is not mistaken for one of them.  In `text` the second line meets a buffer
that an overlong one has left, and a line that is cut goes on with further tokens.  The texts
hold each mark before and behind another, in one word and in two, with no number, a negative one
and one too large; the arguments ids with a name, beyond the names and beyond eight bits.
`kIntMax` and `kULongMax` are scaled down to what TLC can count; the modules assume of them
only that an `int` holds every id.  In `pipeline` two workers meet at the buffer
of the second adapter, and the second `build()` finds pieces moved, given again, or
given in part.

**Bounds by name.**  `Logs` and `Shutdowns` cap the calls of the engine and
`Pools` follows from them; `MaxStarts` and `MaxShutdowns` those of the server;
`MaxLines` those of `LogText`, `MaxBuilds` the servers of a builder; each event is
submitted once.  `Limit` is the capacity of an injected bounded
queue; `SimpleMutexQueue` has none, and the runs set it out of reach.  `StartFails` is
FALSE in `engine_live` and `engine_restart`: what is to happen eventually presumes a worker.  `RefBound` (a
constraint) ends the growth of a leaked reference count at three: beyond it the
same states repeat.  `UntilUndefined` (a constraint of `engine_quiet`) stops at a
stale CAS, and where a record of a freed pool is about to be touched after a restart
(`NoFreedRecord`, the subject of `engine_restart`): the program promises nothing
after either.  `engine_live` needs no such constraint: with one popper no
CAS is stale, and a restart leaves at most three calls for a new pool of
three, so that a freed record is never reached.

**Fairness.**  Weak fairness for threads inside a call and for workers that are
not asleep: the operating system schedules them.  Nobody is obliged to call
anything, and no spurious wake-up is promised.  `engine_live` adds strong
fairness for a CAS that succeeds: `compare_exchange_weak` may fail, but one
offered its expected value again and again does not fail for ever.  There is
one producer and one worker in that run, so that this is a statement about the
hardware and not about contention: the worker can disturb the producer's CAS
only by a push, and has only the records that the producer gave it.  The other runs are about
safety and assume no fairness.

**Deadlock** is checked, except in the server's runs and in `pipeline`: an idle server,
with every worker asleep, rightly waits for ever.  When the bounds on the calls
are used up, the explicit step `Done` of `LogEngine` and of `LogText` stutters.

**Type invariants.**  Those of `RecordPool`, `RecordQueue`, `LogText` and `Server` are
theorems and not repeated in the runs.

**Liveness of the server is conditional.**  `ShutdownEndsWorkers` and `EventTaken` hold
unless one of the lapses they name has happened, or the count is wrong; that they hold
says that those are the *only* ways to a worker that sleeps on work or
through a stop.  `IdleServerRests` holds unless the count is wrong, and
`server_spin` shows that it may be.

## 4. Disagreements with the code's own statements

Each of the three violated runs ends in a trace.

* `pool_recycling`: `freelist_stress_test.cpp:159` says "All nodes back in freelist" and `:166-167` asserts
  it after several threads popped while one pushed.  A stale CAS installs a successor that has been
  handed out (`NoAba` is violated too), and with every thread at its end and every record pushed one is
  missing from the list.  In the engine several producers pop, and the worker pushes.
* `engine_restart`: `pool_storage_ = make_unique` frees the old pool, whose records
  are still on the free list; `try_pop` hands one out.  The test at
  `log_engine_pipeline_test.cpp:76` relies on recycling across a restart, and
  `claude/proposal_improvements_publisher.md:712-760` describes the same defect.
* `server_spin`: `start` publishes `running` first and zeroes `queuedApprox_` afterwards
  (`server.h:107`).  An event that `trySubmit` counts in between is wiped from the
  count, its pop takes the count to 2^64-1, and the condition of the worker's `wait`
  is true from then on, on an empty queue: `server.h:28` says "no spin/yield worker
  loop".  Every later `trySubmit` with backpressure is refused as full, and a graceful
  shutdown never ends, because the count is not zero.

Others follow from the same modules, and are seen by checking the formula as
an invariant (or property) on the instance named:

* "GroupRefCountTracksUsers" (`publisher_runtime_test.cpp:136`): `RefCountTracksUsers` of
  `Registration` is violated with two tokens and two channels.  `allocateToken` throws after
  the channel was counted.  `LeaksOnlyWithoutTokens` is what remains true.
* A notification is missed at `server.h:204`: `EventTaken` without `missed` in its conclusion is
  violated on the instance of `server_live`.  `trySubmit` notifies without `wakeMutex_`,
  between a worker's check and its sleep, and the event stays until the next one comes.
* `server.h:409` "Builder validates required pieces": `server.pieces` may hold `"moved"` ones
  after a second `build()` (`server.h:470`), which passes `isValid`; drop
  `p \notin server.given` from `BuiltFromGivenPieces`.
* `pipeline.hpp:16` allows an adapter to decode into a buffer of its own.  The adapters are shared by the
  workers, so that a result may be made from another worker's event: `ResultOfOwnEvent` with
  `out[i].of = out[i].ev` alone.
* `on_submit_result` may come after `on_distributed` of the same event (`server.h:201`), and `on_parsed_input` of
  the hook table is never called.
* `SimpleMutexQueue` holds a mutex and cannot be moved, so that it cannot be given to
  the builder, which takes a queue by value and moves it: the models let the queue be any `QueueT`.
* `TextSink` looks for its marks in the whole line.  A text with a mark behind the header
  leaves the class and method as numbers (`sink_publisher.cpp:25`), and one without a number after it, or with one
  too large, throws out of `publish` (`sink_publisher.cpp:35`); `HeaderIsTranslated` without `kind # "common"` shows both.
* An id of 256 and more reads as the name of its low eight bits, and one beyond the table is read out of
  bounds (`log_names.cpp:38`); in the run's behaviours the line of a call of class 256 names "Server", and that
  of a call of class 2 comes to `pc = "undefined"`.
* `lockfree_queue.hpp:8` "ABA would corrupt at most one log entry": the difference of
  `enqueued_` and the messages in `output` exceeds one once the engine has stopped
  (two producers with three calls; the constraint of `engine_quiet` dropped, and deadlock
  unchecked).
* `log_engine_stress_test.cpp:101` "Drops with total <= pool_size suggest a recycling
  bug": `run_` is set before the pool is filled, so a second producer drops its first
  message with an empty-looking pool.
* An `enqueue` that overlaps a `shutdown` may pass `ensure_running`, see the worker stopped and joined, and
  then push and count a record that nobody writes until the next start; it may also restart the engine before the
  join and overwrite a joinable thread, which terminates the program (`NeverTerminated` with `Quiet` false).  No
  line of the repository says what such a call may expect; the tests join their producers first.
* `lockfree_queue.hpp:83` "wait until the producer publishes the next pointer": a
  `reset()` in the middle of a push (an `enqueue` that overlaps a shutdown) leaves a
  queue on which `pop` spins with no producer to wait for.
* `freelist_stress.hpp:17` "Push is NOT done concurrently with pop (matches LogEngine
  usage)": the worker does push while producers pop.
* A worker that subtracts its pop before the submitter has added the push makes
  `queuedApprox_` wrap, and the condition of `wait` is true on an empty queue until the
  submitter goes on: shorter than the spin of `server_spin`, and without a restart.
* `start` zeroes the depth over events that a forced shutdown left
  (`server.h:107`), and `metrics()` reports it: `lost # 0` in `DepthTracksQueue`.

## 5. Theorems

The assumptions on the constants are named in the modules that declare them and are about
distinct names and finite sets: `LogRecordAssumption` (stub and null are no records), `LogLineAssumption` (an `int` holds every id),
`LogEngineAssumption` (the worker is no producer; a record is a pool and an index),
`RecordPoolAssumption` (poppers and pushers are different threads), `LogTextAssumption` (the
arguments are values of their fields' types), `ServerAssumption` (finitely many threads and
events, fewer events than `Wrap`), `RegistryAssumption`, `ServerBuilderAssumption` (a
configuration has its two fields), `PipelineAssumption` (finitely many workers, and
adapters by their places in the tuple).

**RecordPoolProofs.**
`TypeCorrect`.  `PoolSound`: until a stale CAS succeeds, the links spell
the stack and every record is free, out, or being pushed.  The invariant is
`PoolInv`: `TypeOK`, `Roles` (which thread is in which call), the property
itself, and `PushLinked`: a push at its CAS has linked its record to the head it
expects.  `PushLinked` is what makes a successful push
keep the list whole, and the separation of records (`Partition`) what keeps a link
from being overwritten by another push.
`NoAbaWithOnePopper`: for any number of pushers, if there is one popper no stale
CAS succeeds.  The strengthening `SingleInv` adds `PopperKnows`: while the head a popper
has loaded is in the list, the successor it has read is the record's successor,
because only a pop changes the successor of a record of the list, and there is no
other popper.  `NoDoubleHandoutWithOnePopper` and `RefinesFreePool` follow from it:
each CAS that succeeds is one `Get` or `Put`, everything else stutters.

**RecordQueueProofs.**
One inductive invariant, `QueueInv`: `TypeOK`, `QueueSound` (the chain), `Separate`
(one place per record), `PushesSound` (a push between exchange and link holds the
predecessor it will link, a different one for each push), `DummyKept` (where the
dummy is, relative to the worker's position and `pending_recycle`) and
`QuietOutside` (no push is in flight while `reset` runs).
It is inductive only as a whole: the chain survives `QClear` only because
the record is in no other place, and the record is in no other place only because the
worker recycles the previous dummy and never the present one.
From it: `TypeCorrect`, `QueueIsSound`, `RecordsSeparate`, `DummyIsNotFree`,
`SpinHasAProducer`, `PopsInOrder`, `DiscardsNothing`.

**LogEngineProofs.**
`TypeCorrect` holds also where a shutdown overlaps `enqueue()` and after a stale CAS, the cases in
which the runs stop looking.  `EngineInv` says what each thread has in its hands: `Equipped(t)` at each
place of `enqueue()`, `WorkerEquipped` at each place of `worker_loop()` (so neither structure is
given a null pointer, and the worker prints only records), and `StartsPaid`: the pools
allocated, the starts that have yet to allocate one and the start that a cleared `run_` allows
are together at most one more than the shutdowns, which is why `Pools` pools are enough.
`NeverTerminatedIfQuiet`: with any number of producers and closers, if no `enqueue()` overlaps a
`shutdown()` no joinable thread is overwritten.  `Apart` says who is between the two: a closer
at work is the only one and finds no producer inside a call; a start is the only one and
finds no thread; and a stopped engine that nobody is closing has none.
The other results are about the same quiet engine and carry one more condition, `[]NoFreedRecord`: a
restart leaves records of a freed pool on the free list, and once one of them is in somebody's hands (or
`try_pop` reads its link) the program has no meaning that a theorem could speak of.  Since `Spec`
assumes no fairness, every behaviour up to that moment, continued by stuttering, meets the condition,
so that nothing before it is left out.  `NoFreedRecordInFirstPool` says when there is no such moment:
until a second pool is allocated, and no stale CAS has succeeded, the only records that exist are those
of the first (`Reads`: nor has a `try_pop` under way anything else to read from).
They rest on the invariant `QuietInv`.  `Control` says at each place of the worker and of a producer which of the
two structures it is inside of, so that a call of a structure can be told from its caller, and `Running`
that `run_` is set while somebody is inside `enqueue()`, so that the worker does not leave then.  `StructuresSound` is what is lost when a stale CAS succeeds: the links of
both structures spell their sequences (`Linked`, `PushLinked`, `QueueSound`) and a record has one
place (`Placed`): free, about to be pushed there, a producer's, queued, in the worker's hands or kept
back as the dummy, and every record that was handed out is in one.
The lemmas about the structures themselves are in `LockFreeProofs`, where the caller does not matter.
`OneHolderIfQuiet` follows.  `ShutdownDrainsIfQuiet` counts: every call made is accepted, dropped or on
its way (`Tally`), and what is accepted is printed, queued or in the worker's hands, but for the pushes
that are linked and not yet counted (`Balance`); both are equations that
each step keeps by moving one term into another, and at a stop only the totals are left, with the
calls whose start threw: after one of those the queue may hold messages that no worker was there for.
`RefinesServiceIfQuiet`: if no stale CAS succeeds the engine implements `LogService`; the exchange of a
push is `Accept`, an empty pool or a start that throws is `Drop`, printing is the service's delivery and everything else
stutters.  It needs `Stored`, that the message of a call stays in its record up to the exchange, and
that a queued record is nobody else's to overwrite, which is `Placed`.
`RefinesServiceWithOneProducer` removes the reserve about a stale CAS, not the other: with one producer nobody else pops the free
list, so what its `try_pop` has read stays true (`NoAbaWithOneProducer`).

**LogTextProofs.**
`TypeCorrect` and `BufferCorrect` for every buffer size; the latter by the sum of the widths asked for
since the reset.  `HeaderCorrect`: a header built by `Handler::log` has at most 156
characters and so is never cut in the code's 1024; it needs the widths of the tokens printed so far, field
by field.  `TextCorrect`: the loop of `TextSink` and `Expected` agree, for every line of tokens, by the invariant
that the result so far is what `Expected` says of the tokens up to `pos`, that `pos` is at the beginning of
a word, and that each name given so far had a number that converts and a place in its table; it also says
at which marks the loop throws or leaves a table.  `TranslationCorrect` follows from it and from the order of the fields of
`log_payloads.def`, which puts time, class and method, each in a word of its own, in the order in which the
loop looks for them, and nothing that it looks for behind them.  Its names are those of the tables at the ids of
the call, so that it says nothing of an id that has none.

**ServerProofs.**
Four inductive invariants, each on the ones before.
`Base` is `TypeOK`, that a worker that was joined or never started is at its end, that who is past its
look at the state carries an event of its own, and that `inflight` counts the workers that process;
`TypeCorrect` and `MetricsCorrect` (`MetricsAddUp`) come from it.
`Track` says that `queuedApprox_` is `(Balance - lost) % Wrap`, where `Balance` is the
length of the queue with the pops not yet subtracted and without the pushes not yet
added: each atomic operation moves one of the terms, and the arithmetic is that of a counter
that is reduced modulo its range after every step (`ModUp`, `ModDown`).
`Over` says that `Balance - lost` never exceeds what was accepted, hence that the count does
not wrap above, and bounds the queue together with the submitters already let through; `OvershootCorrect` is
its consequence.
`Life` says that while none of the lapses `early`, `forced`, `late` and `stray` has occurred the server
is where its state says: stopped with workers gone and an empty queue, or
running with nobody leaving, or stopping with nobody inside `trySubmit`.
`DepthCorrect` and `StoppedCorrect` follow from it and from `Track`: a worker leaves on a count of
zero, and nobody is left who could make the queue and the count differ.
The lemma `Counted` sums up what each step does to the numbers.

**RegistrationProofs.**
For any number of handles, tokens, channels and groups.  The operators come first: `AcquireSound` and
`ReleaseSound` say that a call leaves the registry `Sound` (its type, the two free stacks
without repetition, counts not below the number of users, groups that point to channels in use)
also when it throws; `Serves` says what a token in use is for (its group's channel, or
a channel that no group points to and nobody else uses), and `AcquireServes`, `AcquireGives`,
`ReleaseServes` that a call establishes it for its own token and keeps it for every other one.
The invariant `Inv` of the handles adds to these that tokens in use and handles with a token correspond
one to one (`Owned`); its three cases are a handle that gives back its token (`ReleaseInv`), one that does
so and asks for another (`AcquireInv`, which is construction as well as `reassign`), and one that does
so and takes another handle's (`MoveInv`).  From it: `TypeCorrect`, `RegistryCorrect`,
`TokensCorrect` (there is always room on the free stack for a token in use, by counting),
`IsolationCorrect`, and `LeaksCorrect`: `AcquireExact` and `ReleaseExact` keep a count
exact unless the tokens have run out.

**PipelineProofs.**
For any number of workers, events, configurations and builds, whatever the two adapters can
decode and whichever of them has a buffer.  `BuilderInv` says what the flags of the builder
are worth: what is set was given, and what is gone from it was taken by a `build()`; from it
`PiecesCorrect`.  `IInv` adds what a worker knows at each place of `processEvent`
(`WorkerOK`): while it decodes, no adapter it has passed could; from then on it is at the
first that can; the view it parses is of an event, its own if it works alone, for another
worker's `Decode` is the only step that changes a buffer (`MovesInv`, `Alone`).  From it:
`TypeCorrect` and `ResultsCorrect`.
`Places` says that an event is in one place: nowhere until its `SubmitPush`, once in the queue,
or held by one worker.  `PipelineImplementsService` follows: `SubmitPush` is
`Accept`, `Pop` is `Take`, a failure or a `Distribute` is `Finish`, and all other steps stutter.

`HooksCorrect` rests on `HookInv`: the hooks told of an event count how far it has come.
`EventHooks` has, for each event, as many of the worker's hooks as the place of its worker says
(`Stage`), as many of the caller's as the place of `trySubmit` says (`Announced`), none of the worker's
before a worker has it, and those there are in the order of the way; `FailsOnce` says that who fails is
in nobody's hands any more, so that the count of errors is the number of events that failed.
The lemmas on sequences (`HookAppended`, `WayInOrder`, `ErrorInOrder`, `OutcomeInOrder`) say what one hook
more does to a sequence in order.  A worker's step is then one of two: the next hook of the way, or the
error and the end (`WorkerCalls`).

**Model-checked only**: the liveness properties, which hold under fairness and are out of the
prover's reach.  Every safety invariant of the runs is a theorem, those of the engine under the
conditions named above, under which the runs check them too.

## 6. Not modelled

* The two copies of `httplib.h` (`src/app/lib`, `src/lib`; 9262 lines each): third-party, and
  included by no file of the repository.  They are seven eighths of its lines; of the
  project's own sources under `src/app` and `src/modules`, about 2900 lines with their
  comments, the modules stand for about six tenths.  The rest is includes,
  concepts and other constraints of templates, static assertions on sizes and padding, enumerations and
  comments.
* Allocation that fails elsewhere than in the start of the engine (`StartThrows`), and threads that fail to
  start in `Server::start`.
* Two threads in `wait` at the same time: the application has one owner.
* A copy of a token used after its handle is gone: the code guards it by an assertion
  and no caller keeps one.
* The streams in the slots of the store (`std::cout` in each) and what happens inside a stream: publishers
  with channels of their own write to one terminal.
* What parsers, executors and distributors compute: they are parameters of the server,
  and the repository has none.  What reads the configuration beyond the listeners and
  the execution part: nothing does.
* Characters of a text: counted, not spelled.

## 7. Plan

Done, in the order of their importance: the lock-free structures with proofs; the engine
with its service and proofs; the registry and its handles with proofs; the server's runtime with
overlapping calls, with proofs; the text with proofs; the builder and the pipeline with proofs.

Open:

1. An abstract directory of leases (owners, purposes, channels) implemented by `Registration`.
2. An abstract sequence implemented by `RecordQueue`, as `FreePool` is by `RecordPool`.
