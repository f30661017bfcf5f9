------------------------------- MODULE Pipeline -------------------------------
(***************************************************************************)
(* An event's way through a server that was built and started: trySubmit   *)
(* announces it, queues it and announces the outcome; a worker decodes it  *)
(* with the first adapter that can, parses, executes and distributes, or   *)
(* reports the error and gives up (processEvent, app/include/server/       *)
(* server.h).  The workers share the adapters, the parser, the executor    *)
(* and the distributor, and nothing locks them.                            *)
(*                                                                         *)
(* An adapter decodes into a view: "into Event-owned storage or another    *)
(* stable buffer" (pipeline.hpp:16), which for more than one event is one  *)
(* of the adapter's own.  Stable as that buffer is, nothing says for how   *)
(* long its contents are, or that an adapter is called by several workers. *)
(* What a worker parses is what the view shows when it looks.              *)
(*                                                                         *)
(* Abstracted: the server's states, its capacity and the wake-up of its    *)
(* workers, which are in Server; a text, a command and a result are the    *)
(* event that they were made from.  Only a server that has all of its      *)
(* pieces is run.                                                          *)
(***************************************************************************)
EXTENDS ServerBuilder, FiniteSets

CONSTANTS
    Worker, Event, NoEvent,
    Decodes,        \* the adapters that can decode an event
    Buffered        \* the adapters whose view is of a buffer of theirs

Adapters == 1..2    \* the places of the tuple adapters_

ASSUME PipelineAssumption ==
    /\ IsFiniteSet(Worker) /\ NoEvent \notin Event
    /\ Decodes \in [Event -> SUBSET Adapters]
    /\ Buffered \subseteq Adapters

VARIABLES
    running,        \* the workers of the server that runs
    queue,
    s_pc,           \* trySubmit of each event
    w_pc, w_ev,     \* each worker inside processEvent, with its event,
    at,             \*   the adapter that it is at, or whose view it has,
    made,           \*   and what its command and its result were made from
    buffer,         \* what each adapter has decoded last
    errors,         \* MetricsMixin::error_
    told,           \* history: the hooks called for each event
    out, failed     \* history: what was distributed, and what failed

workVars == <<running, w_pc, w_ev, at, made, buffer, errors, out, failed>>
vars == <<builderVars, queue, s_pc, told, workVars>>

Hook == {"event_received", "submit_result", "raw_input", "command_built",
         "result_ready", "distributed", "error"}

Init ==
    /\ BuilderInit
    /\ running = {} /\ queue = <<>>
    /\ s_pc = [e \in Event |-> "new"]
    /\ w_pc = [w \in Worker |-> "pop"] /\ w_ev = [w \in Worker |-> NoEvent]
    /\ at = [w \in Worker |-> 1] /\ made = [w \in Worker |-> NoEvent]
    /\ buffer = [a \in Adapters |-> NoEvent]
    /\ errors = 0 /\ told = [e \in Event |-> <<>>]
    /\ out = <<>> /\ failed = {}

\* A hook is called if the table has one; those of makeNoopHooks do nothing.
Tell(e, hooks) ==
    told' = [told EXCEPT ![e] = @ \o (IF server.hooks = "given" THEN hooks ELSE <<>>)]

-----------------------------------------------------------------------------
\* start(): worker_count threads, and one if that is zero.
WorkerCount == IF server.config.worker_count = 0 THEN 1 ELSE server.config.worker_count

Complete == server # NoServer /\ \A p \in Piece : server.pieces[p] = "given"

Start ==
    /\ Complete /\ running = {}
    /\ \E W \in SUBSET Worker : Cardinality(W) = WorkerCount /\ running' = W
    /\ BuilderGone
    /\ UNCHANGED <<queue, s_pc, told, w_pc, w_ev, at, made, buffer, errors,
                   out, failed>>

\* trySubmit: on_event_received; then the server may refuse it.
Submit(e) ==
    /\ running # {}
    /\ s_pc[e] = "new"
    /\ \/ s_pc' = [s_pc EXCEPT ![e] = "push"] /\ Tell(e, <<"event_received">>)
       \/ s_pc' = [s_pc EXCEPT ![e] = "done"]
          /\ Tell(e, <<"event_received", "submit_result">>)
    /\ UNCHANGED <<builderVars, queue, workVars>>

SubmitPush(e) ==
    /\ s_pc[e] = "push"
    /\ queue' = Append(queue, e)
    /\ s_pc' = [s_pc EXCEPT ![e] = "result"]
    /\ UNCHANGED <<builderVars, told, workVars>>

SubmitResult(e) ==
    /\ s_pc[e] = "result"
    /\ Tell(e, <<"submit_result">>)
    /\ s_pc' = [s_pc EXCEPT ![e] = "done"]
    /\ UNCHANGED <<builderVars, queue, workVars>>

-----------------------------------------------------------------------------
WorkerAt(w, from) == w \in running /\ w_pc[w] = from
WorkerGoes(w, to) == w_pc' = [w_pc EXCEPT ![w] = to]
workConst == <<builderVars, running, s_pc>>

Pop(w) ==
    /\ WorkerAt(w, "pop") /\ queue # <<>>
    /\ w_ev' = [w_ev EXCEPT ![w] = Head(queue)]
    /\ queue' = Tail(queue)
    /\ at' = [at EXCEPT ![w] = 1]
    /\ WorkerGoes(w, "decode")
    /\ UNCHANGED <<workConst, told, made, buffer, errors, out, failed>>

\* onError, on_error, and back to workerLoop.
Fail(w) ==
    /\ errors' = errors + 1
    /\ failed' = failed \cup {w_ev[w]}
    /\ Tell(w_ev[w], <<"error">>)
    /\ WorkerGoes(w, "pop")

\* Mutation of Decode: the recursion ends one too late.
DecodeOneMore(w) ==
    /\ WorkerAt(w, "decode") /\ at[w] <= Cardinality(Adapters) + 1
    /\ buffer' = [buffer EXCEPT ![at[w]] = w_ev[w]]
    /\ IF at[w] \in Decodes[w_ev[w]]
       THEN WorkerGoes(w, "parse") /\ Tell(w_ev[w], <<"raw_input">>) /\ UNCHANGED at
       ELSE at' = [at EXCEPT ![w] = @ + 1] /\ UNCHANGED <<w_pc, told>>
    /\ UNCHANGED <<workConst, queue, w_ev, made, errors, out, failed>>

\* decodeEventImpl<I>; on_raw_input.
Decode(w) ==
    /\ WorkerAt(w, "decode") /\ at[w] \in Adapters
    /\ buffer' = [buffer EXCEPT ![at[w]] = w_ev[w]]
    /\ IF at[w] \in Decodes[w_ev[w]]
       THEN WorkerGoes(w, "parse") /\ Tell(w_ev[w], <<"raw_input">>) /\ UNCHANGED at
       ELSE at' = [at EXCEPT ![w] = @ + 1] /\ UNCHANGED <<w_pc, told>>
    /\ UNCHANGED <<workConst, queue, w_ev, made, errors, out, failed>>

\* No adapter is left.
DecodeNone(w) ==
    /\ WorkerAt(w, "decode") /\ at[w] \notin Adapters
    /\ Fail(w)
    /\ UNCHANGED <<workConst, queue, w_ev, at, made, buffer, out>>

\* Mutation of Shown: rawInput is a view that the workers share.
ShownLast(w) == buffer[at[w]]

\* What rawInput shows.
Shown(w) == IF at[w] \in Buffered THEN buffer[at[w]] ELSE w_ev[w]

\* parse, which may refuse; on_command_built.
Parse(w) ==
    /\ WorkerAt(w, "parse")
    /\ \/ /\ Fail(w)
          /\ UNCHANGED made
       \/ /\ made' = [made EXCEPT ![w] = Shown(w)]
          /\ Tell(w_ev[w], <<"command_built">>)
          /\ WorkerGoes(w, "execute")
          /\ UNCHANGED <<errors, failed>>
    /\ UNCHANGED <<workConst, queue, w_ev, at, buffer, out>>

\* Mutation of Execute: a failure is reported, and the worker goes on.
ExecuteNoReturn(w) ==
    /\ WorkerAt(w, "execute")
    /\ \/ /\ errors' = errors + 1
          /\ failed' = failed \cup {w_ev[w]}
          /\ Tell(w_ev[w], <<"error", "result_ready">>)
       \/ Tell(w_ev[w], <<"result_ready">>) /\ UNCHANGED <<errors, failed>>
    /\ WorkerGoes(w, "distribute")
    /\ UNCHANGED <<workConst, queue, w_ev, at, made, buffer, out>>

\* execute, which may refuse; on_result_ready.
Execute(w) ==
    /\ WorkerAt(w, "execute")
    /\ \/ Fail(w)
       \/ /\ Tell(w_ev[w], <<"result_ready">>)
          /\ WorkerGoes(w, "distribute")
          /\ UNCHANGED <<errors, failed>>
    /\ UNCHANGED <<workConst, queue, w_ev, at, made, buffer, out>>

Result(w) == [ev |-> w_ev[w], of |-> made[w], via |-> at[w]]

\* Mutation of Distribute: the worker comes back to it.
DistributeAgain(w) ==
    /\ WorkerAt(w, "distribute") /\ Len(out) < 3
    /\ out' = Append(out, Result(w))
    /\ Tell(w_ev[w], <<"distributed">>)
    /\ UNCHANGED <<workConst, queue, w_pc, w_ev, at, made, buffer, errors, failed>>

\* distribute; on_distributed.
Distribute(w) ==
    /\ WorkerAt(w, "distribute")
    /\ out' = Append(out, Result(w))
    /\ Tell(w_ev[w], <<"distributed">>)
    /\ WorkerGoes(w, "pop")
    /\ UNCHANGED <<workConst, queue, w_ev, at, made, buffer, errors, failed>>

WorkerStep(w) ==
    Pop(w) \/ Decode(w) \/ DecodeNone(w) \/ Parse(w) \/ Execute(w) \/ Distribute(w)

\* A server is built, and then it runs.
BuildStep ==
    /\ running = {}
    /\ BuilderNext
    /\ UNCHANGED <<queue, s_pc, told, workVars>>

Next ==
    \/ BuildStep \/ Start
    \/ \E e \in Event : Submit(e) \/ SubmitPush(e) \/ SubmitResult(e)
    \/ \E w \in Worker : WorkerStep(w)

Spec == Init /\ [][Next]_vars

-----------------------------------------------------------------------------
TypeOK ==
    /\ BuilderTypeOK
    /\ running \subseteq Worker
    /\ running # {} => Cardinality(running) = WorkerCount
    /\ queue \in Seq(Event)
    /\ s_pc \in [Event -> {"new", "push", "result", "done"}]
    /\ w_pc \in [Worker -> {"pop", "decode", "parse", "execute", "distribute"}]
    /\ w_ev \in [Worker -> Event \cup {NoEvent}]
    /\ at \in [Worker -> 1..Cardinality(Adapters) + 1]
    /\ made \in [Worker -> Event \cup {NoEvent}]
    /\ buffer \in [Adapters -> Event \cup {NoEvent}]
    /\ errors \in Nat
    /\ told \in [Event -> Seq(Hook)]
    /\ out \in Seq([ev : Event, of : Event, via : Adapters])
    /\ failed \subseteq Event

\* What is distributed for an event was made from that event, decoded by the first
\* adapter that can; another worker's event gets in only through the buffer of an
\* adapter, and only when there are two workers.
ResultOfOwnEvent ==
    \A i \in DOMAIN out :
        /\ out[i].of # out[i].ev =>
              out[i].via \in Buffered /\ Cardinality(running) > 1
        /\ out[i].via \in Decodes[out[i].ev]
        /\ \A a \in Decodes[out[i].ev] : out[i].via <= a

WorkerHook == Hook \ {"event_received", "submit_result"}

Way == <<"raw_input", "command_built", "result_ready", "distributed">>

\* Where the worker's hooks stand in a sequence of hooks, and how many of them there are
\* up to place i.
WorkedAt(s) == {j \in DOMAIN s : s[j] \in WorkerHook}
Rank(s, i)  == Cardinality({j \in WorkedAt(s) : j <= i})

\* They are those of the way, as far as the event went, and an error if it failed.
InOrder(s, hasFailed) ==
    LET n == Cardinality(WorkedAt(s))
    IN  /\ n <= Len(Way)
        /\ \A j \in WorkedAt(s) :
              s[j] = IF hasFailed /\ Rank(s, j) = n THEN "error" ELSE Way[Rank(s, j)]

\* Each event is announced first, its outcome once and at any time after that,
\* even behind its result; in between come the hooks of its way, as far as it
\* went, and an error at the end if it failed, of which the metrics count each one.
HooksInOrder ==
    /\ errors = Cardinality(failed)
    /\ \A e \in Event :
          /\ told[e] # <<>> => Head(told[e]) = "event_received"
          /\ Len(told[e]) - Cardinality(WorkedAt(told[e])) <= 2
          /\ InOrder(told[e], e \in failed)

\* Each event is taken in its turn and comes to one end.
Service == INSTANCE EventService WITH
    todo        <- queue,
    busy        <- {w_ev[w] : w \in {x \in Worker : w_pc[x] # "pop"}},
    distributed <- {out[i].ev : i \in DOMAIN out}

ImplementsService == Service!Spec

=============================================================================
