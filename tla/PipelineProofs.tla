---------------------------- MODULE PipelineProofs ----------------------------
(***************************************************************************)
(* Proofs about the builder and the way of an event, for any number of     *)
(* workers and events and whatever the adapters can decode: what a server  *)
(* is built from, whose event a result was made from, and that each event  *)
(* comes to one end.                                                       *)
(***************************************************************************)
EXTENDS Pipeline, FiniteSetTheorems, TLAPS

USE ServerBuilderAssumption, PipelineAssumption DEF ServerBuilderAssumption, PipelineAssumption

-----------------------------------------------------------------------------
(* The builder *)

\* What the flags say of the pieces: something was given, and what is gone was taken
\* by a build().
Flags ==
    /\ given \subseteq has
    /\ builds = 0 => given = has
    /\ \A p \in Piece \cap has : /\ pieces_[p] # "default"
                                 /\ pieces_[p] = "moved" <=> p \notin given
    /\ "config" \in has =>
          \E c \in Config : config_ = IF "config" \in given THEN c
                                      ELSE [c EXCEPT !.listeners = NoListeners]

BuilderInv == BuilderTypeOK /\ Flags /\ BuiltFromGivenPieces

\* Emptying the lists of a configuration twice is emptying them once.
LEMMA EmptiedOnce ==
    ASSUME NEW c \in Config
    PROVE  LET d == [c EXCEPT !.listeners = NoListeners]
           IN  /\ [d EXCEPT !.listeners = NoListeners] = d
               /\ d.listeners = NoListeners /\ d.worker_count = c.worker_count
<1>1. DOMAIN c = {"listeners", "worker_count"}  OBVIOUS
<1> QED  BY <1>1

\* The builder's invariant at its beginning.
LEMMA BuilderInitInv == BuilderInit => BuilderInv
BY DEF BuilderInit, BuilderInv, BuilderTypeOK, Flags, BuiltFromGivenPieces, NoPieces

\* A setter, or a build(), leaves flags that tell the truth of what was given.
LEMMA BuilderNextInv == BuilderInv /\ BuilderNext => BuilderInv'
<1> SUFFICES ASSUME BuilderInv, BuilderNext PROVE BuilderInv'  OBVIOUS
<1> USE DEF BuilderInv
<1>1. ASSUME NEW c \in Config, WithConfig(c) PROVE BuilderInv'
  BY <1>1 DEF WithConfig, BuilderTypeOK, Flags, BuiltFromGivenPieces, Piece
<1>2. CASE WithHooks
  BY <1>2 DEF WithHooks, BuilderTypeOK, Flags, BuiltFromGivenPieces
<1>3. ASSUME NEW p \in Piece, With(p) PROVE BuilderInv'
  <2>1. BuilderTypeOK'  BY <1>3 DEF With, BuilderTypeOK
  <2>2. p # "config"  BY DEF Piece
  <2>3. Flags'  BY <1>3, <2>2 DEF With, BuilderTypeOK, Flags
  <2>4. BuiltFromGivenPieces'  BY <1>3 DEF With, BuiltFromGivenPieces
  <2> QED  BY <2>1, <2>3, <2>4
<1>4. CASE Build
  <2> USE <1>4 DEF Build
  <2>1. has = Piece \cup {"config"} /\ builds \in Nat  BY DEF isValid, BuilderTypeOK
  <2>2. PICK c \in Config : config_ = IF "config" \in given THEN c
                                      ELSE [c EXCEPT !.listeners = NoListeners]
    BY <2>1 DEF Flags
  <2>3. /\ config_' = [c EXCEPT !.listeners = NoListeners]
        /\ config_.worker_count = c.worker_count
        /\ config_.listeners = IF "config" \in given THEN c.listeners ELSE NoListeners
    BY <2>2, EmptiedOnce
  <2>4. BuilderTypeOK'
    <3>1. config_' \in {[d EXCEPT !.listeners = NoListeners] : d \in Config}  BY <2>3
    <3>2. pieces_' \in [Piece -> {"default", "given", "moved"}]  OBVIOUS
    <3>3. given' = {} /\ has' = has /\ hooks_' = hooks_ /\ builds' \in Nat  BY <2>1
    <3> QED  BY <3>1, <3>2, <3>3 DEF BuilderTypeOK
  <2>5. Flags'
    <3>1. given' = {} /\ builds' # 0  BY <2>1
    <3>2. \A p \in Piece : pieces_'[p] = "moved"  OBVIOUS
    <3>3. "config" \notin given'  BY <3>1
    <3>4. \E d \in Config : config_' = IF "config" \in given' THEN d
                                       ELSE [d EXCEPT !.listeners = NoListeners]
      BY <2>3, <3>3
    <3> QED  BY <3>1, <3>2, <3>4 DEF Flags
  <2>6. BuiltFromGivenPieces'
    <3>1. /\ server'.pieces = pieces_ /\ server'.given = given
          /\ server'.config = config_ /\ server'.listeners = config_.listeners
      BY DEF NewServer
    <3>2. \A p \in Piece : pieces_[p] # "default" /\ (pieces_[p] = "moved" <=> p \notin given)
      BY <2>1 DEF Flags
    <3>3. builds' = 1 => given = has  BY <2>1 DEF Flags
    <3> QED  BY <2>1, <2>3, <3>1, <3>2, <3>3 DEF BuiltFromGivenPieces
  <2> QED  BY <2>4, <2>5, <2>6
<1>5. CASE BuildInvalid
  BY <1>5 DEF BuildInvalid, BuilderTypeOK, Flags, BuiltFromGivenPieces
<1> QED  BY <1>1, <1>2, <1>3, <1>4, <1>5 DEF BuilderNext

\* The end of the builder takes nothing from the server.
LEMMA BuilderGoneInv == BuilderInv /\ BuilderGone => BuilderInv'
BY DEF BuilderGone, BuilderInv, BuilderTypeOK, Flags, BuiltFromGivenPieces, NoPieces

\* What only the builder has is not touched by the server.
LEMMA BuilderSame == BuilderInv /\ UNCHANGED builderVars => BuilderInv'
BY DEF builderVars, BuilderInv, BuilderTypeOK, Flags, BuiltFromGivenPieces

-----------------------------------------------------------------------------
(* The workers *)

\* What a worker knows of its event: no adapter it has passed can decode it, and the
\* one it stopped at is the first that can; the buffer of that adapter shows an event,
\* its own if it works alone, and what it made is made of its own event but through
\* a buffer, and among several workers.
Holding(w)  == w_pc[w] # "pop" => w \in running /\ w_ev[w] \in Event
Deciding(w) == w_pc[w] = "decode" => \A a \in Decodes[w_ev[w]] : at[w] <= a
Decided(w)  == w_pc[w] \in {"parse", "execute", "distribute"} =>
                  at[w] \in Decodes[w_ev[w]] /\ \A a \in Decodes[w_ev[w]] : at[w] <= a
Viewing(w)  == w_pc[w] = "parse" =>
                  /\ buffer[at[w]] \in Event
                  /\ Cardinality(running) > 1 \/ buffer[at[w]] = w_ev[w]
Making(w)   == w_pc[w] \in {"execute", "distribute"} =>
                  /\ made[w] \in Event
                  /\ made[w] # w_ev[w] => at[w] \in Buffered /\ Cardinality(running) > 1

WorkerOK(w) == Holding(w) /\ Deciding(w) /\ Decided(w) /\ Viewing(w) /\ Making(w)

WorkersOK == \A w \in Worker : WorkerOK(w)

\* Nothing comes out before the start.
Quiet == running = {} => out = <<>>

IInv == BuilderInv /\ TypeOK /\ WorkersOK /\ Quiet /\ ResultOfOwnEvent

\* The tuple of adapters that is modelled has two places.
LEMMA TwoAdapters == Cardinality(Adapters) = 2
<1> DEFINE n == IF 1 > 2 THEN 0 ELSE 2 - 1 + 1
<1>1. 1 \in Int /\ 2 \in Int /\ n = 2  OBVIOUS
<1>2. Cardinality(1..2) = n
  <2>1. \A a, b \in Int : Cardinality(a..b) = IF a > b THEN 0 ELSE b - a + 1
    BY FS_Interval
  <2> QED  BY <1>1, <2>1, Zenon
<1> HIDE DEF n
<1>3. Cardinality(1..2) = 2  BY <1>1, <1>2, Zenon
<1> QED  BY <1>3, Zenon DEF Adapters

\* One who works alone meets nobody.
LEMMA Alone ==
    ASSUME running \subseteq Worker, NEW v \in running, NEW w \in running, v # w
    PROVE  Cardinality(running) > 1
<1>1. IsFiniteSet(running) /\ Cardinality(running) \in Nat  BY FS_Subset, FS_CardinalityType
<1>2. IsFiniteSet(running \ {v}) /\ Cardinality(running \ {v}) = Cardinality(running) - 1
  BY <1>1, FS_RemoveElement
<1>3. Cardinality(running \ {v}) # 0  BY <1>2, FS_EmptySet
<1>4. Cardinality(running \ {v}) \in Nat  BY <1>2, FS_CardinalityType
<1> QED  BY <1>1, <1>2, <1>3, <1>4

\* The hooks called for an event are hooks.
LEMMA ToldHooks ==
    ASSUME told \in [Event -> Seq(Hook)], NEW e \in Event, NEW h \in Seq(Hook), Tell(e, h)
    PROVE  told' \in [Event -> Seq(Hook)]
<1>1. told[e] \o (IF server.hooks = "given" THEN h ELSE <<>>) \in Seq(Hook)
  <2>1. told[e] \in Seq(Hook) /\ <<>> \in Seq(Hook)  OBVIOUS
  <2> QED  BY <2>1
<1> QED  BY <1>1 DEF Tell

\* A program that has built nothing and runs nothing satisfies the invariant.
LEMMA InitInv == Init => IInv
<1> SUFFICES ASSUME Init PROVE IInv  OBVIOUS
<1> USE DEF Init
<1>1. BuilderInv  BY BuilderInitInv
<1>2. TypeOK  BY <1>1, TwoAdapters DEF TypeOK, BuilderInv
<1>3. WorkersOK
  BY DEF WorkersOK, WorkerOK, Holding, Deciding, Decided, Viewing, Making
<1>4. Quiet /\ ResultOfOwnEvent  BY DEF Quiet, ResultOfOwnEvent
<1> QED  BY <1>1, <1>2, <1>3, <1>4 DEF IInv

\* What a step that leaves the workers alone keeps.
LEMMA WorkersKeep ==
    ASSUME IInv, BuilderInv', UNCHANGED workVars, running = {} \/ UNCHANGED builderVars,
           queue' \in Seq(Event), s_pc' \in [Event -> {"new", "push", "result", "done"}],
           told' \in [Event -> Seq(Hook)]
    PROVE  IInv'
<1> USE DEF IInv, workVars
<1>1. TypeOK'
  <2>1. running' # {} => Cardinality(running') = WorkerCount'
    BY DEF TypeOK, builderVars, WorkerCount
  <2> QED  BY <2>1 DEF TypeOK, BuilderInv
<1>2. WorkersOK'
  BY DEF WorkersOK, WorkerOK, Holding, Deciding, Decided, Viewing, Making
<1>3. Quiet' /\ ResultOfOwnEvent'  BY DEF Quiet, ResultOfOwnEvent
<1> QED  BY <1>1, <1>2, <1>3

\* The start finds everybody where they began.
LEMMA StartInv == IInv /\ Start => IInv'
<1> SUFFICES ASSUME IInv, Start PROVE IInv'  OBVIOUS
<1> USE DEF IInv, Start
<1>1. BuilderInv'  BY BuilderGoneInv
<1>2. TypeOK'
  <2>1. WorkerCount' = WorkerCount  BY DEF BuilderGone, WorkerCount
  <2> QED  BY <1>1, <2>1 DEF TypeOK, BuilderInv
<1>3. WorkersOK'
  <2>1. \A w \in Worker : w_pc[w] = "pop"  BY DEF WorkersOK, WorkerOK, Holding, TypeOK
  <2> QED
    BY <2>1 DEF WorkersOK, WorkerOK, Holding, Deciding, Decided, Viewing, Making
<1>4. Quiet' /\ ResultOfOwnEvent'  BY DEF Quiet, ResultOfOwnEvent
<1> QED  BY <1>1, <1>2, <1>3, <1>4

\* A step of w does nothing to the other workers, but to what an adapter shows them.
Moves(w) ==
    /\ UNCHANGED workConst
    /\ \A v \in Worker \ {w} : /\ w_pc'[v] = w_pc[v] /\ w_ev'[v] = w_ev[v]
                               /\ at'[v] = at[v] /\ made'[v] = made[v]
    /\ \A a \in Adapters : buffer'[a] = buffer[a] \/ buffer'[a] \in Event

\* The types of what the workers change.
WorkTypeOK ==
    /\ queue \in Seq(Event)
    /\ w_pc \in [Worker -> {"pop", "decode", "parse", "execute", "distribute"}]
    /\ w_ev \in [Worker -> Event \cup {NoEvent}]
    /\ at \in [Worker -> 1..3]
    /\ made \in [Worker -> Event \cup {NoEvent}]
    /\ buffer \in [Adapters -> Event \cup {NoEvent}]
    /\ errors \in Nat
    /\ told \in [Event -> Seq(Hook)]
    /\ out \in Seq([ev : Event, of : Event, via : Adapters])
    /\ failed \subseteq Event

\* They are part of the type invariant, the number of adapters worked out.
LEMMA WorkTypes == TypeOK => WorkTypeOK
<1>1. Cardinality(Adapters) + 1 = 3  BY TwoAdapters
<1> QED  BY <1>1 DEF TypeOK, WorkTypeOK

\* So it is enough to look at w itself, and at what it puts out.
LEMMA MovesInv ==
    ASSUME IInv, NEW w \in running, Moves(w), WorkTypeOK', WorkerOK(w)', ResultOfOwnEvent'
    PROVE  IInv'
<1> USE DEF IInv, Moves, workConst
<1>1. BuilderInv'  BY BuilderSame
<1>2. TypeOK'
  <2>1. Cardinality(Adapters) + 1 = 3  BY TwoAdapters
  <2>2. WorkerCount' = WorkerCount  BY DEF builderVars, WorkerCount
  <2> QED  BY <1>1, <2>1, <2>2 DEF TypeOK, WorkTypeOK, BuilderInv
<1>3. ASSUME NEW v \in Worker, v # w PROVE WorkerOK(v)'
  <2>1. WorkerOK(v)  BY DEF WorkersOK
  <2>2. /\ w_pc'[v] = w_pc[v] /\ w_ev'[v] = w_ev[v] /\ at'[v] = at[v] /\ made'[v] = made[v]
        /\ running' = running
    BY <1>3
  <2>3. Holding(v)' /\ Deciding(v)' /\ Decided(v)' /\ Making(v)'
    BY <2>1, <2>2 DEF WorkerOK, Holding, Deciding, Decided, Making
  <2>4. Viewing(v)'
    <3>1. SUFFICES ASSUME w_pc[v] = "parse"
                   PROVE  /\ buffer'[at[v]] \in Event
                          /\ Cardinality(running) > 1 \/ buffer'[at[v]] = w_ev[v]
      BY <2>2 DEF Viewing
    <3>2. v \in running /\ at[v] \in Adapters
      BY <2>1, <3>1 DEF WorkerOK, Holding, Decided
    <3>3. Cardinality(running) > 1  BY <1>3, <3>2, Alone DEF TypeOK
    <3>4. buffer[at[v]] \in Event  BY <2>1, <3>1 DEF WorkerOK, Viewing
    <3> QED  BY <3>2, <3>3, <3>4
  <2> QED  BY <2>3, <2>4 DEF WorkerOK
<1>4. WorkersOK'  BY <1>3 DEF WorkersOK
<1>5. Quiet'  BY DEF Quiet
<1> QED  BY <1>1, <1>2, <1>4, <1>5

\* Reporting an error ends the work on the event.
LEMMA FailKeeps ==
    ASSUME IInv, NEW w \in running, w_ev[w] \in Event, Fail(w)
    PROVE  /\ errors' \in Nat /\ failed' \subseteq Event /\ told' \in [Event -> Seq(Hook)]
           /\ w_pc' = [w_pc EXCEPT ![w] = "pop"] /\ w_pc'[w] = "pop"
<1>1. w \in Worker /\ WorkTypeOK  BY WorkTypes DEF IInv, TypeOK
<1>2. <<"error">> \in Seq(Hook)  BY DEF Hook
<1>3. told' \in [Event -> Seq(Hook)]  BY <1>1, <1>2, ToldHooks DEF Fail, WorkTypeOK
<1> QED  BY <1>1, <1>3 DEF Fail, WorkerGoes, WorkTypeOK

\* What is known of a worker that stands at a place of its loop.
LEMMA AtWork ==
    ASSUME IInv, NEW w \in Worker, NEW l, WorkerAt(w, l), l # "pop"
    PROVE  /\ w \in running /\ WorkTypeOK /\ WorkerOK(w)
           /\ w_pc[w] = l /\ w_ev[w] \in Event
           /\ l \in {"parse", "execute", "distribute"} => at[w] \in Adapters
<1>1. WorkTypeOK /\ WorkerOK(w)  BY WorkTypes DEF IInv, WorkersOK
<1>2. w \in running /\ w_pc[w] = l  BY DEF WorkerAt
<1>3. w_ev[w] \in Event  BY <1>1, <1>2 DEF WorkerOK, Holding
<1>4. l \in {"parse", "execute", "distribute"} => at[w] \in Adapters
  BY <1>1, <1>2, <1>3 DEF WorkerOK, Decided
<1> QED  BY <1>1, <1>2, <1>3, <1>4

\* The steps of the loop, one by one.
LEMMA PopInv == ASSUME IInv, NEW w \in Worker, Pop(w) PROVE IInv'
<1> USE DEF Pop, WorkerAt, WorkerGoes
<1>1. w \in running /\ WorkTypeOK /\ ResultOfOwnEvent  BY WorkTypes DEF IInv
<1>2. Head(queue) \in Event /\ Tail(queue) \in Seq(Event)  BY <1>1 DEF WorkTypeOK
<1>3. Moves(w)  BY <1>1 DEF Moves, WorkTypeOK
<1>4. WorkTypeOK'  BY <1>1, <1>2 DEF WorkTypeOK, workConst
<1>5. /\ w_pc'[w] = "decode" /\ w_ev'[w] = Head(queue) /\ at'[w] = 1 /\ running' = running
  BY <1>1 DEF WorkTypeOK, workConst
<1>6. WorkerOK(w)'
  BY <1>1, <1>2, <1>5 DEF WorkerOK, Holding, Deciding, Decided, Viewing, Making, Adapters
<1>7. ResultOfOwnEvent'  BY <1>1, <1>5 DEF ResultOfOwnEvent
<1> QED  BY <1>1, <1>3, <1>4, <1>6, <1>7, MovesInv

\* decodeEventImpl passes on only an adapter that cannot decode the event.
LEMMA DecodeInv == ASSUME IInv, NEW w \in Worker, Decode(w) PROVE IInv'
<1> USE DEF Decode, WorkerGoes
<1>1. /\ w \in running /\ WorkTypeOK /\ WorkerOK(w) /\ w_pc[w] = "decode"
      /\ w_ev[w] \in Event /\ at[w] \in Adapters /\ ResultOfOwnEvent
  BY AtWork DEF IInv
<1>2. /\ buffer' \in [Adapters -> Event \cup {NoEvent}] /\ buffer'[at[w]] = w_ev[w]
      /\ \A a \in Adapters : buffer'[a] = buffer[a] \/ buffer'[a] \in Event
  BY <1>1 DEF WorkTypeOK
<1>3. running' = running /\ w_ev' = w_ev /\ made' = made /\ out' = out
  BY DEF workConst
<1>4. ResultOfOwnEvent'  BY <1>1, <1>3 DEF ResultOfOwnEvent
<1>5. \A a \in Decodes[w_ev[w]] : at[w] <= a  BY <1>1 DEF WorkerOK, Deciding
<1>6. CASE at[w] \in Decodes[w_ev[w]]
  <2>1. /\ w_pc' = [w_pc EXCEPT ![w] = "parse"] /\ at' = at /\ Tell(w_ev[w], <<"raw_input">>)
    BY <1>6
  <2>2. <<"raw_input">> \in Seq(Hook)  BY DEF Hook
  <2>3. told' \in [Event -> Seq(Hook)]  BY <1>1, <2>1, <2>2, ToldHooks DEF WorkTypeOK
  <2>4. WorkTypeOK'  BY <1>1, <1>2, <2>1, <2>3 DEF WorkTypeOK, workConst
  <2>5. Moves(w)  BY <1>1, <1>2, <1>3, <2>1 DEF Moves, WorkTypeOK
  <2>6. w_pc'[w] = "parse"  BY <1>1, <2>1 DEF WorkTypeOK
  <2>7. WorkerOK(w)'
    BY <1>1, <1>2, <1>3, <1>5, <1>6, <2>1, <2>6
       DEF WorkerOK, Holding, Deciding, Decided, Viewing, Making
  <2> QED  BY <1>1, <1>4, <2>4, <2>5, <2>7, MovesInv
<1>7. CASE at[w] \notin Decodes[w_ev[w]]
  <2>1. at' = [at EXCEPT ![w] = @ + 1] /\ w_pc' = w_pc /\ told' = told  BY <1>7
  <2>2. at'[w] = at[w] + 1 /\ at' \in [Worker -> 1..3]
    BY <1>1, <2>1 DEF WorkTypeOK, Adapters
  <2>3. WorkTypeOK'  BY <1>1, <1>2, <2>1, <2>2 DEF WorkTypeOK, workConst
  <2>4. Moves(w)  BY <1>1, <1>2, <1>3, <2>1 DEF Moves, WorkTypeOK
  <2>5. \A a \in Decodes[w_ev[w]] : at[w] + 1 <= a  BY <1>1, <1>5, <1>7 DEF Adapters
  <2>6. WorkerOK(w)'
    BY <1>1, <1>3, <2>1, <2>2, <2>5
       DEF WorkerOK, Holding, Deciding, Decided, Viewing, Making
  <2> QED  BY <1>1, <1>4, <2>3, <2>4, <2>6, MovesInv
<1> QED  BY <1>6, <1>7

\* A worker that gives up on its event has nothing to know.
LEMMA GiveUpInv ==
    ASSUME IInv, NEW w \in running, WorkTypeOK, w_ev[w] \in Event, Fail(w),
           UNCHANGED <<workConst, queue, w_ev, at, made, buffer, out>>
    PROVE  IInv'
<1>1. w \in Worker  BY DEF IInv, TypeOK
<1>2. /\ errors' \in Nat /\ failed' \subseteq Event /\ told' \in [Event -> Seq(Hook)]
      /\ w_pc' = [w_pc EXCEPT ![w] = "pop"] /\ w_pc'[w] = "pop"
  BY FailKeeps
<1>3. WorkTypeOK'  BY <1>2 DEF WorkTypeOK, workConst
<1>4. Moves(w)  BY <1>1, <1>2 DEF Moves, WorkTypeOK
<1>5. WorkerOK(w)'
  BY <1>2 DEF WorkerOK, Holding, Deciding, Decided, Viewing, Making
<1>6. ResultOfOwnEvent'  BY DEF ResultOfOwnEvent, workConst, IInv
<1> QED  BY <1>3, <1>4, <1>5, <1>6, MovesInv

\* No adapter could decode the event.
LEMMA DecodeNoneInv == ASSUME IInv, NEW w \in Worker, DecodeNone(w) PROVE IInv'
<1>1. w \in running /\ WorkTypeOK /\ w_ev[w] \in Event  BY AtWork DEF DecodeNone
<1> QED  BY <1>1, GiveUpInv DEF DecodeNone

\* A command is made of what the view shows at that moment.
LEMMA ParseInv == ASSUME IInv, NEW w \in Worker, Parse(w) PROVE IInv'
<1> USE DEF Parse
<1>1. /\ w \in running /\ WorkTypeOK /\ WorkerOK(w) /\ w_pc[w] = "parse"
      /\ w_ev[w] \in Event /\ at[w] \in Adapters /\ ResultOfOwnEvent
  BY AtWork DEF IInv
<1>2. CASE Fail(w) /\ UNCHANGED made  BY <1>1, <1>2, GiveUpInv
<1>3. CASE /\ made' = [made EXCEPT ![w] = Shown(w)]
           /\ Tell(w_ev[w], <<"command_built">>)
           /\ WorkerGoes(w, "execute")
           /\ UNCHANGED <<errors, failed>>
  <2>1. /\ running' = running /\ w_ev' = w_ev /\ at' = at /\ out' = out /\ buffer' = buffer
    BY DEF workConst
  <2>2. /\ Shown(w) \in Event
        /\ Shown(w) # w_ev[w] => at[w] \in Buffered /\ Cardinality(running) > 1
    BY <1>1 DEF Shown, WorkerOK, Viewing
  <2>3. made' \in [Worker -> Event \cup {NoEvent}] /\ made'[w] = Shown(w)
    BY <1>1, <1>3, <2>2 DEF WorkTypeOK
  <2>4. w_pc' = [w_pc EXCEPT ![w] = "execute"] /\ w_pc'[w] = "execute"
    BY <1>1, <1>3 DEF WorkerGoes, WorkTypeOK
  <2>5. <<"command_built">> \in Seq(Hook)  BY DEF Hook
  <2>6. told' \in [Event -> Seq(Hook)]  BY <1>1, <1>3, <2>5, ToldHooks DEF WorkTypeOK
  <2>7. WorkTypeOK'  BY <1>1, <1>3, <2>1, <2>3, <2>4, <2>6 DEF WorkTypeOK
  <2>8. Moves(w)  BY <1>1, <1>3, <2>1, <2>4 DEF Moves, WorkTypeOK
  <2>9. WorkerOK(w)'
    <3>1. Decided(w)'  BY <1>1, <2>1 DEF WorkerOK, Decided
    <3> QED  BY <1>1, <2>1, <2>2, <2>3, <2>4, <3>1
                DEF WorkerOK, Holding, Deciding, Viewing, Making
  <2>10. ResultOfOwnEvent'  BY <1>1, <2>1 DEF ResultOfOwnEvent
  <2> QED  BY <1>1, <2>7, <2>8, <2>9, <2>10, MovesInv
<1> QED  BY <1>2, <1>3

\* A result is made of the command.
LEMMA ExecuteInv == ASSUME IInv, NEW w \in Worker, Execute(w) PROVE IInv'
<1> USE DEF Execute
<1>1. /\ w \in running /\ WorkTypeOK /\ WorkerOK(w) /\ w_pc[w] = "execute"
      /\ w_ev[w] \in Event /\ at[w] \in Adapters /\ ResultOfOwnEvent
  BY AtWork DEF IInv
<1>2. CASE Fail(w)  BY <1>1, <1>2, GiveUpInv
<1>3. CASE /\ Tell(w_ev[w], <<"result_ready">>)
           /\ WorkerGoes(w, "distribute")
           /\ UNCHANGED <<errors, failed>>
  <2>1. /\ running' = running /\ w_ev' = w_ev /\ at' = at /\ out' = out
        /\ buffer' = buffer /\ made' = made
    BY DEF workConst
  <2>2. w_pc' = [w_pc EXCEPT ![w] = "distribute"] /\ w_pc'[w] = "distribute"
    BY <1>1, <1>3 DEF WorkerGoes, WorkTypeOK
  <2>3. <<"result_ready">> \in Seq(Hook)  BY DEF Hook
  <2>4. told' \in [Event -> Seq(Hook)]  BY <1>1, <1>3, <2>3, ToldHooks DEF WorkTypeOK
  <2>5. WorkTypeOK'  BY <1>1, <1>3, <2>1, <2>2, <2>4 DEF WorkTypeOK
  <2>6. Moves(w)  BY <1>1, <2>1, <2>2 DEF Moves, WorkTypeOK
  <2>7. WorkerOK(w)'
    BY <1>1, <2>1, <2>2 DEF WorkerOK, Holding, Deciding, Decided, Viewing, Making
  <2>8. ResultOfOwnEvent'  BY <1>1, <2>1 DEF ResultOfOwnEvent
  <2> QED  BY <1>1, <2>5, <2>6, <2>7, <2>8, MovesInv
<1> QED  BY <1>2, <1>3

\* What comes out was made by a worker that knows whose it is.
LEMMA DistributeInv == ASSUME IInv, NEW w \in Worker, Distribute(w) PROVE IInv'
<1> USE DEF Distribute
<1>1. /\ w \in running /\ WorkTypeOK /\ WorkerOK(w) /\ w_pc[w] = "distribute"
      /\ w_ev[w] \in Event /\ at[w] \in Adapters /\ ResultOfOwnEvent
  BY AtWork DEF IInv
<1>2. /\ running' = running /\ w_ev' = w_ev /\ at' = at /\ made' = made /\ buffer' = buffer
  BY DEF workConst
<1>3. w_pc' = [w_pc EXCEPT ![w] = "pop"] /\ w_pc'[w] = "pop"
  BY <1>1 DEF WorkerGoes, WorkTypeOK
<1>4. <<"distributed">> \in Seq(Hook)  BY DEF Hook
<1>5. told' \in [Event -> Seq(Hook)]  BY <1>1, <1>4, ToldHooks DEF WorkTypeOK
<1>6. /\ made[w] \in Event
      /\ made[w] # w_ev[w] => at[w] \in Buffered /\ Cardinality(running) > 1
      /\ at[w] \in Decodes[w_ev[w]] /\ \A a \in Decodes[w_ev[w]] : at[w] <= a
  BY <1>1 DEF WorkerOK, Making, Decided
<1>7. Result(w) \in [ev : Event, of : Event, via : Adapters]
  BY <1>1, <1>6 DEF Result
<1>8. WorkTypeOK'
  <2>1. out' \in Seq([ev : Event, of : Event, via : Adapters])
    BY <1>1, <1>7 DEF WorkTypeOK
  <2> QED  BY <1>1, <1>2, <1>3, <1>5, <2>1 DEF WorkTypeOK
<1>9. Moves(w)  BY <1>1, <1>2, <1>3 DEF Moves, WorkTypeOK
<1>10. WorkerOK(w)'
  BY <1>3 DEF WorkerOK, Holding, Deciding, Decided, Viewing, Making
<1>11. ResultOfOwnEvent'
  <2>1. \A i \in DOMAIN out' : out'[i] = Result(w) \/ (i \in DOMAIN out /\ out'[i] = out[i])
    BY <1>1 DEF WorkTypeOK
  <2>2. Result(w).ev = w_ev[w] /\ Result(w).of = made[w] /\ Result(w).via = at[w]
    BY DEF Result
  <2> QED  BY <1>1, <1>2, <1>6, <2>1, <2>2 DEF ResultOfOwnEvent
<1> QED  BY <1>1, <1>8, <1>9, <1>10, <1>11, MovesInv

\* The steps of a caller of trySubmit.
LEMMA CallerInv ==
    ASSUME IInv, NEW e \in Event, Submit(e) \/ SubmitPush(e) \/ SubmitResult(e)
    PROVE  IInv'
<1>1. BuilderInv'  BY BuilderSame DEF IInv, Submit, SubmitPush, SubmitResult
<1>2. /\ UNCHANGED workVars /\ UNCHANGED builderVars
      /\ queue \in Seq(Event) /\ told \in [Event -> Seq(Hook)]
      /\ s_pc \in [Event -> {"new", "push", "result", "done"}]
  BY DEF IInv, TypeOK, Submit, SubmitPush, SubmitResult
<1>3. \A h \in Seq(Hook) : Tell(e, h) => told' \in [Event -> Seq(Hook)]
  BY <1>2, ToldHooks
<1>4. /\ <<"event_received">> \in Seq(Hook) /\ <<"submit_result">> \in Seq(Hook)
      /\ <<"event_received", "submit_result">> \in Seq(Hook)
  BY DEF Hook
<1>5. CASE Submit(e)
  <2>1. told' \in [Event -> Seq(Hook)]  BY <1>3, <1>4, <1>5 DEF Submit
  <2>2. s_pc' \in [Event -> {"new", "push", "result", "done"}]  BY <1>2, <1>5 DEF Submit
  <2> QED  BY <1>1, <1>2, <1>5, <2>1, <2>2, WorkersKeep DEF Submit
<1>6. CASE SubmitPush(e)
  BY <1>1, <1>2, <1>6, WorkersKeep DEF SubmitPush
<1>7. CASE SubmitResult(e)
  <2>1. told' \in [Event -> Seq(Hook)]  BY <1>3, <1>4, <1>7 DEF SubmitResult
  <2>2. s_pc' \in [Event -> {"new", "push", "result", "done"}]
    BY <1>2, <1>7 DEF SubmitResult
  <2> QED  BY <1>1, <1>2, <1>7, <2>1, <2>2, WorkersKeep DEF SubmitResult
<1> QED  BY <1>5, <1>6, <1>7

\* Every step of the program keeps the invariant.
LEMMA NextInv == IInv /\ [Next]_vars => IInv'
<1> SUFFICES ASSUME IInv, [Next]_vars PROVE IInv'  OBVIOUS
<1>1. CASE BuildStep
  <2>1. BuilderInv'  BY <1>1, BuilderNextInv DEF BuildStep, IInv
  <2> QED  BY <1>1, <2>1, WorkersKeep DEF BuildStep, IInv, TypeOK
<1>2. CASE Start  BY <1>2, StartInv
<1>3. CASE \E e \in Event : Submit(e) \/ SubmitPush(e) \/ SubmitResult(e)
  BY <1>3, CallerInv
<1>4. CASE \E w \in Worker : WorkerStep(w)
  BY <1>4, PopInv, DecodeInv, DecodeNoneInv, ParseInv, ExecuteInv, DistributeInv
     DEF WorkerStep
<1>5. CASE UNCHANGED vars
  <2>1. BuilderInv'  BY <1>5, BuilderSame DEF vars, IInv
  <2> QED  BY <1>5, <2>1, WorkersKeep DEF vars, IInv, TypeOK
<1> QED  BY <1>1, <1>2, <1>3, <1>4, <1>5 DEF Next

\* The inductive invariant of building, submitting and processEvent holds in every
\* reachable state.
THEOREM InvHolds == Spec => []IInv
<1> QED  BY InitInv, NextInv, PTL DEF Spec

\* Every variable keeps its type, and a server that runs has the threads its
\* configuration asks for (start(), one if it asks for none).
THEOREM TypeCorrect == Spec => []TypeOK
<1>1. IInv => TypeOK  BY DEF IInv
<1> QED  BY <1>1, InvHolds, PTL

\* However the setters and build() of a builder follow one another, a server has the
\* pieces that were given for it, and lacks those an earlier build() has taken.
THEOREM PiecesCorrect == Spec => []BuiltFromGivenPieces
<1>1. IInv => BuiltFromGivenPieces  BY DEF IInv, BuilderInv
<1> QED  BY <1>1, InvHolds, PTL

\* Whatever the adapters can decode and however many workers share them, what
\* processEvent distributes for an event was decoded by the first adapter that can, and
\* is made of another event only through an adapter's buffer, among several workers.
THEOREM ResultsCorrect == Spec => []ResultOfOwnEvent
<1>1. IInv => ResultOfOwnEvent  BY DEF IInv
<1> QED  BY <1>1, InvHolds, PTL

-----------------------------------------------------------------------------
(* One end for each event *)

Queued(e) == \E i \in DOMAIN queue : queue[i] = e
Held(e)   == \E w \in Worker : w_pc[w] # "pop" /\ w_ev[w] = e
Out(e)    == \E i \in DOMAIN out : out[i].ev = e

\* An event is let in once, waits in one place, and is held by one worker.
NewNowhere == \A e \in Event : s_pc[e] \in {"new", "push"} =>
                  ~Queued(e) /\ ~Held(e) /\ ~Out(e) /\ e \notin failed
QueuedOnce == \A i, j \in DOMAIN queue : queue[i] = queue[j] => i = j
QueuedOrHeld == \A e \in Event : ~(Queued(e) /\ Held(e))
HeldByOne  == \A v, w \in Worker : w_pc[v] # "pop" /\ w_pc[w] # "pop" /\ w_ev[v] = w_ev[w]
                                      => v = w

Places == NewNowhere /\ QueuedOnce /\ QueuedOrHeld /\ HeldByOne

\* What the abstract service sees.
Busy == {w_ev[w] : w \in {x \in Worker : w_pc[x] # "pop"}}
Sent == {out[i].ev : i \in DOMAIN out}

\* At the beginning no event is anywhere.
LEMMA InitPlaces == Init => Places /\ Service!Init
BY DEF Init, Places, NewNowhere, QueuedOnce, QueuedOrHeld, HeldByOne, Queued, Held, Out,
       Service!Init

\* A step that changes no place.
LEMMA SamePlaces ==
    ASSUME Places, UNCHANGED <<queue, w_ev, out, failed>>,
           \A w \in Worker : w_pc'[w] = "pop" <=> w_pc[w] = "pop",
           \A e \in Event : s_pc'[e] \in {"new", "push"} => s_pc[e] \in {"new", "push"}
    PROVE  Places' /\ UNCHANGED Service!vars
<1>1. Places'
  BY DEF Places, NewNowhere, QueuedOnce, QueuedOrHeld, HeldByOne, Queued, Held, Out
<1>2. Busy' = Busy /\ Sent' = Sent  BY DEF Busy, Sent
<1> QED  BY <1>1, <1>2 DEF Service!vars, Busy, Sent

\* trySubmit lets in an event that is nowhere yet.
LEMMA PushPlaces ==
    ASSUME TypeOK, Places, NEW e \in Event, SubmitPush(e)
    PROVE  Places' /\ Service!Accept(e)
<1> USE DEF SubmitPush, workVars
<1>1. ~Queued(e) /\ ~Held(e) /\ ~Out(e) /\ e \notin failed  BY DEF Places, NewNowhere
<1>2. /\ Len(queue) \in Nat /\ DOMAIN queue = 1..Len(queue)
      /\ DOMAIN queue' = 1..Len(queue) + 1
      /\ queue'[Len(queue) + 1] = e /\ \A i \in DOMAIN queue : queue'[i] = queue[i]
  BY DEF TypeOK
<1>3. \A d \in Event : Queued(d)' => Queued(d) \/ d = e  BY <1>2 DEF Queued
<1>4. \A d \in Event : (Held(d)' <=> Held(d)) /\ (Out(d)' <=> Out(d))  BY DEF Held, Out
<1>5. NewNowhere'
  <2>1. \A d \in Event : s_pc'[d] \in {"new", "push"} => s_pc[d] \in {"new", "push"} /\ d # e
    BY DEF TypeOK
  <2> QED  BY <1>3, <1>4, <2>1 DEF Places, NewNowhere
<1>6. QueuedOnce'
  <2>1. \A i \in DOMAIN queue : queue[i] # e  BY <1>1 DEF Queued
  <2> QED  BY <1>2, <2>1 DEF Places, QueuedOnce
<1>7. QueuedOrHeld'  BY <1>1, <1>3, <1>4 DEF Places, QueuedOrHeld
<1>8. HeldByOne'  BY DEF Places, HeldByOne
<1>9. ~Service!Known(e)
  <2>1. e \notin Busy /\ e \notin Sent /\ \A i \in DOMAIN queue : queue[i] # e
    BY <1>1 DEF Busy, Sent, Held, Out, Queued
  <2> QED  BY <1>1, <2>1 DEF Service!Known, Busy, Sent
<1>10. Busy' = Busy /\ Sent' = Sent  BY DEF Busy, Sent
<1> QED  BY <1>5, <1>6, <1>7, <1>8, <1>9, <1>10 DEF Places, Service!Accept, Busy, Sent

\* A worker takes the event at the head, and nobody else has it.
LEMMA PopPlaces ==
    ASSUME TypeOK, Places, NEW w \in Worker, Pop(w)
    PROVE  Places' /\ Service!Take
<1> USE DEF Pop, WorkerAt, WorkerGoes, workConst
<1>0. PICK d \in Event : d = Head(queue)  BY DEF TypeOK
<1>1. /\ Len(queue) \in Nat /\ DOMAIN queue = 1..Len(queue) /\ 1 \in DOMAIN queue
      /\ d = queue[1]
      /\ DOMAIN queue' = 1..Len(queue) - 1
      /\ \A i \in DOMAIN queue' : i + 1 \in DOMAIN queue /\ queue'[i] = queue[i + 1]
  BY <1>0 DEF TypeOK
<1>2. /\ w_pc[w] = "pop" /\ w_pc'[w] = "decode" /\ w_ev'[w] = d
      /\ \A v \in Worker \ {w} : w_pc'[v] = w_pc[v] /\ w_ev'[v] = w_ev[v]
      /\ s_pc' = s_pc /\ out' = out /\ failed' = failed
  BY <1>0 DEF TypeOK
<1> HIDE DEF Pop, WorkerAt, WorkerGoes, workConst
<1>3. Queued(d) /\ ~Held(d)  BY <1>1 DEF Queued, Places, QueuedOrHeld
<1>4. \A e \in Event : Queued(e)' => Queued(e)  BY <1>1 DEF Queued
<1>5. ~Queued(d)'
  <2>1. \A i \in DOMAIN queue' : queue'[i] # queue[1]
    BY <1>1 DEF Places, QueuedOnce
  <2> QED  BY <1>1, <2>1 DEF Queued
<1>6. \A e \in Event : Held(e)' <=> Held(e) \/ e = d  BY <1>2 DEF Held
<1>7. \A e \in Event : Out(e)' <=> Out(e)  BY <1>2 DEF Out
<1>8. NewNowhere'  BY <1>2, <1>3, <1>4, <1>6, <1>7 DEF Places, NewNowhere
<1>9. QueuedOnce'  BY <1>1 DEF Places, QueuedOnce
<1>10. QueuedOrHeld'  BY <1>4, <1>5, <1>6 DEF Places, QueuedOrHeld
<1>11. HeldByOne'
  <2>1. \A v \in Worker : w_pc[v] # "pop" => w_ev[v] # d  BY <1>3 DEF Held
  <2> QED  BY <1>2, <2>1 DEF Places, HeldByOne
<1>12. Busy' = Busy \cup {Head(queue)}  BY <1>0, <1>2 DEF Busy
<1>13. Sent' = Sent  BY <1>2 DEF Sent
<1>14. Service!Take
  BY <1>2, <1>12, <1>13 DEF Service!Take, Busy, Sent, Pop
<1> QED  BY <1>8, <1>9, <1>10, <1>11, <1>14 DEF Places

\* The end of an event frees its worker, and no other worker has the event.
LEMMA EndPlaces ==
    ASSUME TypeOK, Places, NEW w \in Worker, w_pc[w] # "pop", NEW d \in Event, d = w_ev[w],
           w_pc' = [w_pc EXCEPT ![w] = "pop"], UNCHANGED <<queue, s_pc, w_ev>>,
           \/ Sent' = Sent \cup {d} /\ failed' = failed
           \/ failed' = failed \cup {d} /\ out' = out
    PROVE  Places' /\ Service!Finish(d)
<1>1. w_pc'[w] = "pop" /\ \A v \in Worker \ {w} : w_pc'[v] = w_pc[v]  BY DEF TypeOK
<1>2. /\ Held(d) /\ ~Queued(d) /\ s_pc[d] \notin {"new", "push"}
  BY DEF Held, Places, QueuedOrHeld, NewNowhere
<1>3. \A e \in Event : (Queued(e)' <=> Queued(e)) /\ (Held(e)' => Held(e))
  BY <1>1 DEF Queued, Held
<1>4. \A e \in Event : Out(e)' => Out(e) \/ e = d
  <2>1. \A e : (Out(e) <=> e \in Sent) /\ (Out(e)' <=> e \in Sent')  BY DEF Out, Sent
  <2>2. Sent' \subseteq Sent \cup {d}  BY DEF Sent
  <2> QED  BY <2>1, <2>2
<1>5. NewNowhere'
  <2>1. \A e \in Event : e \in failed' => e \in failed \/ e = d  OBVIOUS
  <2> QED  BY <1>2, <1>3, <1>4, <2>1 DEF Places, NewNowhere
<1>6. QueuedOnce'  BY DEF Places, QueuedOnce
<1>7. QueuedOrHeld'  BY <1>3 DEF Places, QueuedOrHeld
<1>8. HeldByOne'  BY <1>1 DEF Places, HeldByOne
<1>9. Busy' = Busy \ {d}
  <2>1. \A v \in Worker \ {w} : w_pc[v] # "pop" => w_ev[v] # d  BY DEF Places, HeldByOne
  <2> QED  BY <1>1, <2>1 DEF Busy
<1>10. d \in Busy  BY DEF Busy
<1>11. \/ Sent' = Sent \cup {d} /\ failed' = failed
       \/ failed' = failed \cup {d} /\ Sent' = Sent
  BY DEF Sent
<1>12. Service!Finish(d)  BY <1>9, <1>10, <1>11 DEF Service!Finish, Busy, Sent
<1> QED  BY <1>5, <1>6, <1>7, <1>8, <1>12 DEF Places

\* Each step of the server is a step of the service, or none of its business.
LEMMA StepPlaces ==
    ASSUME IInv, Places, [Next]_vars
    PROVE  Places' /\ [Service!Next]_(Service!vars)
<1>1. TypeOK  BY DEF IInv
<1>2. CASE BuildStep \/ Start \/ UNCHANGED vars
  BY <1>2, SamePlaces DEF BuildStep, Start, vars, workVars
<1>3. ASSUME NEW e \in Event, Submit(e) \/ SubmitPush(e) \/ SubmitResult(e)
      PROVE  Places' /\ [Service!Next]_(Service!vars)
  <2>1. CASE SubmitPush(e)  BY <1>1, <2>1, PushPlaces DEF Service!Next
  <2>2. CASE Submit(e) \/ SubmitResult(e)
    <3>1. /\ UNCHANGED <<queue, w_ev, out, failed, w_pc>>
          /\ \A d \in Event : s_pc'[d] \in {"new", "push"} => s_pc[d] \in {"new", "push"}
      BY <1>1, <2>2 DEF Submit, SubmitResult, workVars, TypeOK
    <3> QED  BY <3>1, SamePlaces
  <2> QED  BY <1>3, <2>1, <2>2
<1>4. ASSUME NEW w \in Worker, WorkerStep(w)
      PROVE  Places' /\ [Service!Next]_(Service!vars)
  <2>1. CASE Pop(w)  BY <1>1, <2>1, PopPlaces DEF Service!Next
  <2>2. ASSUME ~Pop(w)
        PROVE  w_pc[w] # "pop" /\ w_ev[w] \in Event /\ UNCHANGED <<queue, s_pc, w_ev>>
    <3>1. w_pc[w] # "pop" /\ UNCHANGED <<queue, s_pc, w_ev>>
      BY <1>4, <2>2
         DEF WorkerStep, Decode, DecodeNone, Parse, Execute, Distribute, WorkerAt, workConst
    <3>2. w_ev[w] \in Event  BY <3>1 DEF IInv, WorkersOK, WorkerOK, Holding
    <3> QED  BY <3>1, <3>2
  <2>3. ASSUME ~Pop(w), Fail(w), UNCHANGED out
        PROVE  Places' /\ [Service!Next]_(Service!vars)
    <3>1. PICK d \in Event : d = w_ev[w]  BY <2>2, <2>3
    <3>2. w_pc' = [w_pc EXCEPT ![w] = "pop"] /\ failed' = failed \cup {d}
      BY <2>3, <3>1 DEF Fail, WorkerGoes
    <3>3. Places' /\ Service!Finish(d)  BY <1>1, <2>2, <2>3, <3>1, <3>2, EndPlaces
    <3> QED  BY <3>3 DEF Service!Next
  <2>4. CASE DecodeNone(w)  BY <2>3, <2>4 DEF DecodeNone, Pop, WorkerAt
  <2>5. CASE Decode(w)
    <3>1. UNCHANGED <<queue, w_ev, out, failed, s_pc>>  BY <2>5 DEF Decode, workConst
    <3>2. \A v \in Worker : w_pc'[v] = "pop" <=> w_pc[v] = "pop"
      BY <1>1, <2>5 DEF Decode, WorkerAt, WorkerGoes, TypeOK
    <3> QED  BY <3>1, <3>2, SamePlaces
  <2>6. CASE Parse(w)
    <3>1. CASE Fail(w)  BY <2>3, <2>6, <3>1 DEF Parse, Pop, WorkerAt
    <3>2. CASE WorkerGoes(w, "execute") /\ UNCHANGED failed
      <4>1. UNCHANGED <<queue, w_ev, out, failed, s_pc>>
        BY <2>6, <3>2 DEF Parse, workConst
      <4>2. \A v \in Worker : w_pc'[v] = "pop" <=> w_pc[v] = "pop"
        BY <1>1, <2>6, <3>2 DEF Parse, WorkerAt, WorkerGoes, TypeOK
      <4> QED  BY <4>1, <4>2, SamePlaces
    <3> QED  BY <2>6, <3>1, <3>2 DEF Parse
  <2>7. CASE Execute(w)
    <3>1. CASE Fail(w)  BY <2>3, <2>7, <3>1 DEF Execute, Pop, WorkerAt
    <3>2. CASE WorkerGoes(w, "distribute") /\ UNCHANGED failed
      <4>1. UNCHANGED <<queue, w_ev, out, failed, s_pc>>
        BY <2>7, <3>2 DEF Execute, workConst
      <4>2. \A v \in Worker : w_pc'[v] = "pop" <=> w_pc[v] = "pop"
        BY <1>1, <2>7, <3>2 DEF Execute, WorkerAt, WorkerGoes, TypeOK
      <4> QED  BY <4>1, <4>2, SamePlaces
    <3> QED  BY <2>7, <3>1, <3>2 DEF Execute
  <2>8. CASE Distribute(w)
    <3>1. w_pc[w] # "pop"  BY <2>8 DEF Distribute, WorkerAt
    <3>2. w_ev[w] \in Event /\ UNCHANGED <<queue, s_pc, w_ev>>
      BY <2>2, <2>8, <3>1 DEF Pop, WorkerAt
    <3>3. PICK d \in Event : d = w_ev[w]  BY <3>2
    <3>4. w_pc' = [w_pc EXCEPT ![w] = "pop"] /\ failed' = failed
      BY <2>8 DEF Distribute, WorkerGoes
    <3>5. Sent' = Sent \cup {d}
      <4>1. Result(w).ev = d  BY <3>3 DEF Result
      <4>2. /\ Len(out) \in Nat /\ DOMAIN out = 1..Len(out)
            /\ DOMAIN out' = 1..Len(out) + 1 /\ out'[Len(out) + 1] = Result(w)
            /\ \A i \in DOMAIN out : out'[i] = out[i]
        BY <1>1, <2>8 DEF Distribute, TypeOK
      <4>3. DOMAIN out' = DOMAIN out \cup {Len(out) + 1}  BY <4>2
      <4>4. Sent' \subseteq Sent \cup {d}  BY <4>1, <4>2, <4>3 DEF Sent
      <4>5. Sent \subseteq Sent' /\ d \in Sent'  BY <4>1, <4>2, <4>3 DEF Sent
      <4> QED  BY <4>4, <4>5
    <3>6. Places' /\ Service!Finish(d)
      BY <1>1, <3>1, <3>2, <3>3, <3>4, <3>5, EndPlaces
    <3> QED  BY <3>6 DEF Service!Next
  <2> QED  BY <1>4, <2>1, <2>4, <2>5, <2>6, <2>7, <2>8 DEF WorkerStep
<1> QED  BY <1>2, <1>3, <1>4 DEF Next

\* The queue, the workers and what they put out are the service: an event that
\* trySubmit has let in is taken once, in its turn, and comes to one end, its result
\* distributed or its error reported.
THEOREM PipelineImplementsService == Spec => ImplementsService
<1>1. Init => Places /\ Service!Init  BY InitPlaces
<1>2. IInv /\ Places /\ [Next]_vars => Places' /\ [Service!Next]_(Service!vars)
  BY StepPlaces
<1> QED  BY <1>1, <1>2, InvHolds, PTL DEF Spec, ImplementsService, Service!Spec

-----------------------------------------------------------------------------
(* Sequences of hooks *)

\* The places of the worker's hooks are finitely many, and no more up to one of them.
LEMMA WorkedFinite ==
    ASSUME NEW s \in Seq(Hook)
    PROVE  /\ IsFiniteSet(WorkedAt(s)) /\ Cardinality(WorkedAt(s)) \in Nat
           /\ Cardinality(WorkedAt(s)) <= Len(s)
           /\ \A i : Rank(s, i) \in Nat /\ Rank(s, i) <= Cardinality(WorkedAt(s))
<1>1. Len(s) \in Nat /\ DOMAIN s = 1..Len(s)  OBVIOUS
<1>2. IsFiniteSet(1..Len(s)) /\ Cardinality(1..Len(s)) = Len(s)
  <2>1. 1 \in Int /\ Len(s) \in Int  BY <1>1
  <2>2. IsFiniteSet(1..Len(s))
        /\ Cardinality(1..Len(s)) = IF 1 > Len(s) THEN 0 ELSE Len(s) - 1 + 1
    BY <2>1, FS_Interval
  <2> QED  BY <1>1, <2>2
<1>3. WorkedAt(s) \subseteq 1..Len(s)  BY <1>1 DEF WorkedAt
<1>4. /\ IsFiniteSet(WorkedAt(s)) /\ Cardinality(WorkedAt(s)) \in Nat
      /\ Cardinality(WorkedAt(s)) <= Len(s)
  BY <1>2, <1>3, FS_Subset, FS_CardinalityType
<1>5. ASSUME NEW i PROVE Rank(s, i) \in Nat /\ Rank(s, i) <= Cardinality(WorkedAt(s))
  <2>1. {j \in WorkedAt(s) : j <= i} \subseteq WorkedAt(s)  OBVIOUS
  <2> QED  BY <1>4, <2>1, FS_Subset, FS_CardinalityType DEF Rank
<1> QED  BY <1>4, <1>5

\* A hook more changes nothing of those before it.
Before(s, t) == \A j \in WorkedAt(s) : t[j] = s[j] /\ Rank(t, j) = Rank(s, j)

\* The worker's last hook h is at place k and the m-th of them.
Adds(s, t, h, k, m) ==
    /\ WorkedAt(t) = WorkedAt(s) \cup {k} /\ Cardinality(WorkedAt(t)) = m
    /\ t[k] = h /\ Rank(t, k) = m

\* A sequence of hooks and one hook more.
LEMMA HookAppended ==
    ASSUME NEW s \in Seq(Hook), NEW h \in Hook, NEW t, t = s \o <<h>>
    PROVE  /\ t \in Seq(Hook) /\ Len(t) = Len(s) + 1 /\ t # <<>> /\ Len(s) \in Nat
           /\ Head(t) = IF s = <<>> THEN h ELSE Head(s)
           /\ Before(s, t)
           /\ IF h \in WorkerHook
              THEN \E k : Adds(s, t, h, k, Cardinality(WorkedAt(s)) + 1)
              ELSE WorkedAt(t) = WorkedAt(s)
<1>1. t \in Seq(Hook) /\ Len(t) = Len(s) + 1 /\ Len(s) \in Nat /\ t # <<>>  OBVIOUS
<1>2. t[Len(s) + 1] = h /\ \A j \in DOMAIN s : t[j] = s[j]  OBVIOUS
<1>3. DOMAIN s = 1..Len(s) /\ DOMAIN t = DOMAIN s \cup {Len(s) + 1}
      /\ Len(s) + 1 \notin DOMAIN s
  BY <1>1
<1>4. Head(t) = IF s = <<>> THEN h ELSE Head(s)
  <2>1. Head(t) = t[1] /\ (s # <<>> => Head(s) = s[1] /\ 1 \in DOMAIN s)  BY <1>1
  <2>2. s = <<>> => Len(s) + 1 = 1  OBVIOUS
  <2> QED  BY <1>2, <2>1, <2>2
<1>5. WorkedAt(t) = IF h \in WorkerHook THEN WorkedAt(s) \cup {Len(s) + 1} ELSE WorkedAt(s)
  BY <1>2, <1>3 DEF WorkedAt
<1>6. ASSUME NEW j \in WorkedAt(s) PROVE j \in DOMAIN s /\ Rank(t, j) = Rank(s, j)
  <2>1. j \in DOMAIN s /\ j \in Nat /\ j <= Len(s)  BY <1>3 DEF WorkedAt
  <2>2. ~(Len(s) + 1 <= j)  BY <1>1, <2>1
  <2>3. {i \in WorkedAt(t) : i <= j} = {i \in WorkedAt(s) : i <= j}  BY <1>5, <2>2
  <2> QED  BY <2>1, <2>3 DEF Rank
<1>7. ASSUME h \in WorkerHook
      PROVE  /\ Cardinality(WorkedAt(t)) = Cardinality(WorkedAt(s)) + 1
             /\ Rank(t, Len(s) + 1) = Cardinality(WorkedAt(s)) + 1
  <2>1. Len(s) + 1 \notin WorkedAt(s) /\ IsFiniteSet(WorkedAt(s))
    BY <1>3, WorkedFinite DEF WorkedAt
  <2>2. Cardinality(WorkedAt(t)) = Cardinality(WorkedAt(s)) + 1
    BY <1>5, <1>7, <2>1, FS_AddElement
  <2>3. \A i \in WorkedAt(t) : i <= Len(s) + 1
    <3>1. \A i \in 1..Len(s) : i <= Len(s) + 1  BY <1>1
    <3>2. Len(s) + 1 <= Len(s) + 1  BY <1>1
    <3> QED  BY <1>3, <1>5, <3>1, <3>2 DEF WorkedAt
  <2>4. {i \in WorkedAt(t) : i <= Len(s) + 1} = WorkedAt(t)  BY <2>3
  <2> QED  BY <2>2, <2>4 DEF Rank
<1>8. Before(s, t)  BY <1>2, <1>6 DEF Before
<1>9. h \in WorkerHook => Adds(s, t, h, Len(s) + 1, Cardinality(WorkedAt(s)) + 1)
  BY <1>2, <1>5, <1>7 DEF Adds
<1> QED  BY <1>1, <1>4, <1>5, <1>8, <1>9

\* The outcome may be told at any time, ...
LEMMA OutcomeInOrder ==
    ASSUME NEW s \in Seq(Hook), NEW b, InOrder(s, b), NEW h \in Hook \ WorkerHook,
           NEW t, t = s \o <<h>>
    PROVE  InOrder(t, b) /\ WorkedAt(t) = WorkedAt(s)
<1>1. WorkedAt(t) = WorkedAt(s) /\ Before(s, t)  BY HookAppended
<1> QED  BY <1>1 DEF InOrder, Before

\* The next hook of the way as long as nothing has failed.
OneOnward(s, m, h, t) ==
    /\ s \in Seq(Hook) /\ InOrder(s, FALSE) /\ t = s \o <<h>>
    /\ Cardinality(WorkedAt(s)) < Len(Way) /\ m = Cardinality(WorkedAt(s)) + 1 /\ h = Way[m]

\* ... the next hook of the way then, ...
LEMMA WayInOrder ==
    ASSUME NEW s, NEW m, NEW h, NEW t, OneOnward(s, m, h, t)
    PROVE  h \in WorkerHook /\ InOrder(t, FALSE) /\ Cardinality(WorkedAt(t)) = m
<1>0. /\ s \in Seq(Hook) /\ InOrder(s, FALSE) /\ t = s \o <<h>>
      /\ Cardinality(WorkedAt(s)) < Len(Way) /\ m = Cardinality(WorkedAt(s)) + 1 /\ h = Way[m]
  BY DEF OneOnward
<1>1. m \in Nat /\ m > 0 /\ Len(Way) = 4 /\ m <= Len(Way)
  <2>0. PICK n : n = Cardinality(WorkedAt(s))  OBVIOUS
  <2>1. n \in Nat /\ n < Len(Way) /\ m = n + 1  BY <1>0, <2>0, WorkedFinite
  <2>2. Len(Way) = 4  BY DEF Way
  <2> QED  BY <2>1, <2>2
<1>2. h \in WorkerHook /\ h \in Hook
  <2>1. m \in {1, 2, 3, 4}  BY <1>1
  <2> QED  BY <1>0, <2>1 DEF Way, WorkerHook, Hook
<1>3. Before(s, t) /\ \E k : Adds(s, t, h, k, m)  BY <1>0, <1>2, HookAppended
<1>4. PICK k : Adds(s, t, h, k, m)  BY <1>3
<1>5. \A j \in WorkedAt(s) : s[j] = Way[Rank(s, j)]  BY <1>0 DEF InOrder
<1>6. ASSUME NEW j \in WorkedAt(t) PROVE t[j] = Way[Rank(t, j)]
  <2>1. CASE j = k  BY <1>0, <1>4, <2>1 DEF Adds
  <2>2. CASE j \in WorkedAt(s)  BY <1>3, <1>5, <2>2 DEF Before
  <2> QED  BY <1>4, <2>1, <2>2 DEF Adds
<1> QED  BY <1>1, <1>2, <1>4, <1>6 DEF InOrder, Adds

\* ... and then the error.
LEMMA ErrorInOrder ==
    ASSUME NEW s \in Seq(Hook), InOrder(s, FALSE), NEW n, n = Cardinality(WorkedAt(s)),
           n < Len(Way), NEW m, m = n + 1, NEW t, t = s \o <<"error">>
    PROVE  InOrder(t, TRUE) /\ Cardinality(WorkedAt(t)) = m
<1>1. n \in Nat /\ Len(Way) = 4 /\ m <= Len(Way)
  <2>1. n \in Nat  BY WorkedFinite
  <2>2. Len(Way) = 4  BY DEF Way
  <2> QED  BY <2>1, <2>2
<1>2. "error" \in WorkerHook /\ "error" \in Hook  BY DEF WorkerHook, Hook
<1>3. Before(s, t) /\ \E k : Adds(s, t, "error", k, m)  BY <1>2, HookAppended
<1>4. PICK k : Adds(s, t, "error", k, m)  BY <1>3
<1>5. \A j \in WorkedAt(s) : Rank(s, j) # m  BY <1>1, WorkedFinite
<1>6. \A j \in WorkedAt(s) : s[j] = Way[Rank(s, j)]  BY DEF InOrder
<1>7. ASSUME NEW j \in WorkedAt(t)
      PROVE  t[j] = IF Rank(t, j) = m THEN "error" ELSE Way[Rank(t, j)]
  <2>1. CASE j = k  BY <1>4, <2>1 DEF Adds
  <2>2. CASE j \in WorkedAt(s)  BY <1>3, <1>5, <1>6, <2>2 DEF Before
  <2> QED  BY <1>4, <2>1, <2>2 DEF Adds
<1> QED  BY <1>1, <1>4, <1>7 DEF InOrder, Adds

-----------------------------------------------------------------------------
(* The hooks *)

\* How many hooks of its way an event in the hands of a worker has behind it.
Stage == [decode |-> 0, parse |-> 1, execute |-> 2, distribute |-> 3]

\* How many hooks trySubmit has called for an event.
Announced(e) == CASE s_pc[e] = "new" -> 0 [] s_pc[e] = "done" -> 2 [] OTHER -> 1

\* The hooks called for an event say how far it has come.
EventHooks(e) ==
    /\ s_pc[e] = "new" \/ server.hooks # "given" => told[e] = <<>>
    /\ told[e] # <<>> => Head(told[e]) = "event_received"
    /\ server.hooks = "given" => Len(told[e]) = Cardinality(WorkedAt(told[e])) + Announced(e)
    /\ InOrder(told[e], e \in failed)
    /\ s_pc[e] = "push" \/ Queued(e) => WorkedAt(told[e]) = {}
    /\ \A w \in Worker : server.hooks = "given" /\ w_pc[w] # "pop" /\ w_ev[w] = e =>
          Cardinality(WorkedAt(told[e])) = Stage[w_pc[w]]

\* An event fails once; nothing is submitted before the start.
FailsOnce ==
    /\ IsFiniteSet(failed) /\ errors = Cardinality(failed)
    /\ \A e \in Event : Queued(e) \/ Held(e) => e \notin failed

HookInv ==
    /\ FailsOnce
    /\ running = {} => \A e \in Event : s_pc[e] = "new"
    /\ \A e \in Event : EventHooks(e)

\* No hook of the way is in order, ...
LEMMA NoneInOrder ==
    ASSUME NEW s, WorkedAt(s) = {}, NEW b PROVE Cardinality(WorkedAt(s)) = 0 /\ InOrder(s, b)
<1>1. Cardinality(WorkedAt(s)) = 0  BY FS_EmptySet
<1>2. Len(Way) = 4  BY DEF Way
<1> QED  BY <1>1, <1>2 DEF InOrder

\* ... and so is no hook at all.
LEMMA NoHooks ==
    ASSUME NEW b PROVE WorkedAt(<<>>) = {} /\ Cardinality(WorkedAt(<<>>)) = 0 /\ InOrder(<<>>, b)
<1>1. WorkedAt(<<>>) = {}  BY DEF WorkedAt
<1> QED  BY <1>1, NoneInOrder

\* An event of which no hook was called, and which nobody has.
LEMMA NothingCalled ==
    ASSUME NEW e \in Event, told[e] = <<>>, s_pc[e] = "new", ~Held(e)
    PROVE  EventHooks(e)
<1>1. WorkedAt(told[e]) = {} /\ InOrder(told[e], e \in failed)  BY NoHooks
<1>2. Len(told[e]) = Cardinality(WorkedAt(told[e])) + Announced(e)
  <2>1. Len(told[e]) = 0 /\ Announced(e) = 0  BY DEF Announced
  <2>2. Cardinality(WorkedAt(told[e])) = 0  BY NoHooks
  <2> QED  BY <2>1, <2>2
<1> QED  BY <1>1, <1>2 DEF EventHooks, Held

\* At the beginning no hook was called.
LEMMA HookInit == Init => HookInv
<1> SUFFICES ASSUME Init PROVE HookInv  OBVIOUS
<1> USE DEF Init
<1>1. FailsOnce  BY FS_EmptySet DEF FailsOnce
<1>2. \A e \in Event : EventHooks(e)  BY NothingCalled DEF Held
<1> QED  BY <1>1, <1>2 DEF HookInv

\* A step that has nothing to do with an event.
LEMMA EventKept ==
    ASSUME NEW e \in Event, EventHooks(e), told'[e] = told[e], s_pc'[e] = s_pc[e],
           server' = server, e \in failed' <=> e \in failed, Queued(e)' => Queued(e),
           \A w \in Worker : w_pc'[w] # "pop" /\ w_ev'[w] = e => w_pc[w] = w_pc'[w] /\ w_ev[w] = e
    PROVE  EventHooks(e)'
<1>1. Announced(e)' = Announced(e)  BY DEF Announced
<1> QED  BY <1>1 DEF EventHooks

\* A step that has nothing to do with any event.
LEMMA HooksKept ==
    ASSUME HookInv, UNCHANGED <<told, s_pc, server, failed, errors, queue, w_pc, w_ev>>,
           running' = {} => running = {}
    PROVE  HookInv'
<1>1. \A e \in Event : (Queued(e)' <=> Queued(e)) /\ (Held(e)' <=> Held(e))
  BY DEF Queued, Held
<1>2. FailsOnce'  BY <1>1 DEF HookInv, FailsOnce
<1>3. ASSUME NEW e \in Event PROVE EventHooks(e)'  BY <1>1, EventKept DEF HookInv
<1> QED  BY <1>2, <1>3 DEF HookInv

\* What is known of the event in a worker's hands.
LEMMA InHands ==
    ASSUME IInv, Places, HookInv, NEW w \in Worker, w_pc[w] # "pop", NEW d, d = w_ev[w]
    PROVE  /\ d \in Event /\ d \notin failed /\ ~Queued(d) /\ s_pc[d] \notin {"new", "push"}
           /\ w_pc[w] \in {"decode", "parse", "execute", "distribute"}
           /\ \A v \in Worker \ {w} : w_pc[v] # "pop" => w_ev[v] # d
           /\ told \in [Event -> Seq(Hook)] /\ InOrder(told[d], FALSE)
           /\ server.hooks = "given" =>
                 /\ Cardinality(WorkedAt(told[d])) = Stage[w_pc[w]]
                 /\ told[d] # <<>>
           /\ server.hooks # "given" => told[d] = <<>>
<1>1. TypeOK /\ d \in Event  BY DEF IInv, WorkersOK, WorkerOK, Holding
<1>2. Held(d)  BY DEF Held
<1>3. d \notin failed /\ ~Queued(d) /\ s_pc[d] \notin {"new", "push"}
  BY <1>1, <1>2 DEF HookInv, FailsOnce, Places, QueuedOrHeld, NewNowhere
<1>4. EventHooks(d)  BY <1>1 DEF HookInv
<1>5. ASSUME server.hooks = "given" PROVE told[d] # <<>>
  <2>1. Len(told[d]) = Cardinality(WorkedAt(told[d])) + Announced(d)
    BY <1>4, <1>5 DEF EventHooks
  <2>2. Announced(d) \in {1, 2}  BY <1>3 DEF Announced
  <2>3. Cardinality(WorkedAt(told[d])) \in Nat  BY <1>1, WorkedFinite DEF TypeOK
  <2>4. Len(told[d]) # 0  BY <2>1, <2>2, <2>3
  <2> QED  BY <2>4
<1>6. InOrder(told[d], FALSE)
  <2>1. (d \in failed) = FALSE  BY <1>3
  <2> QED  BY <1>4, <2>1 DEF EventHooks
<1>7. server.hooks = "given" => Cardinality(WorkedAt(told[d])) = Stage[w_pc[w]]
  BY <1>4 DEF EventHooks
<1>8. server.hooks # "given" => told[d] = <<>>  BY <1>4 DEF EventHooks
<1>9. /\ \A v \in Worker \ {w} : w_pc[v] # "pop" => w_ev[v] # d
      /\ w_pc[w] \in {"decode", "parse", "execute", "distribute"}
  BY <1>1 DEF Places, HeldByOne, TypeOK
<1> QED  BY <1>1, <1>3, <1>5, <1>6, <1>7, <1>8, <1>9 DEF TypeOK

\* Where a worker that has called a hook of the way goes on.
Onward(w, l) == l = "pop" \/ (l \in {"parse", "execute", "distribute"} /\ Stage[l] = Stage[w_pc[w]] + 1)

\* A worker calls the next hook of the way, or reports an error and gives up.
LEMMA WorkerCalls ==
    ASSUME IInv, Places, HookInv, NEW w \in Worker, w_pc[w] # "pop", NEW d, d = w_ev[w],
           NEW l, w_pc' = [w_pc EXCEPT ![w] = l], NEW h, Tell(d, <<h>>),
           UNCHANGED <<queue, s_pc, w_ev, server, running>>,
           \/ /\ h = Way[Stage[w_pc[w]] + 1] /\ Onward(w, l)
              /\ UNCHANGED <<failed, errors>>
           \/ /\ h = "error" /\ l = "pop"
              /\ failed' = failed \cup {d} /\ errors' = errors + 1
    PROVE  HookInv'
<1>1. TypeOK /\ d \in Event /\ d \notin failed /\ ~Queued(d) /\ s_pc[d] \notin {"new", "push"}
  BY InHands DEF IInv
<1>2. w_pc'[w] = l /\ \A v \in Worker \ {w} : w_pc'[v] = w_pc[v]  BY <1>1 DEF TypeOK
<1>3. \A v \in Worker \ {w} : w_pc[v] # "pop" => w_ev[v] # d  BY InHands
<1>4. \A e \in Event \ {d} : told'[e] = told[e]  BY <1>1 DEF Tell, TypeOK
<1>5. \A e : Queued(e)' <=> Queued(e)  BY DEF Queued
<1>6. \A e \in Event : Held(e)' => Held(e)
  BY <1>2 DEF Held
<1>7. FailsOnce'
  <2>1. CASE UNCHANGED <<failed, errors>>
    BY <1>5, <1>6, <2>1 DEF HookInv, FailsOnce
  <2>2. CASE l = "pop" /\ failed' = failed \cup {d} /\ errors' = errors + 1
    <3>1. IsFiniteSet(failed') /\ Cardinality(failed') = Cardinality(failed) + 1
      BY <1>1, <2>2, FS_AddElement DEF HookInv, FailsOnce
    <3>2. ~Held(d)'  BY <1>2, <1>3, <2>2 DEF Held
    <3> QED  BY <1>1, <1>5, <1>6, <2>2, <3>1, <3>2 DEF HookInv, FailsOnce
  <2> QED  BY <2>1, <2>2
<1>8. ASSUME NEW e \in Event, e # d PROVE EventHooks(e)'
  <2>1. told'[e] = told[e] /\ (e \in failed' <=> e \in failed)  BY <1>4, <1>8
  <2>2. \A v \in Worker : w_pc'[v] # "pop" /\ w_ev'[v] = e => w_pc[v] = w_pc'[v] /\ w_ev[v] = e
    BY <1>2, <1>8
  <2> QED  BY <1>5, <2>1, <2>2, EventKept DEF HookInv
<1>9. EventHooks(d)'
  <2>1. s_pc'[d] \notin {"new", "push"} /\ ~Queued(d)'  BY <1>1, <1>5
  <2>2. \A v \in Worker : w_pc'[v] # "pop" /\ w_ev'[v] = d => v = w /\ l # "pop"
    BY <1>2, <1>3
  <2>3. CASE server.hooks = "given"
    <3> DEFINE n == Cardinality(WorkedAt(told[d]))
    <3>1. told'[d] = told[d] \o <<h>> /\ told[d] \in Seq(Hook) /\ told[d] # <<>>
      BY <1>1, <2>3, InHands DEF Tell, TypeOK
    <3>2. n = Stage[w_pc[w]] /\ InOrder(told[d], FALSE)
      BY <2>3, InHands
    <3>3. w_pc[w] \in {"decode", "parse", "execute", "distribute"}  BY InHands
    <3>4. n \in Nat /\ n < Len(Way)  BY <3>2, <3>3 DEF Stage, Way
    <3>5. h \in Hook \ {"event_received", "submit_result"} /\ InOrder(told'[d], d \in failed')
          /\ Cardinality(WorkedAt(told'[d])) = n + 1
      <4>1. CASE h = Way[n + 1] /\ failed' = failed
        <5>1. PICK s : s = told[d]  OBVIOUS
        <5>2. PICK t : t = told'[d]  OBVIOUS
        <5>3. PICK m : m = Cardinality(WorkedAt(s)) + 1  OBVIOUS
        <5>4. OneOnward(s, m, h, t)
          BY <3>1, <3>2, <3>4, <4>1, <5>1, <5>2, <5>3 DEF OneOnward
        <5>5. h \in WorkerHook /\ InOrder(t, FALSE) /\ Cardinality(WorkedAt(t)) = m
          BY <5>4, WayInOrder
        <5>6. (d \in failed') = FALSE  BY <1>1, <4>1
        <5>7. InOrder(told'[d], d \in failed')  BY <5>2, <5>5, <5>6
        <5>8. Cardinality(WorkedAt(told'[d])) = n + 1  BY <5>1, <5>2, <5>3, <5>5
        <5> QED  BY <5>5, <5>7, <5>8 DEF WorkerHook
      <4>2. CASE h = "error" /\ failed' = failed \cup {d}
        <5>1. InOrder(told'[d], TRUE) /\ Cardinality(WorkedAt(told'[d])) = n + 1
          BY <3>1, <3>2, <3>4, <4>2, ErrorInOrder
        <5>2. (d \in failed') = TRUE  BY <4>2
        <5> QED  BY <4>2, <5>1, <5>2 DEF Hook
      <4> QED  BY <3>2, <4>1, <4>2
    <3>6. Len(told'[d]) = Len(told[d]) + 1 /\ Head(told'[d]) = Head(told[d])
          /\ Len(told[d]) \in Nat
      BY <3>1, <3>5, HookAppended
    <3>7. Len(told[d]) = n + Announced(d) /\ Head(told[d]) = "event_received"
      BY <1>1, <2>3, <3>1 DEF HookInv, EventHooks
    <3>8. Announced(d)' = Announced(d) /\ Announced(d) \in Nat  BY DEF Announced
    <3>9. Len(told'[d]) = Cardinality(WorkedAt(told'[d])) + Announced(d)'
      BY <3>4, <3>5, <3>6, <3>7, <3>8
    <3>10. ASSUME l # "pop" PROVE Stage[l] = n + 1
      BY <3>2, <3>10 DEF Onward
    <3>11. \A v \in Worker : w_pc'[v] # "pop" /\ w_ev'[v] = d =>
              Cardinality(WorkedAt(told'[d])) = Stage[w_pc'[v]]
      BY <1>2, <2>2, <3>5, <3>10
    <3> HIDE DEF n
    <3> QED  BY <2>1, <2>3, <3>5, <3>6, <3>7, <3>9, <3>11 DEF EventHooks
  <2>4. CASE server.hooks # "given"
    <3>1. told'[d] = <<>>
      <4>1. told[d] = <<>> /\ told'[d] = told[d] \o <<>>
        BY <1>1, <2>4, InHands DEF Tell, TypeOK
      <4>2. <<>> \o <<>> = <<>>  OBVIOUS
      <4> QED  BY <4>1, <4>2
    <3>2. WorkedAt(told'[d]) = {} /\ InOrder(told'[d], d \in failed')  BY <3>1, NoHooks
    <3> QED  BY <2>4, <3>1, <3>2 DEF EventHooks
  <2> QED  BY <2>3, <2>4
<1> QED  BY <1>1, <1>7, <1>8, <1>9 DEF HookInv

\* Before the start nobody has an event, and of none was a hook called.
LEMMA BuildHooks == ASSUME IInv, Places, HookInv, BuildStep PROVE HookInv'
<1>1. /\ running = {} /\ running' = running
      /\ UNCHANGED <<queue, s_pc, told, w_pc, w_ev, errors, failed>>
  BY DEF BuildStep, workVars
<1>2. \A e \in Event : (Queued(e)' <=> Queued(e)) /\ (Held(e)' <=> Held(e))
  BY <1>1 DEF Queued, Held
<1>3. FailsOnce'  BY <1>1, <1>2 DEF HookInv, FailsOnce
<1>4. ASSUME NEW e \in Event PROVE EventHooks(e)'
  <2>1. s_pc'[e] = "new" /\ told'[e] = <<>>  BY <1>1 DEF HookInv, EventHooks
  <2>2. ~Held(e)'  BY <1>1, <1>2, <2>1 DEF Places, NewNowhere
  <2>3. WorkedAt(told'[e]) = {} /\ InOrder(told'[e], e \in failed')  BY <2>1, NoHooks
  <2>4. Cardinality(WorkedAt(told'[e])) = 0  BY <2>1, NoHooks
  <2>5. Len(told'[e]) = 0 /\ Announced(e)' = 0  BY <2>1 DEF Announced
  <2>6. Len(told'[e]) = Cardinality(WorkedAt(told'[e])) + Announced(e)'  BY <2>4, <2>5
  <2> QED  BY <2>1, <2>2, <2>3, <2>6 DEF EventHooks, Held
<1> QED  BY <1>1, <1>3, <1>4 DEF HookInv

\* trySubmit calls its hooks first of all.
LEMMA SubmitHooks == ASSUME IInv, Places, HookInv, NEW e \in Event, Submit(e) PROVE HookInv'
<1>1. /\ running # {} /\ s_pc[e] = "new"
      /\ UNCHANGED <<server, running, queue, w_pc, w_ev, errors, failed>>
  BY DEF Submit, builderVars, workVars
<1>2. /\ s_pc'[e] \in {"push", "done"}
      /\ \A d \in Event \ {e} : s_pc'[d] = s_pc[d] /\ told'[d] = told[d]
  BY DEF Submit, Tell, IInv, TypeOK
<1>3. \A d \in Event : (Queued(d)' <=> Queued(d)) /\ (Held(d)' <=> Held(d))
  BY <1>1 DEF Queued, Held
<1>4. FailsOnce'  BY <1>1, <1>3 DEF HookInv, FailsOnce
<1>5. ASSUME NEW d \in Event, d # e PROVE EventHooks(d)'
  BY <1>1, <1>2, <1>3, <1>5, EventKept DEF HookInv
<1>6. EventHooks(e)'
  <2>1. told[e] = <<>> /\ ~Queued(e)' /\ ~Held(e)'
    BY <1>1, <1>3 DEF HookInv, EventHooks, Places, NewNowhere
  <2>2. PICK t : t = told'[e]  OBVIOUS
  <2>3. CASE server.hooks = "given"
    <3>1. \/ t = <<"event_received">> /\ s_pc'[e] = "push"
          \/ t = <<"event_received", "submit_result">> /\ s_pc'[e] = "done"
      <4>1. \/ t = <<>> \o <<"event_received">> /\ s_pc'[e] = "push"
            \/ t = <<>> \o <<"event_received", "submit_result">> /\ s_pc'[e] = "done"
        BY <2>1, <2>2, <2>3 DEF Submit, Tell, IInv, TypeOK
      <4> QED  BY <4>1
    <3>2. Head(t) = "event_received" /\ Len(t) = Announced(e)' /\ Announced(e)' \in Nat
      BY <3>1 DEF Announced
    <3>3. WorkedAt(t) = {}
      <4>1. \A j \in DOMAIN t : t[j] \in {"event_received", "submit_result"}  BY <3>1
      <4> QED  BY <4>1 DEF WorkedAt, WorkerHook
    <3>4. Cardinality(WorkedAt(t)) = 0 /\ InOrder(t, e \in failed')
      BY <3>3, NoneInOrder
    <3>5. Len(t) = Cardinality(WorkedAt(t)) + Announced(e)'  BY <3>2, <3>4
    <3> QED
      BY <1>1, <1>2, <2>1, <2>2, <2>3, <3>2, <3>3, <3>4, <3>5 DEF EventHooks, Held
  <2>4. CASE server.hooks # "given"
    <3>1. t = <<>>
      <4>1. t = <<>> \o <<>>
        BY <2>1, <2>2, <2>4 DEF Submit, Tell, IInv, TypeOK
      <4> QED  BY <4>1
    <3>2. WorkedAt(t) = {} /\ InOrder(t, e \in failed')  BY <3>1, NoHooks
    <3> QED  BY <1>1, <2>1, <2>2, <2>4, <3>1, <3>2 DEF EventHooks
  <2> QED  BY <2>3, <2>4
<1> QED  BY <1>1, <1>4, <1>5, <1>6 DEF HookInv

\* An event is queued before any hook of its way is called.
LEMMA PushHooks == ASSUME IInv, Places, HookInv, NEW e \in Event, SubmitPush(e) PROVE HookInv'
<1>1. /\ s_pc[e] = "push" /\ s_pc' = [s_pc EXCEPT ![e] = "result"]
      /\ UNCHANGED <<server, running, told, w_pc, w_ev, errors, failed>>
  BY DEF SubmitPush, builderVars, workVars
<1>2. s_pc'[e] = "result" /\ \A d \in Event \ {e} : s_pc'[d] = s_pc[d]
  BY <1>1 DEF IInv, TypeOK
<1>3. \A d \in Event : (Queued(d)' => Queued(d) \/ d = e) /\ (Held(d)' <=> Held(d))
  <2>1. /\ Len(queue) \in Nat /\ DOMAIN queue = 1..Len(queue)
        /\ DOMAIN queue' = 1..Len(queue) + 1
        /\ queue'[Len(queue) + 1] = e
        /\ \A i \in DOMAIN queue : queue'[i] = queue[i]
    BY DEF SubmitPush, IInv, TypeOK
  <2>2. \A i \in DOMAIN queue' : i \in DOMAIN queue \/ i = Len(queue) + 1  BY <2>1
  <2> QED  BY <1>1, <2>1, <2>2 DEF Queued, Held
<1>4. e \notin failed /\ ~Held(e)  BY <1>1 DEF Places, NewNowhere
<1>5. FailsOnce'  BY <1>1, <1>3, <1>4 DEF HookInv, FailsOnce
<1>6. ASSUME NEW d \in Event, d # e PROVE EventHooks(d)'
  BY <1>1, <1>2, <1>3, <1>6, EventKept DEF HookInv
<1>7. EventHooks(e)'
  <2>1. Announced(e)' = Announced(e)  BY <1>1, <1>2 DEF Announced
  <2>2. EventHooks(e)  BY DEF HookInv
  <2>3. \A w \in Worker : ~(w_pc'[w] # "pop" /\ w_ev'[w] = e)  BY <1>3, <1>4 DEF Held
  <2> QED  BY <1>1, <1>2, <2>1, <2>2, <2>3 DEF EventHooks
<1>8. running # {}  BY <1>1 DEF HookInv
<1> QED  BY <1>1, <1>5, <1>6, <1>7, <1>8 DEF HookInv

\* The outcome is told whatever has become of the event.
LEMMA ResultHooks == ASSUME IInv, Places, HookInv, NEW e \in Event, SubmitResult(e) PROVE HookInv'
<1>1. /\ s_pc[e] = "result" /\ s_pc' = [s_pc EXCEPT ![e] = "done"]
      /\ UNCHANGED <<server, running, queue, w_pc, w_ev, errors, failed>>
      /\ Tell(e, <<"submit_result">>)
  BY DEF SubmitResult, builderVars, workVars
<1>2. /\ s_pc'[e] = "done"
      /\ \A d \in Event \ {e} : s_pc'[d] = s_pc[d] /\ told'[d] = told[d]
  BY <1>1 DEF Tell, IInv, TypeOK
<1>3. \A d \in Event : (Queued(d)' <=> Queued(d)) /\ (Held(d)' <=> Held(d))
  BY <1>1 DEF Queued, Held
<1>4. FailsOnce'  BY <1>1, <1>3 DEF HookInv, FailsOnce
<1>5. ASSUME NEW d \in Event, d # e PROVE EventHooks(d)'
  BY <1>1, <1>2, <1>3, <1>5, EventKept DEF HookInv
<1>6. EventHooks(e)'
  <2>1. EventHooks(e) /\ told[e] \in Seq(Hook)  BY DEF HookInv, IInv, TypeOK
  <2>2. PICK s : s = told[e]  OBVIOUS
  <2>3. PICK t : t = told'[e]  OBVIOUS
  <2>4. PICK b : b = (e \in failed)  OBVIOUS
  <2>5. s \in Seq(Hook) /\ InOrder(s, b)  BY <2>1, <2>2, <2>4 DEF EventHooks
  <2>6. Announced(e) = 1 /\ Announced(e)' = 2  BY <1>1, <1>2 DEF Announced
  <2>7. CASE server.hooks = "given"
    <3>1. t = s \o <<"submit_result">>
      BY <1>1, <2>2, <2>3, <2>7 DEF Tell, IInv, TypeOK
    <3>2. "submit_result" \in Hook \ WorkerHook  BY DEF Hook, WorkerHook
    <3>3. InOrder(t, b) /\ WorkedAt(t) = WorkedAt(s)  BY <2>5, <3>1, <3>2, OutcomeInOrder
    <3>4. Len(t) = Len(s) + 1 /\ (s # <<>> => Head(t) = Head(s))
      BY <2>5, <3>1, <3>2, HookAppended
    <3>5. Cardinality(WorkedAt(s)) \in Nat  BY <2>5, WorkedFinite
    <3>6. Len(s) = Cardinality(WorkedAt(s)) + 1  BY <2>1, <2>2, <2>6, <2>7 DEF EventHooks
    <3>7. s # <<>>  BY <3>5, <3>6
    <3>8. Head(t) = "event_received"  BY <2>1, <2>2, <3>4, <3>7 DEF EventHooks
    <3>9. Len(t) = Cardinality(WorkedAt(t)) + Announced(e)'  BY <2>6, <3>3, <3>4, <3>5, <3>6
    <3>10. InOrder(told'[e], e \in failed')  BY <1>1, <2>3, <2>4, <3>3
    <3> QED
      BY <1>1, <1>2, <1>3, <2>1, <2>2, <2>3, <2>7, <3>3, <3>8, <3>9, <3>10 DEF EventHooks
  <2>8. CASE server.hooks # "given"
    <3>1. t = <<>>
      <4>1. t = <<>> \o <<>>
        BY <1>1, <2>1, <2>3, <2>8 DEF Tell, EventHooks, IInv, TypeOK
      <4> QED  BY <4>1
    <3>2. WorkedAt(t) = {} /\ InOrder(t, e \in failed')  BY <3>1, NoHooks
    <3> QED  BY <1>1, <2>3, <2>8, <3>1, <3>2 DEF EventHooks
  <2> QED  BY <2>7, <2>8
<1>7. running # {}  BY <1>1 DEF HookInv
<1> QED  BY <1>1, <1>4, <1>5, <1>6, <1>7 DEF HookInv

\* A worker takes an event for which no hook of its way was called.
LEMMA PopHooks == ASSUME IInv, Places, HookInv, NEW w \in Worker, Pop(w) PROVE HookInv'
<1>0. PICK d \in Event : d = Head(queue)  BY DEF Pop, IInv, TypeOK
<1>1. /\ w_pc'[w] = "decode" /\ w_ev'[w] = d
      /\ \A v \in Worker \ {w} : w_pc'[v] = w_pc[v] /\ w_ev'[v] = w_ev[v]
      /\ UNCHANGED <<server, running, told, s_pc, errors, failed>>
  BY <1>0 DEF Pop, WorkerGoes, workConst, builderVars, IInv, TypeOK
<1>2. Queued(d) /\ \A e \in Event : Queued(e)' => Queued(e)
  <2>1. /\ 1 \in DOMAIN queue /\ d = queue[1]
        /\ \A i \in DOMAIN queue' : i + 1 \in DOMAIN queue /\ queue'[i] = queue[i + 1]
    BY <1>0 DEF Pop, WorkerAt, IInv, TypeOK
  <2> QED  BY <2>1 DEF Queued
<1>3. ~Held(d) /\ \A e \in Event : Held(e)' => Held(e) \/ e = d
  BY <1>1, <1>2 DEF Held, Places, QueuedOrHeld
<1>4. FailsOnce'  BY <1>1, <1>2, <1>3 DEF HookInv, FailsOnce
<1>5. ASSUME NEW e \in Event, e # d PROVE EventHooks(e)'
  <2>1. \A v \in Worker : w_pc'[v] # "pop" /\ w_ev'[v] = e => w_pc[v] = w_pc'[v] /\ w_ev[v] = e
    BY <1>1, <1>5
  <2> QED  BY <1>1, <1>2, <2>1, EventKept DEF HookInv
<1>6. EventHooks(d)'
  <2>1. EventHooks(d) /\ WorkedAt(told[d]) = {}  BY <1>2 DEF HookInv, EventHooks
  <2>2. Announced(d)' = Announced(d)  BY <1>1 DEF Announced
  <2>3. Cardinality(WorkedAt(told[d])) = 0  BY <2>1, NoneInOrder
  <2>4. \A v \in Worker : w_pc'[v] # "pop" /\ w_ev'[v] = d => w_pc'[v] = "decode"
    BY <1>1, <1>3 DEF Held
  <2>5. Stage["decode"] = 0  BY DEF Stage
  <2>6. \A v \in Worker : w_pc'[v] # "pop" /\ w_ev'[v] = d =>
            Cardinality(WorkedAt(told'[d])) = Stage[w_pc'[v]]
    BY <1>1, <2>3, <2>4, <2>5
  <2> QED  BY <1>1, <2>1, <2>2, <2>6 DEF EventHooks
<1> QED  BY <1>1, <1>4, <1>5, <1>6 DEF HookInv

\* A worker that goes on calls the hook of what it has done, and one that fails calls
\* that of the error.
LEMMA WorkHooks ==
    ASSUME IInv, Places, HookInv, NEW w \in Worker, WorkerStep(w), ~Pop(w)
    PROVE  HookInv'
<1>1. /\ w_pc[w] # "pop" /\ UNCHANGED <<queue, s_pc, w_ev, server, running>>
      /\ w_pc[w] \in {"decode", "parse", "execute", "distribute"}
  BY DEF WorkerStep, Decode, DecodeNone, Parse, Execute, Distribute, WorkerAt, workConst,
         builderVars
<1>2. PICK d : d = w_ev[w]  OBVIOUS
<1>3. ASSUME Fail(w) PROVE HookInv'
  <2>1. /\ w_pc' = [w_pc EXCEPT ![w] = "pop"] /\ Tell(d, <<"error">>)
        /\ failed' = failed \cup {d} /\ errors' = errors + 1
    BY <1>2, <1>3 DEF Fail, WorkerGoes
  <2> QED  BY <1>1, <1>2, <2>1, WorkerCalls
<1>4. CASE Decode(w)
  <2>1. CASE WorkerGoes(w, "parse") /\ Tell(w_ev[w], <<"raw_input">>)
    <3>1. /\ w_pc' = [w_pc EXCEPT ![w] = "parse"] /\ Tell(d, <<"raw_input">>)
          /\ UNCHANGED <<failed, errors>>
      BY <1>2, <1>4, <2>1 DEF Decode, WorkerGoes
    <3>2. "raw_input" = Way[Stage[w_pc[w]] + 1] /\ Onward(w, "parse")
      BY <1>4 DEF Decode, WorkerAt, Stage, Way, Onward
    <3> QED  BY <1>1, <1>2, <3>1, <3>2, WorkerCalls
  <2>2. CASE UNCHANGED <<w_pc, told>>  BY <1>1, <1>4, <2>2, HooksKept DEF Decode
  <2> QED  BY <1>4, <2>1, <2>2 DEF Decode
<1>5. CASE DecodeNone(w)  BY <1>3, <1>5 DEF DecodeNone
<1>6. CASE Parse(w)
  <2>1. CASE ~Fail(w)
    <3>1. /\ w_pc' = [w_pc EXCEPT ![w] = "execute"] /\ Tell(d, <<"command_built">>)
          /\ UNCHANGED <<failed, errors>>
      BY <1>2, <1>6, <2>1 DEF Parse, WorkerGoes
    <3>2. "command_built" = Way[Stage[w_pc[w]] + 1] /\ Onward(w, "execute")
      BY <1>6 DEF Parse, WorkerAt, Stage, Way, Onward
    <3> QED  BY <1>1, <1>2, <3>1, <3>2, WorkerCalls
  <2> QED  BY <1>3, <2>1
<1>7. CASE Execute(w)
  <2>1. CASE ~Fail(w)
    <3>1. /\ w_pc' = [w_pc EXCEPT ![w] = "distribute"] /\ Tell(d, <<"result_ready">>)
          /\ UNCHANGED <<failed, errors>>
      BY <1>2, <1>7, <2>1 DEF Execute, WorkerGoes
    <3>2. "result_ready" = Way[Stage[w_pc[w]] + 1] /\ Onward(w, "distribute")
      BY <1>7 DEF Execute, WorkerAt, Stage, Way, Onward
    <3> QED  BY <1>1, <1>2, <3>1, <3>2, WorkerCalls
  <2> QED  BY <1>3, <2>1
<1>8. CASE Distribute(w)
  <2>1. /\ w_pc' = [w_pc EXCEPT ![w] = "pop"] /\ Tell(d, <<"distributed">>)
        /\ UNCHANGED <<failed, errors>>
    BY <1>2, <1>8 DEF Distribute, WorkerGoes
  <2>2. "distributed" = Way[Stage[w_pc[w]] + 1] /\ Onward(w, "pop")
    BY <1>8 DEF Distribute, WorkerAt, Stage, Way, Onward
  <2> QED  BY <1>1, <1>2, <2>1, <2>2, WorkerCalls
<1> QED  BY <1>4, <1>5, <1>6, <1>7, <1>8 DEF WorkerStep

\* Every step of the program keeps what the hooks say.
LEMMA StepHooks == IInv /\ Places /\ HookInv /\ [Next]_vars => HookInv'
<1> SUFFICES ASSUME IInv, Places, HookInv, [Next]_vars PROVE HookInv'  OBVIOUS
<1>1. CASE BuildStep  BY <1>1, BuildHooks
<1>2. CASE Start
  <2>1. UNCHANGED <<told, s_pc, server, failed, errors, queue, w_pc, w_ev>> /\ running = {}
    BY <1>2 DEF Start, BuilderGone
  <2> QED  BY <2>1, HooksKept
<1>3. ASSUME NEW e \in Event, Submit(e) \/ SubmitPush(e) \/ SubmitResult(e) PROVE HookInv'
  BY <1>3, SubmitHooks, PushHooks, ResultHooks
<1>4. ASSUME NEW w \in Worker, WorkerStep(w) PROVE HookInv'  BY <1>4, PopHooks, WorkHooks
<1>5. CASE UNCHANGED vars  BY <1>5, HooksKept DEF vars, workVars, builderVars
<1> QED  BY <1>1, <1>2, <1>3, <1>4, <1>5 DEF Next

\* What is known of each event is what was to be said of its hooks.
LEMMA HooksInvOrder == IInv /\ HookInv => HooksInOrder
<1> SUFFICES ASSUME IInv, HookInv PROVE HooksInOrder  OBVIOUS
<1>1. errors = Cardinality(failed)  BY DEF HookInv, FailsOnce
<1>2. ASSUME NEW e \in Event
      PROVE  /\ told[e] # <<>> => Head(told[e]) = "event_received"
             /\ Len(told[e]) - Cardinality(WorkedAt(told[e])) <= 2
             /\ InOrder(told[e], e \in failed)
  <2>1. EventHooks(e)  BY DEF HookInv
  <2>2. PICK s \in Seq(Hook) : s = told[e]  BY DEF IInv, TypeOK
  <2>3. PICK n \in Nat : n = Cardinality(WorkedAt(s))  BY WorkedFinite
  <2>4. Len(s) - n <= 2
    <3>1. CASE server.hooks = "given"
      <4>1. Len(s) = n + Announced(e)  BY <2>1, <2>2, <2>3, <3>1 DEF EventHooks
      <4>2. Announced(e) \in {0, 1, 2}  BY DEF Announced
      <4> QED  BY <4>1, <4>2
    <3>2. CASE server.hooks # "given"
      <4>1. Len(s) = 0  BY <2>1, <2>2, <3>2 DEF EventHooks
      <4> QED  BY <4>1
    <3> QED  BY <3>1, <3>2
  <2> QED  BY <2>1, <2>2, <2>3, <2>4 DEF EventHooks
<1> QED  BY <1>1, <1>2 DEF HooksInOrder

\* However callers and workers interleave, the hooks of an event (server.h, trySubmit and
\* processEvent) begin with its announcement, tell the outcome at most once, and follow
\* its way as far as it went, ended by an error exactly if it failed; and the metrics
\* count the events that failed, each one once.
THEOREM HooksCorrect == Spec => []HooksInOrder
<1> DEFINE J == Places /\ HookInv
<1>1. Init => J  BY InitPlaces, HookInit
<1>2. IInv /\ J /\ [Next]_vars => J'  BY StepPlaces, StepHooks
<1>3. IInv /\ J => HooksInOrder  BY HooksInvOrder
<1> HIDE DEF J
<1> QED  BY <1>1, <1>2, <1>3, InvHolds, PTL DEF Spec
=============================================================================
