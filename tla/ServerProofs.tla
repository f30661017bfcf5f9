----------------------------- MODULE ServerProofs -----------------------------
(***************************************************************************)
(* Proofs about the runtime under any number of submitters, workers,       *)
(* stoppers and events, any capacity and any order of start(), shutdown()  *)
(* and wait().  Base says what the types need, Track what the count is,    *)
(* Over why it does not wrap above, Life what holds on a server that is    *)
(* shut down in order; Counted sums up a step for the invariants that are  *)
(* about numbers.                                                          *)
(***************************************************************************)
EXTENDS Server, FiniteSetTheorems, TLAPS

USE ServerAssumption DEF ServerAssumption

-----------------------------------------------------------------------------
(* Arithmetic of the counter *)

\* The range of the count is not empty.
LEMMA WrapPositive == Wrap \in Nat \ {0} /\ Cardinality(Event) \in Nat
<1>1. Cardinality(Event) \in Nat  BY FS_CardinalityType
<1> QED  BY <1>1

\* The range of a remainder.
LEMMA ModRange == \A x \in Int : x % Wrap \in 0..Wrap - 1
<1>1. \A W \in Nat \ {0}, x \in Int : x % W \in 0..W - 1  OBVIOUS
<1> QED  BY <1>1, WrapPositive

\* A counter that is taken modulo Wrap after every step is the sum modulo Wrap.
LEMMA QuotientUnique ==
    ASSUME NEW W \in Nat \ {0}, NEW q \in Int, NEW r \in Int, 0 <= r, r < W
    PROVE  (W * q + r) % W = r
OBVIOUS

\* Every number is a quotient and a remainder.
LEMMA QuotientExists ==
    ASSUME NEW W \in Nat \ {0}, NEW x \in Int
    PROVE  x = W * (x \div W) + (x % W) /\ x \div W \in Int
BY Z3

\* Adding one modulo Wrap each time is adding modulo Wrap once: fetch_add (server.h:197).
LEMMA ModUp == \A x \in Int : ((x % Wrap) + 1) % Wrap = (x + 1) % Wrap
<1> SUFFICES ASSUME NEW x \in Int PROVE ((x % Wrap) + 1) % Wrap = (x + 1) % Wrap  OBVIOUS
<1> DEFINE W == Wrap
           q == x \div W
           r == x % W
<1>1. W \in Nat \ {0} /\ r \in 0..W - 1 /\ r \in Int  BY WrapPositive, ModRange
<1>2. x = W * q + r /\ q \in Int  BY <1>1, QuotientExists
<1> HIDE DEF q, r, W
<1>3. CASE r + 1 < W
  <2>1. (W * q + (r + 1)) % W = r + 1  BY <1>1, <1>2, <1>3, QuotientUnique
  <2>2. (W * 0 + (r + 1)) % W = r + 1  BY <1>1, <1>3, QuotientUnique
  <2>3. x + 1 = W * q + (r + 1) /\ W * 0 + (r + 1) = r + 1  BY <1>1, <1>2
  <2> QED  BY <2>1, <2>2, <2>3 DEF r, W
<1>4. CASE r + 1 = W
  <2>1. (W * (q + 1) + 0) % W = 0  BY <1>1, <1>2, QuotientUnique
  <2>2. (W * 1 + 0) % W = 0  BY <1>1, QuotientUnique
  <2>3. x + 1 = W * (q + 1) + 0 /\ W * 1 + 0 = r + 1  BY <1>1, <1>2, <1>4
  <2> QED  BY <2>1, <2>2, <2>3 DEF r, W
<1> QED  BY <1>1, <1>3, <1>4

\* And so for fetch_sub (server.h:261).
LEMMA ModDown == \A x \in Int : ((x % Wrap) - 1) % Wrap = (x - 1) % Wrap
<1> SUFFICES ASSUME NEW x \in Int PROVE ((x % Wrap) - 1) % Wrap = (x - 1) % Wrap  OBVIOUS
<1> DEFINE W == Wrap
           q == x \div W
           r == x % W
<1>1. W \in Nat \ {0} /\ r \in 0..W - 1 /\ r \in Int  BY WrapPositive, ModRange
<1>2. x = W * q + r /\ q \in Int  BY <1>1, QuotientExists
<1> HIDE DEF q, r, W
<1>3. CASE r > 0
  <2>1. (W * q + (r - 1)) % W = r - 1  BY <1>1, <1>2, <1>3, QuotientUnique
  <2>2. (W * 0 + (r - 1)) % W = r - 1  BY <1>1, <1>3, QuotientUnique
  <2>3. x - 1 = W * q + (r - 1) /\ W * 0 + (r - 1) = r - 1  BY <1>1, <1>2
  <2> QED  BY <2>1, <2>2, <2>3 DEF r, W
<1>4. CASE r = 0
  <2>1. (W * (q - 1) + (W - 1)) % W = W - 1  BY <1>1, <1>2, QuotientUnique
  <2>2. (W * (-1) + (W - 1)) % W = W - 1  BY <1>1, QuotientUnique
  <2>3. x - 1 = W * (q - 1) + (W - 1) /\ W * (-1) + (W - 1) = r - 1  BY <1>1, <1>2, <1>4
  <2> QED  BY <2>1, <2>2, <2>3 DEF r, W
<1> QED  BY <1>1, <1>3, <1>4

\* What is in the range is its own remainder.
LEMMA ModSmall == \A x \in Int : 0 <= x /\ x < Wrap => x % Wrap = x
<1> SUFFICES ASSUME NEW x \in Int, 0 <= x, x < Wrap PROVE x % Wrap = x  OBVIOUS
<1>1. (Wrap * 0 + x) % Wrap = x  BY WrapPositive, QuotientUnique
<1> QED  BY <1>1, WrapPositive

\* A remainder is no less than a number below the range.
LEMMA ModLeast == \A x \in Int : x < Wrap => x <= x % Wrap
<1> SUFFICES ASSUME NEW x \in Int, x < Wrap PROVE x <= x % Wrap  OBVIOUS
<1>1. CASE 0 <= x  BY <1>1, ModSmall
<1>2. CASE x < 0  BY <1>2, ModRange, WrapPositive
<1> QED  BY <1>1, <1>2

-----------------------------------------------------------------------------
(* What each step leaves alone *)

Starting == l_pc[Owner] \in {"clear", "count", "spawn"}

\* A worker that was joined, or never started, is at its end, and the owner starts
\* workers only when there are none.
Joined ==
    /\ \A w \in Worker : w \notin workers_ => w_pc[w] = "exited"
    /\ (state_ \in {"created", "stopped"} \/ Starting \/ l_pc[Owner] = "store") => workers_ = {}
    /\ Starting => state_ \in {"running", "stopping"}

Carries == \A s \in Submitter : Submitting(s) => s_ev[s] \in Event

Counters == {"accepted", "full", "stopped", "error", "inflight"}

\* Everything that a type needs to survive a step.
Base == TypeOK /\ Joined /\ Carries /\ metrics_.inflight = Cardinality(Working)

AtPush   == {s \in Submitter : s_pc[s] = "push"}
Deciding == {s \in Submitter : s_pc[s] \in {"depth", "push", "add"}}

\* The sets of those on their way are finite.
LEMMA SetsAreFinite ==
    /\ IsFiniteSet(Pushed) /\ IsFiniteSet(AtPush) /\ IsFiniteSet(Deciding)
    /\ IsFiniteSet(Popped) /\ IsFiniteSet(Working)
    /\ Cardinality(Pushed) \in Nat /\ Cardinality(AtPush) \in Nat
    /\ Cardinality(Deciding) \in Nat
    /\ Cardinality(Popped) \in Nat /\ Cardinality(Working) \in Nat
<1>1. /\ IsFiniteSet(Pushed) /\ IsFiniteSet(AtPush) /\ IsFiniteSet(Deciding)
      /\ IsFiniteSet(Popped) /\ IsFiniteSet(Working)
  BY FS_Subset DEF Pushed, AtPush, Deciding, Popped, Working
<1> QED  BY <1>1, FS_CardinalityType

\* The exact count is a number.
LEMMA BalanceType == TypeOK => Balance \in Int
<1> SUFFICES ASSUME TypeOK PROVE Balance \in Int  OBVIOUS
<1>1. Len(queue_) \in Nat  BY DEF TypeOK
<1> QED  BY <1>1, SetsAreFinite DEF Balance

\* A set that a step of one member enters or leaves.
LEMMA Entered ==
    ASSUME NEW S, IsFiniteSet(S), NEW x
    PROVE  /\ x \notin S => Cardinality(S \cup {x}) = Cardinality(S) + 1
           /\ x \in S => Cardinality(S \ {x}) = Cardinality(S) - 1 /\ Cardinality(S) >= 1
<1>1. x \notin S => Cardinality(S \cup {x}) = Cardinality(S) + 1  BY FS_AddElement
<1>2. x \in S => Cardinality(S \ {x}) = Cardinality(S) - 1  BY FS_RemoveElement
<1>3. IsFiniteSet(S \ {x})  BY FS_RemoveElement
<1>4. Cardinality(S) \in Nat /\ Cardinality(S \ {x}) \in Nat  BY <1>3, FS_CardinalityType
<1> QED  BY <1>1, <1>2, <1>4

\* A step of a submitter before its notification.
LEMMA SubmitMoves ==
    ASSUME TypeOK, NEW s \in Submitter, NEW to \in {"idle", "depth", "push", "add", "notify"},
           s_pc' = [s_pc EXCEPT ![s] = to]
    PROVE  /\ \A x \in Submitter : s_pc'[x] = IF x = s THEN to ELSE s_pc[x]
           /\ Pushed' = (Pushed \ {s}) \cup (IF to = "add" THEN {s} ELSE {})
           /\ AtPush' = (AtPush \ {s}) \cup (IF to = "push" THEN {s} ELSE {})
           /\ Deciding' = (Deciding \ {s}) \cup
                          (IF to \in {"depth", "push", "add"} THEN {s} ELSE {})
<1>1. \A x \in Submitter : s_pc'[x] = IF x = s THEN to ELSE s_pc[x]
  BY DEF TypeOK
<1>2. Pushed' = (Pushed \ {s}) \cup (IF to = "add" THEN {s} ELSE {})
  BY <1>1 DEF Pushed
<1>3. AtPush' = (AtPush \ {s}) \cup (IF to = "push" THEN {s} ELSE {})
  BY <1>1 DEF AtPush
<1>4. Deciding' = (Deciding \ {s}) \cup (IF to \in {"depth", "push", "add"} THEN {s} ELSE {})
  BY <1>1 DEF Deciding
<1> QED  BY <1>1, <1>2, <1>3, <1>4

WorkerPlaces == {"pop", "sub", "process", "stop?", "mode?", "depth?", "lock",
                 "queued?", "stopping?", "block", "wait", "exited"}

\* A step of a worker.
LEMMA WorkerMoves ==
    ASSUME TypeOK, NEW w \in Worker, NEW to \in WorkerPlaces,
           w_pc' = [w_pc EXCEPT ![w] = to]
    PROVE  /\ \A x \in Worker : w_pc'[x] = IF x = w THEN to ELSE w_pc[x]
           /\ Popped' = (Popped \ {w}) \cup (IF to = "sub" THEN {w} ELSE {})
           /\ Working' = (Working \ {w}) \cup (IF to = "process" THEN {w} ELSE {})
<1>1. \A x \in Worker : w_pc'[x] = IF x = w THEN to ELSE w_pc[x]
  BY DEF TypeOK
<1>2. Popped' = (Popped \ {w}) \cup (IF to = "sub" THEN {w} ELSE {})
  BY <1>1 DEF Popped
<1>3. Working' = (Working \ {w}) \cup (IF to = "process" THEN {w} ELSE {})
  BY <1>1 DEF Working
<1> QED  BY <1>1, <1>2, <1>3

\* A step of a worker that only looks, or takes or leaves the mutex.
WorkerLooks(w) ==
    \/ WorkerIdle(w) \/ WorkerAskStop(w) \/ WorkerAskMode(w) \/ WorkerAskDepth(w)
    \/ WorkerLock(w) \/ WorkerQueued(w) \/ WorkerStopping(w) \/ WorkerBlock(w) \/ Spurious(w)

looked == <<lifeVars, queuedApprox_, queue_, metrics_, subVars, w_ev, workers_,
            callVars, histVars>>

\* Where such a step leads, and what it has seen.
Look(w, to) ==
    /\ w_pc' = [w_pc EXCEPT ![w] = to]
    /\ w_pc[w] \notin {"sub", "process", "exited"} /\ to \notin {"sub", "process"}
    /\ to = "mode?" => stopRequested_
    /\ to = "depth?" => w_pc[w] = "mode?"
    /\ to = "exited" => \/ w_pc[w] = "mode?" /\ shutdownMode_ = "force"
                        \/ w_pc[w] = "depth?" /\ queuedApprox_ = 0

\* Each look of workerLoop leads somewhere, and changes only the mutex (server.h:244-253).
LEMMA Looks ==
    ASSUME TypeOK, NEW w \in Worker, WorkerLooks(w)
    PROVE  /\ UNCHANGED looked
           /\ wakeMutex_' \in Worker \cup {NoWorker}
           /\ \E to \in WorkerPlaces : Look(w, to)
<1> USE DEF WorkerGoes, looked, TypeOK, Look, WorkerPlaces
<1>1. CASE WorkerIdle(w)
  <2>1. Look(w, "stop?")  BY <1>1 DEF WorkerIdle
  <2> QED  BY <1>1, <2>1 DEF WorkerIdle
<1>2. CASE WorkerAskStop(w)
  <2>1. Look(w, IF stopRequested_ THEN "mode?" ELSE "lock")  BY <1>2 DEF WorkerAskStop
  <2> QED  BY <1>2, <2>1 DEF WorkerAskStop
<1>3. CASE WorkerAskMode(w)
  <2>1. Look(w, IF shutdownMode_ = "force" THEN "exited" ELSE "depth?")
    BY <1>3 DEF WorkerAskMode
  <2> QED  BY <1>3, <2>1 DEF WorkerAskMode
<1>4. CASE WorkerAskDepth(w)
  <2>1. Look(w, IF queuedApprox_ = 0 THEN "exited" ELSE "lock")  BY <1>4 DEF WorkerAskDepth
  <2> QED  BY <1>4, <2>1 DEF WorkerAskDepth
<1>5. CASE WorkerLock(w)
  <2>1. Look(w, "queued?")  BY <1>5 DEF WorkerLock
  <2> QED  BY <1>5, <2>1 DEF WorkerLock
<1>6. CASE WorkerQueued(w)
  <2>1. Look(w, IF queuedApprox_ > 0 THEN "pop" ELSE "stopping?")  BY <1>6 DEF WorkerQueued
  <2> QED  BY <1>6, <2>1 DEF WorkerQueued
<1>7. CASE WorkerStopping(w)
  <2>1. Look(w, IF stopRequested_ THEN "pop" ELSE "block")  BY <1>7 DEF WorkerStopping
  <2> QED  BY <1>7, <2>1 DEF WorkerStopping
<1>8. CASE WorkerBlock(w)
  <2>1. Look(w, "wait")  BY <1>8 DEF WorkerBlock
  <2> QED  BY <1>8, <2>1 DEF WorkerBlock
<1>9. CASE Spurious(w)
  <2>1. Look(w, "lock")  BY <1>9 DEF Spurious
  <2> QED  BY <1>9, <2>1 DEF Spurious
<1> QED  BY <1>1, <1>2, <1>3, <1>4, <1>5, <1>6, <1>7, <1>8, <1>9 DEF WorkerLooks

\* A notification moves sleepers, and nobody else.
Wakes == /\ w_pc' \in [Worker -> WorkerPlaces]
         /\ \A w \in Worker : w_pc'[w] = w_pc[w] \/ (w_pc[w] = "wait" /\ w_pc'[w] = "lock")

\* Sleepers have popped nothing.
LEMMA WakesSets == TypeOK /\ Wakes => Popped' = Popped /\ Working' = Working
BY DEF Wakes, Popped, Working

\* notify_one (server.h:204).
LEMMA SubmitWakes ==
    ASSUME TypeOK, NEW s \in Submitter, SubmitNotify(s)
    PROVE  Wakes
BY DEF SubmitNotify, Wakes, TypeOK, WorkerPlaces

\* notify_all (server.h:133).
LEMMA ShutdownWakes ==
    ASSUME TypeOK, NEW t \in Caller, ShutdownNotify(t)
    PROVE  Wakes
BY DEF ShutdownNotify, Wakes, TypeOK, WorkerPlaces

\* The sets depend on where the threads are and on nothing else.
LEMMA SameSets ==
    /\ s_pc' = s_pc => Pushed' = Pushed /\ AtPush' = AtPush /\ Deciding' = Deciding
    /\ w_pc' = w_pc => Popped' = Popped /\ Working' = Working
BY DEF Pushed, AtPush, Deciding, Popped, Working

-----------------------------------------------------------------------------
(* The types *)

\* A counter that is raised stays a counter, and the others stay what they are.
LEMMA BumpMoves ==
    ASSUME TypeOK, NEW c \in Counters, Bump(c)
    PROVE  /\ metrics_' \in [Counters -> Nat]
           /\ \A d \in Counters : metrics_'[d] = IF d = c THEN metrics_[d] + 1 ELSE metrics_[d]
BY DEF Bump, TypeOK, Counters

\* A step that has no effect on the counters but through the sets.
LEMMA InflightSame ==
    ASSUME Base, metrics_'.inflight = metrics_.inflight, Working' = Working
    PROVE  metrics_'.inflight = Cardinality(Working')
BY DEF Base

\* trySubmit reads the state (server.h:162).
LEMMA SubmitBase ==
    ASSUME Base, NEW s \in Submitter, NEW e \in Event, Submit(s, e)
    PROVE  Base'
<1> USE DEF Submit, SubmitGoes, lifeVars, workVars, callVars, Base, Lapse
<1>1. metrics_' \in [Counters -> Nat] /\ metrics_'.inflight = metrics_.inflight
  BY BumpMoves DEF TypeOK, Counters
<1>2. Working' = Working  BY SameSets
<1>3. s_pc' \in [Submitter -> {"idle", "depth", "push", "add", "notify"}]
      /\ s_ev' \in [Submitter -> Event \cup {NoEvent}]
  BY DEF TypeOK
<1>4. TypeOK'  BY <1>1, <1>3 DEF TypeOK, Counters, Lapses
<1>5. Joined'  BY DEF Joined, Starting
<1>6. Carries'  BY DEF TypeOK, Carries, Submitting
<1> QED  BY <1>1, <1>2, <1>4, <1>5, <1>6, InflightSame

\* The rest of trySubmit (server.h:178-206).
LEMMA SubmitStepBase ==
    ASSUME Base, NEW s \in Submitter, SubmitStep(s)
    PROVE  Base'
<1> USE DEF SubmitReturns, SubmitGoes, lifeVars, workVars, callVars, histVars, Base
<1>1. CASE SubmitDepth(s)
  <2> USE <1>1 DEF SubmitDepth
  <2>1. metrics_' \in [Counters -> Nat] /\ metrics_'.inflight = metrics_.inflight
    BY BumpMoves DEF TypeOK, Counters
  <2>2. Working' = Working  BY SameSets
  <2>3. s_pc' \in [Submitter -> {"idle", "depth", "push", "add", "notify"}]
        /\ s_ev' \in [Submitter -> Event \cup {NoEvent}]
    BY DEF TypeOK
  <2>4. TypeOK'  BY <2>1, <2>3 DEF TypeOK, Counters
  <2>5. Joined'  BY DEF Joined, Starting
  <2>6. Carries'  BY DEF TypeOK, Carries, Submitting
  <2> QED  BY <2>1, <2>2, <2>4, <2>5, <2>6, InflightSame
<1>2. CASE SubmitPush(s)
  <2> USE <1>2 DEF SubmitPush
  <2>1. metrics_' \in [Counters -> Nat] /\ metrics_'.inflight = metrics_.inflight
    BY BumpMoves DEF TypeOK, Counters
  <2>2. Working' = Working  BY SameSets
  <2>3. s_pc' \in [Submitter -> {"idle", "depth", "push", "add", "notify"}]
        /\ s_ev' \in [Submitter -> Event \cup {NoEvent}]
    BY DEF TypeOK
  <2>4. queue_' \in Seq(Event)
    <3>1. queue_ \in Seq(Event) /\ s_ev[s] \in Event  BY DEF TypeOK, Carries, Submitting
    <3>2. Append(queue_, s_ev[s]) \in Seq(Event)  BY <3>1
    <3> QED  BY <3>1, <3>2
  <2>5. TypeOK'  BY <2>1, <2>3, <2>4 DEF TypeOK, Counters
  <2>6. Joined'  BY DEF Joined, Starting
  <2>7. Carries'  BY DEF TypeOK, Carries, Submitting
  <2> QED  BY <2>1, <2>2, <2>5, <2>6, <2>7, InflightSame
<1>3. CASE SubmitAdd(s)
  <2> USE <1>3 DEF SubmitAdd
  <2>1. metrics_' \in [Counters -> Nat] /\ metrics_'.inflight = metrics_.inflight
    BY BumpMoves DEF TypeOK, Counters
  <2>2. Working' = Working  BY SameSets
  <2>3. s_pc' \in [Submitter -> {"idle", "depth", "push", "add", "notify"}]  BY DEF TypeOK
  <2>4. queuedApprox_' \in 0..Wrap - 1
    <3>1. queuedApprox_ + 1 \in Int  BY WrapPositive DEF TypeOK
    <3>2. (queuedApprox_ + 1) % Wrap \in 0..Wrap - 1  BY <3>1, ModRange
    <3> QED  BY <3>2
  <2>5. TypeOK'  BY <2>1, <2>3, <2>4 DEF TypeOK, Counters
  <2>6. Joined'  BY DEF Joined, Starting
  <2>7. Carries'  BY DEF TypeOK, Carries, Submitting
  <2> QED  BY <2>1, <2>2, <2>5, <2>6, <2>7, InflightSame
<1>4. CASE SubmitNotify(s)
  <2>1. Wakes  BY <1>4, SubmitWakes
  <2> USE <1>4 DEF SubmitNotify
  <2>2. Working' = Working  BY <2>1, WakesSets
  <2>3. s_pc' \in [Submitter -> {"idle", "depth", "push", "add", "notify"}]
        /\ s_ev' \in [Submitter -> Event \cup {NoEvent}]
    BY DEF TypeOK
  <2>4. TypeOK'  BY <2>1, <2>3 DEF TypeOK, Wakes, WorkerPlaces, Lapse, Lapses
  <2>5. Joined'  BY <2>1 DEF Joined, Starting, Wakes
  <2>6. Carries'  BY DEF TypeOK, Carries, Submitting
  <2> QED  BY <2>2, <2>4, <2>5, <2>6, InflightSame
<1> QED  BY <1>1, <1>2, <1>3, <1>4 DEF SubmitStep

\* The steps of a worker that change more than where it is.
LEMMA WorkerWorksBase ==
    ASSUME Base, NEW w \in Worker, WorkerPop(w) \/ WorkerSub(w) \/ WorkerProcess(w)
    PROVE  Base'
<1> USE DEF lifeVars, subVars, callVars, histVars, Base
<1>0. w \in workers_  BY DEF WorkerPop, WorkerSub, WorkerProcess, Joined
<1>1. CASE WorkerPop(w)
  <2> USE <1>1 DEF WorkerPop
  <2>1. Working' = Working
    <3>1. Working' = (Working \ {w}) \cup {}  BY WorkerMoves DEF WorkerPlaces
    <3> QED  BY <3>1 DEF Working
  <2>2. Head(queue_) \in Event /\ Tail(queue_) \in Seq(Event)  BY DEF TypeOK
  <2>3. w_pc' \in [Worker -> WorkerPlaces] /\ w_ev' \in [Worker -> Event \cup {NoEvent}]
    BY <2>2 DEF TypeOK, WorkerPlaces
  <2>4. TypeOK'  BY <2>2, <2>3 DEF TypeOK, WorkerPlaces
  <2>5. Joined'  BY <1>0 DEF Joined, Starting, TypeOK
  <2>6. Carries'  BY DEF Carries, Submitting
  <2> QED  BY <2>1, <2>4, <2>5, <2>6, InflightSame
<1>2. CASE WorkerSub(w)
  <2> USE <1>2 DEF WorkerSub
  <2>1. /\ metrics_' \in [Counters -> Nat]
        /\ metrics_'.inflight = metrics_.inflight + 1
    BY BumpMoves DEF TypeOK, Counters
  <2>2. Working' = Working \cup {w}
    <3>1. Working' = (Working \ {w}) \cup {w}  BY WorkerMoves DEF WorkerPlaces
    <3> QED  BY <3>1
  <2>3. Cardinality(Working') = Cardinality(Working) + 1
    <3>1. w \notin Working  BY DEF Working
    <3> QED  BY <2>2, <3>1, Entered, SetsAreFinite
  <2>4. w_pc' \in [Worker -> WorkerPlaces]  BY DEF TypeOK, WorkerPlaces
  <2>5. queuedApprox_' \in 0..Wrap - 1
    <3>1. queuedApprox_ - 1 \in Int  BY WrapPositive DEF TypeOK
    <3>2. (queuedApprox_ - 1) % Wrap \in 0..Wrap - 1  BY <3>1, ModRange
    <3> QED  BY <3>2
  <2>6. TypeOK'  BY <2>1, <2>4, <2>5 DEF TypeOK, WorkerPlaces, Counters
  <2>7. Joined'  BY <1>0 DEF Joined, Starting, TypeOK
  <2>8. Carries'  BY DEF Carries, Submitting
  <2> QED  BY <2>1, <2>3, <2>6, <2>7, <2>8
<1>3. CASE WorkerProcess(w)
  <2> USE <1>3 DEF WorkerProcess
  <2>1. Working' = Working \ {w}
    <3>1. Working' = (Working \ {w}) \cup {}  BY WorkerMoves DEF WorkerPlaces
    <3> QED  BY <3>1
  <2>2. Cardinality(Working') = Cardinality(Working) - 1 /\ Cardinality(Working) >= 1
    <3>1. w \in Working  BY DEF Working
    <3> QED  BY <2>1, <3>1, Entered, SetsAreFinite
  <2>3. /\ metrics_' \in [Counters -> Nat]
        /\ metrics_'.inflight = metrics_.inflight - 1
    <3>1. PICK failed \in {0, 1} :
            metrics_' = [metrics_ EXCEPT !.error = @ + failed, !.inflight = @ - 1]
      OBVIOUS
    <3>2. metrics_.inflight - 1 \in Nat
      <4>1. metrics_.inflight = Cardinality(Working)  BY Zenon
      <4>2. Cardinality(Working) \in Nat  BY SetsAreFinite, FS_CardinalityType
      <4>3. \A n \in Nat : n >= 1 => n - 1 \in Nat  OBVIOUS
      <4> QED  BY <2>2, <4>1, <4>2, <4>3, Zenon
    <3>3. metrics_.error + failed \in Nat
      <4>1. metrics_.error \in Nat  BY DEF TypeOK, Counters
      <4> HIDE <1>3
      <4> QED  BY <3>1, <4>1
    <3>4. metrics_ \in [Counters -> Nat]  BY DEF TypeOK, Counters
    <3> QED  BY <3>1, <3>2, <3>3, <3>4 DEF Counters
  <2>4. w_pc' \in [Worker -> WorkerPlaces] /\ w_ev' \in [Worker -> Event \cup {NoEvent}]
    BY DEF TypeOK, WorkerPlaces
  <2>5. TypeOK'  BY <2>3, <2>4 DEF TypeOK, WorkerPlaces, Counters
  <2>6. Joined'  BY <1>0 DEF Joined, Starting, TypeOK
  <2>7. Carries'  BY DEF Carries, Submitting
  <2> QED  BY <2>2, <2>3, <2>5, <2>6, <2>7
<1> QED  BY <1>1, <1>2, <1>3

\* The steps of a worker that only look.
LEMMA WorkerLooksBase ==
    ASSUME Base, NEW w \in Worker, WorkerLooks(w)
    PROVE  Base'
<1> USE DEF Base
<1>1. PICK to \in WorkerPlaces : Look(w, to)  BY Looks
<1>2. UNCHANGED looked /\ wakeMutex_' \in Worker \cup {NoWorker}  BY Looks
<1> USE DEF looked, lifeVars, subVars, callVars, histVars
<1>3. Working' = Working
  <2>1. Working' = (Working \ {w}) \cup {}  BY <1>1, WorkerMoves DEF Look
  <2> QED  BY <1>1, <2>1 DEF Working, Look
<1>4. w_pc' \in [Worker -> WorkerPlaces]  BY <1>1 DEF TypeOK, WorkerPlaces, Look
<1>5. TypeOK'  BY <1>2, <1>4 DEF TypeOK, WorkerPlaces
<1>6. w \in workers_  BY <1>1 DEF Joined, Look
<1>7. Joined'  BY <1>1, <1>2, <1>6 DEF Joined, Starting, TypeOK, Look
<1>8. Carries'  BY <1>2 DEF Carries, Submitting
<1> QED  BY <1>2, <1>3, <1>5, <1>7, <1>8, InflightSame

CallPlaces == {"idle", "clear", "count", "spawn", "check", "stopping", "flag", "notify",
               "join", "store"}

\* A step of a caller changes nothing that submitters or workers hold.
LEMMA CallMoves ==
    ASSUME TypeOK, NEW t \in Caller, NEW from, NEW to \in CallPlaces, CallGoes(t, from, to)
    PROVE  /\ l_pc' \in [Caller -> CallPlaces]
           /\ \A x \in Caller : l_pc'[x] = IF x = t THEN to ELSE l_pc[x]
           /\ l_pc[t] = from
           /\ UNCHANGED <<queue_, metrics_, s_pc, s_ev, used>>
BY DEF CallGoes, TypeOK, CallPlaces, subVars

\* What is left to show of a step of a caller that leaves the workers where they are.
LEMMA CallBase ==
    ASSUME Base, NEW t \in Caller, NEW from, NEW to \in CallPlaces, CallGoes(t, from, to),
           UNCHANGED <<w_pc, w_ev, wakeMutex_>>,
           state_' \in {"created", "running", "stopping", "stopped"},
           shutdownMode_' \in {"graceful", "force"}, stopRequested_' \in BOOLEAN,
           queuedApprox_' \in 0..Wrap - 1, workers_' \subseteq Worker,
           calls'.starts \in Nat, calls'.shutdowns \in Nat,
           lapse' \subseteq Lapses, lost' \in Int, Joined'
    PROVE  Base'
<1> USE DEF Base
<1>1. /\ l_pc' \in [Caller -> CallPlaces]
      /\ UNCHANGED <<queue_, metrics_, s_pc, s_ev, used>>
  BY CallMoves
<1>2. TypeOK'  BY <1>1 DEF TypeOK, CallPlaces
<1>3. Carries'  BY <1>1 DEF Carries, Submitting
<1>4. Working' = Working  BY SameSets
<1> QED  BY <1>1, <1>2, <1>3, <1>4, InflightSame

\* The owner is one of the callers.
LEMMA StartBase ==
    ASSUME Base, Start \/ Wait \/ OwnerStep
    PROVE  Base'
<1> USE DEF Base
<1>0. Owner \in Caller  BY DEF Caller
<1>1. CASE Start
  <2>1. CallGoes(Owner, "idle", "clear")  BY <1>1 DEF Start
  <2>2. l_pc'[Owner] = "clear"  BY <1>0, <2>1, CallMoves DEF CallPlaces
  <2>3. Joined'  BY <1>1, <2>2 DEF Start, Joined, Starting, workVars
  <2>4. calls'.starts \in Nat /\ calls'.shutdowns \in Nat  BY <1>1 DEF Start, TypeOK
  <2> QED  BY <1>0, <1>1, <2>1, <2>3, <2>4, CallBase
           DEF Start, TypeOK, CallPlaces, workVars, histVars
<1>2. CASE Wait
  <2>1. CallGoes(Owner, "idle", "join")  BY <1>2 DEF Wait
  <2>2. l_pc'[Owner] = "join"  BY <1>0, <2>1, CallMoves DEF CallPlaces
  <2>3. Joined'  BY <1>2, <2>2 DEF Wait, Joined, Starting, workVars, lifeVars
  <2> QED  BY <1>0, <1>2, <2>1, <2>3, CallBase
           DEF Wait, TypeOK, CallPlaces, workVars, histVars, lifeVars
<1>3. CASE StartClear
  <2>1. CallGoes(Owner, "clear", "count")  BY <1>3 DEF StartClear
  <2>2. l_pc[Owner] = "clear" /\ l_pc'[Owner] = "count"
    BY <1>0, <2>1, CallMoves DEF CallPlaces
  <2>3. Joined'  BY <1>3, <2>2 DEF StartClear, Joined, Starting, workVars
  <2> QED  BY <1>0, <1>3, <2>1, <2>3, CallBase
           DEF StartClear, TypeOK, CallPlaces, workVars, histVars
<1>4. CASE StartCount
  <2>1. CallGoes(Owner, "count", "spawn")  BY <1>4 DEF StartCount
  <2>2. l_pc[Owner] = "count" /\ l_pc'[Owner] = "spawn"
    BY <1>0, <2>1, CallMoves DEF CallPlaces
  <2>3. Joined'  BY <1>4, <2>2 DEF StartCount, Joined, Starting, workVars, lifeVars
  <2>4. lost' \in Int /\ queuedApprox_' \in 0..Wrap - 1
    BY <1>4, BalanceType, WrapPositive DEF StartCount
  <2> QED  BY <1>0, <1>4, <2>1, <2>3, <2>4, CallBase
           DEF StartCount, TypeOK, CallPlaces, workVars, lifeVars
<1>5. CASE StartSpawn
  <2>1. CallGoes(Owner, "spawn", "idle")  BY <1>5 DEF StartSpawn
  <2>2. /\ l_pc[Owner] = "spawn" /\ l_pc'[Owner] = "idle"
        /\ l_pc' \in [Caller -> CallPlaces]
        /\ UNCHANGED <<queue_, metrics_, s_pc, s_ev, used>>
    BY <1>0, <2>1, CallMoves DEF CallPlaces
  <2>3. \A w \in Worker : w_pc[w] = "exited"  BY <2>2 DEF Joined, Starting
  <2>4. Working' = {} /\ Working = {}  BY <1>5, <2>3 DEF StartSpawn, Working
  <2>5. TypeOK'  BY <1>5, <2>2 DEF StartSpawn, TypeOK, CallPlaces, lifeVars, histVars
  <2>6. Joined'  BY <1>5, <2>2 DEF StartSpawn, Joined, Starting, lifeVars
  <2>7. Carries'  BY <2>2 DEF Carries, Submitting
  <2> QED  BY <2>2, <2>4, <2>5, <2>6, <2>7, InflightSame
<1>6. CASE WaitJoin
  <2>1. CallGoes(Owner, "join", "store")  BY <1>6 DEF WaitJoin
  <2>2. l_pc'[Owner] = "store"  BY <1>0, <2>1, CallMoves DEF CallPlaces
  <2>3. Joined'  BY <1>6, <2>2 DEF WaitJoin, Joined, Starting, lifeVars
  <2> QED  BY <1>0, <1>6, <2>1, <2>3, CallBase
           DEF WaitJoin, TypeOK, CallPlaces, histVars, lifeVars
<1>7. CASE WaitStore
  <2>1. CallGoes(Owner, "store", "idle")  BY <1>7 DEF WaitStore
  <2>2. l_pc[Owner] = "store" /\ l_pc'[Owner] = "idle"
    BY <1>0, <2>1, CallMoves DEF CallPlaces
  <2>3. Joined'  BY <1>7, <2>2 DEF WaitStore, Joined, Starting, workVars
  <2> QED  BY <1>0, <1>7, <2>1, <2>3, CallBase
           DEF WaitStore, TypeOK, CallPlaces, workVars, histVars
<1> QED  BY <1>1, <1>2, <1>3, <1>4, <1>5, <1>6, <1>7 DEF OwnerStep

\* shutdown() may come at any time, from the owner too.
LEMMA ShutdownBase ==
    ASSUME Base, NEW t \in Caller,
           ShutdownStep(t) \/ \E mode \in Mode : Shutdown(t, mode)
    PROVE  Base'
<1> USE DEF Base
<1>0. Owner \in Caller  BY DEF Caller
<1>1. ASSUME NEW mode \in Mode, Shutdown(t, mode) PROVE Base'
  <2>1. CallGoes(t, "idle", "check")  BY <1>1 DEF Shutdown
  <2>2. \A x \in Caller : l_pc'[x] = IF x = t THEN "check" ELSE l_pc[x]
    BY <2>1, CallMoves DEF CallPlaces
  <2>3. Joined'  BY <1>0, <1>1, <2>2 DEF Shutdown, Joined, Starting, workVars
  <2>4. calls'.starts \in Nat /\ calls'.shutdowns \in Nat  BY <1>1 DEF Shutdown, TypeOK
  <2> QED  BY <1>1, <2>1, <2>3, <2>4, CallBase
           DEF Shutdown, TypeOK, CallPlaces, workVars, Lapse, Lapses
<1>2. CASE ShutdownCheck(t)
  <2> DEFINE to == IF state_ = "stopped" THEN "idle" ELSE "stopping"
  <2>1. CallGoes(t, "check", to) /\ to \in CallPlaces  BY <1>2 DEF ShutdownCheck, CallPlaces
  <2> HIDE DEF to
  <2>2. /\ \A x \in Caller : l_pc'[x] = IF x = t THEN to ELSE l_pc[x]
        /\ l_pc[t] = "check"
    BY <2>1, CallMoves
  <2>3. to \in {"idle", "stopping"}  BY DEF to
  <2>4. Joined'
    BY <1>0, <1>2, <2>2, <2>3 DEF ShutdownCheck, Joined, Starting, workVars, lifeVars
  <2> QED  BY <1>2, <2>1, <2>4, CallBase DEF ShutdownCheck, TypeOK, workVars, histVars, lifeVars
<1>3. CASE ShutdownState(t)
  <2>1. CallGoes(t, "stopping", "flag")  BY <1>3 DEF ShutdownState
  <2>2. \A x \in Caller : l_pc'[x] = IF x = t THEN "flag" ELSE l_pc[x]
    BY <2>1, CallMoves DEF CallPlaces
  <2>3. Joined'  BY <1>0, <1>3, <2>2 DEF ShutdownState, Joined, Starting, workVars
  <2> QED  BY <1>3, <2>1, <2>3, CallBase
           DEF ShutdownState, TypeOK, CallPlaces, workVars, Lapse, Lapses
<1>4. CASE ShutdownFlag(t)
  <2>1. CallGoes(t, "flag", "notify")  BY <1>4 DEF ShutdownFlag
  <2>2. \A x \in Caller : l_pc'[x] = IF x = t THEN "notify" ELSE l_pc[x]
    BY <2>1, CallMoves DEF CallPlaces
  <2>3. Joined'  BY <1>0, <1>4, <2>2 DEF ShutdownFlag, Joined, Starting, workVars
  <2> QED  BY <1>4, <2>1, <2>3, CallBase
           DEF ShutdownFlag, TypeOK, CallPlaces, workVars, Lapses
<1>5. CASE ShutdownNotify(t)
  <2>1. CallGoes(t, "notify", "idle") /\ Wakes  BY <1>5, ShutdownWakes DEF ShutdownNotify
  <2>2. /\ \A x \in Caller : l_pc'[x] = IF x = t THEN "idle" ELSE l_pc[x]
        /\ l_pc' \in [Caller -> CallPlaces]
        /\ UNCHANGED <<queue_, metrics_, s_pc, s_ev, used>>
    BY <2>1, CallMoves DEF CallPlaces
  <2>3. Joined'
    BY <1>0, <1>5, <2>1, <2>2 DEF ShutdownNotify, Joined, Starting, lifeVars, Wakes
  <2>4. TypeOK'
    BY <1>5, <2>1, <2>2 DEF ShutdownNotify, TypeOK, CallPlaces, Wakes, WorkerPlaces,
                            lifeVars, Lapse, Lapses
  <2>5. Carries'  BY <2>2 DEF Carries, Submitting
  <2>6. Working' = Working  BY <2>1, WakesSets
  <2> QED  BY <2>2, <2>3, <2>4, <2>5, <2>6, InflightSame
<1> QED  BY <1>1, <1>2, <1>3, <1>4, <1>5 DEF ShutdownStep

\* A Server that was just constructed.
LEMMA BaseInit == Init => Base
<1> SUFFICES ASSUME Init PROVE Base  OBVIOUS
<1> USE DEF Init
<1>1. metrics_ \in [Counters -> Nat]  BY DEF Counters
<1>2. 0 \in 0..Wrap - 1  BY WrapPositive
<1>3. TypeOK
  <2>1. queue_ \in Seq(Event)  OBVIOUS
  <2>2. /\ s_pc \in [Submitter -> {"idle", "depth", "push", "add", "notify"}]
        /\ s_ev \in [Submitter -> Event \cup {NoEvent}]
        /\ w_pc \in [Worker -> WorkerPlaces] /\ w_ev \in [Worker -> Event \cup {NoEvent}]
        /\ l_pc \in [Caller -> CallPlaces]
    BY DEF WorkerPlaces, CallPlaces
  <2>3. calls.starts \in Nat /\ calls.shutdowns \in Nat  OBVIOUS
  <2>4. /\ queuedApprox_ \in 0..Wrap - 1 /\ lost \in Int
        /\ lapse \subseteq Lapses /\ used \subseteq Event /\ workers_ \subseteq Worker
    BY <1>2
  <2> QED  BY <1>1, <2>1, <2>2, <2>3, <2>4 DEF TypeOK, Counters, WorkerPlaces, CallPlaces
<1>4. Working = {}  BY DEF Working
<1>5. Owner \in Caller  BY DEF Caller
<1>6. Joined  BY <1>5 DEF Joined, Starting
<1>7. Carries  BY DEF Carries, Submitting
<1> QED  BY <1>3, <1>4, <1>6, <1>7, FS_EmptySet DEF Base

\* A step of nobody.
LEMMA BaseSame == Base /\ UNCHANGED vars => Base'
BY DEF Base, TypeOK, Joined, Starting, Carries, Submitting, Working, vars, lifeVars, subVars,
       workVars, callVars, histVars

\* The types, and what they need, survive every step.
LEMMA BaseNext == Base /\ [Next]_vars => Base'
<1> SUFFICES ASSUME Base, [Next]_vars PROVE Base'  OBVIOUS
<1>1. ASSUME NEW s \in Submitter, SubmitStep(s) \/ \E e \in Event : Submit(s, e) PROVE Base'
  BY <1>1, SubmitBase, SubmitStepBase
<1>2. ASSUME NEW w \in Worker, WorkerStep(w) \/ Spurious(w) PROVE Base'
  BY <1>2, WorkerWorksBase, WorkerLooksBase DEF WorkerStep, WorkerLooks
<1>3. CASE Start \/ Wait \/ OwnerStep  BY <1>3, StartBase
<1>4. ASSUME NEW t \in Caller, ShutdownStep(t) \/ \E mode \in Mode : Shutdown(t, mode)
      PROVE  Base'
  BY <1>4, ShutdownBase
<1>5. CASE UNCHANGED vars  BY <1>5, BaseSame
<1> QED  BY <1>1, <1>2, <1>3, <1>4, <1>5 DEF Next

\* Types hold in every behaviour; a worker that is not to be joined is at its end.
THEOREM BaseHolds == Spec => []Base
<1>1. Init => Base  BY BaseInit
<1>2. Base /\ [Next]_vars => Base'  BY BaseNext
<1> QED  BY <1>1, <1>2, PTL DEF Spec

\* Every variable of the server keeps its type: a worker never takes inflight below
\* zero, and nothing but events is pushed.
THEOREM TypeCorrect == Spec => []TypeOK
<1>1. Base => TypeOK  BY DEF Base
<1> QED  BY <1>1, BaseHolds, PTL

-----------------------------------------------------------------------------
(* What each step counts *)

One(holds) == IF holds THEN 1 ELSE 0

\* Leaving a set and entering it again, or not.
LEMMA Reenter ==
    ASSUME NEW S, IsFiniteSet(S), NEW x, NEW enters \in BOOLEAN
    PROVE  Cardinality((S \ {x}) \cup (IF enters THEN {x} ELSE {}))
              = Cardinality(S) - One(x \in S) + One(enters)
<1> DEFINE T == S \ {x}
<1>1. IsFiniteSet(T) /\ Cardinality(T) = Cardinality(S) - One(x \in S)
      /\ Cardinality(S) \in Nat /\ Cardinality(T) \in Nat
  <2>1. /\ IsFiniteSet(T)
        /\ Cardinality(T) = IF x \in S THEN Cardinality(S) - 1 ELSE Cardinality(S)
    BY FS_RemoveElement
  <2>2. Cardinality(S) \in Nat /\ Cardinality(T) \in Nat  BY <2>1, FS_CardinalityType
  <2> QED  BY <2>1, <2>2 DEF One
<1>2. x \notin T  OBVIOUS
<1> HIDE DEF T
<1>3. CASE enters
  <2>1. Cardinality(T \cup {x}) = Cardinality(T) + 1  BY <1>1, <1>2, Entered
  <2> QED  BY <1>1, <1>3, <2>1 DEF One, T
<1>4. CASE ~enters
  <2>1. (T \cup {}) = T  OBVIOUS
  <2> QED  BY <1>1, <1>4, <2>1 DEF One, T
<1> QED  BY <1>3, <1>4

\* A step of a submitter, in numbers.
LEMMA SubmitSizes ==
    ASSUME TypeOK, NEW s \in Submitter, NEW to \in {"idle", "depth", "push", "add", "notify"},
           s_pc' = [s_pc EXCEPT ![s] = to]
    PROVE  /\ Cardinality(Pushed') = Cardinality(Pushed) - One(s_pc[s] = "add") + One(to = "add")
           /\ Cardinality(AtPush') = Cardinality(AtPush) - One(s_pc[s] = "push") + One(to = "push")
           /\ Cardinality(Deciding') = Cardinality(Deciding)
                 - One(s_pc[s] \in {"depth", "push", "add"}) + One(to \in {"depth", "push", "add"})
<1>1. /\ s \in Pushed <=> s_pc[s] = "add"
      /\ s \in AtPush <=> s_pc[s] = "push"
      /\ s \in Deciding <=> s_pc[s] \in {"depth", "push", "add"}
  BY DEF Pushed, AtPush, Deciding
<1>2. Cardinality(Pushed') = Cardinality(Pushed) - One(s_pc[s] = "add") + One(to = "add")
  <2>1. Pushed' = (Pushed \ {s}) \cup (IF to = "add" THEN {s} ELSE {})  BY SubmitMoves
  <2>2. Cardinality((Pushed \ {s}) \cup (IF to = "add" THEN {s} ELSE {}))
           = Cardinality(Pushed) - One(s \in Pushed) + One(to = "add")
    BY Reenter, SetsAreFinite
  <2> QED  BY <1>1, <2>1, <2>2 DEF One
<1>3. Cardinality(AtPush') = Cardinality(AtPush) - One(s_pc[s] = "push") + One(to = "push")
  <2>1. AtPush' = (AtPush \ {s}) \cup (IF to = "push" THEN {s} ELSE {})  BY SubmitMoves
  <2>2. Cardinality((AtPush \ {s}) \cup (IF to = "push" THEN {s} ELSE {}))
           = Cardinality(AtPush) - One(s \in AtPush) + One(to = "push")
    BY Reenter, SetsAreFinite
  <2> QED  BY <1>1, <2>1, <2>2 DEF One
<1>4. Cardinality(Deciding') = Cardinality(Deciding)
         - One(s_pc[s] \in {"depth", "push", "add"}) + One(to \in {"depth", "push", "add"})
  <2> DEFINE stays == to \in {"depth", "push", "add"}
  <2>1. Deciding' = (Deciding \ {s}) \cup (IF stays THEN {s} ELSE {})  BY SubmitMoves
  <2>2. stays \in BOOLEAN  OBVIOUS
  <2> HIDE DEF stays
  <2>3. Cardinality((Deciding \ {s}) \cup (IF stays THEN {s} ELSE {}))
           = Cardinality(Deciding) - One(s \in Deciding) + One(stays)
    BY <2>2, Reenter, SetsAreFinite
  <2> QED  BY <1>1, <2>1, <2>3 DEF One, stays
<1> QED  BY <1>2, <1>3, <1>4

\* A step of a worker, in numbers.
LEMMA WorkerSizes ==
    ASSUME TypeOK, NEW w \in Worker, NEW to \in WorkerPlaces,
           w_pc' = [w_pc EXCEPT ![w] = to]
    PROVE  Cardinality(Popped') = Cardinality(Popped) - One(w_pc[w] = "sub") + One(to = "sub")
<1>1. w \in Popped <=> w_pc[w] = "sub"  BY DEF Popped
<1>2. Popped' = (Popped \ {w}) \cup (IF to = "sub" THEN {w} ELSE {})  BY WorkerMoves
<1>3. Cardinality((Popped \ {w}) \cup (IF to = "sub" THEN {w} ELSE {}))
         = Cardinality(Popped) - One(w \in Popped) + One(to = "sub")
  BY Reenter, SetsAreFinite
<1> QED  BY <1>1, <1>2, <1>3 DEF One

\* By how much a submitter's sets grow.
SubmitGrows(pushed, atPush, deciding) ==
    /\ Cardinality(Pushed') = Cardinality(Pushed) + pushed
    /\ Cardinality(AtPush') = Cardinality(AtPush) + atPush
    /\ Cardinality(Deciding') = Cardinality(Deciding) + deciding

SubmitLeaves(s, from, to) == s_pc[s] = from /\ s_pc' = [s_pc EXCEPT ![s] = to]

\* The moves that trySubmit makes, one by one.
LEMMA SubmitGrowth ==
    ASSUME TypeOK, NEW s \in Submitter
    PROVE  /\ SubmitLeaves(s, "depth", "idle") => SubmitGrows(0, 0, -1)
           /\ SubmitLeaves(s, "depth", "push") => SubmitGrows(0, 1, 0)
           /\ SubmitLeaves(s, "push", "idle") => SubmitGrows(0, -1, -1)
           /\ SubmitLeaves(s, "push", "add") => SubmitGrows(1, -1, 0)
           /\ SubmitLeaves(s, "add", "notify") => SubmitGrows(-1, 0, -1)
           /\ SubmitLeaves(s, "notify", "idle") => SubmitGrows(0, 0, 0)
<1> DEFINE Inside == {"depth", "push", "add"}
<1>1. ASSUME NEW from, NEW to \in {"idle", "depth", "push", "add", "notify"},
             SubmitLeaves(s, from, to)
      PROVE  SubmitGrows(One(to = "add") - One(from = "add"),
                         One(to = "push") - One(from = "push"),
                         One(to \in Inside) - One(from \in Inside))
  <2>1. s_pc[s] = from /\ s_pc' = [s_pc EXCEPT ![s] = to]  BY <1>1 DEF SubmitLeaves
  <2>2. /\ Cardinality(Pushed') = Cardinality(Pushed) - One(from = "add") + One(to = "add")
        /\ Cardinality(AtPush') = Cardinality(AtPush) - One(from = "push") + One(to = "push")
        /\ Cardinality(Deciding') = Cardinality(Deciding) - One(from \in Inside) + One(to \in Inside)
    BY <1>1, <2>1, SubmitSizes
  <2>3. \A n, a, b \in Int : n - a + b = n + (b - a)  OBVIOUS
  <2>4. /\ Cardinality(Pushed) \in Int /\ Cardinality(AtPush) \in Int
        /\ Cardinality(Deciding) \in Int
    BY SetsAreFinite
  <2>5. /\ One(from = "add") \in Int /\ One(to = "add") \in Int
        /\ One(from = "push") \in Int /\ One(to = "push") \in Int
        /\ One(from \in Inside) \in Int /\ One(to \in Inside) \in Int
    BY DEF One
  <2>6. Cardinality(Pushed') = Cardinality(Pushed) + (One(to = "add") - One(from = "add"))
    BY <2>2, <2>4, <2>5
  <2>7. Cardinality(AtPush') = Cardinality(AtPush) + (One(to = "push") - One(from = "push"))
    BY <2>2, <2>4, <2>5
  <2>8. Cardinality(Deciding') = Cardinality(Deciding) + (One(to \in Inside) - One(from \in Inside))
    BY <2>2, <2>4, <2>5
  <2> QED  BY <2>6, <2>7, <2>8, Zenon DEF SubmitGrows
<1>2. /\ One("depth" \in Inside) = 1 /\ One("push" \in Inside) = 1 /\ One("add" \in Inside) = 1
      /\ One("idle" \in Inside) = 0 /\ One("notify" \in Inside) = 0
  BY DEF One
<1> HIDE DEF Inside
<1>3. SubmitLeaves(s, "depth", "idle") => SubmitGrows(0, 0, -1)
  <2>1. SubmitLeaves(s, "depth", "idle") => SubmitGrows(0 - 0, 0 - 0, 0 - 1)
    BY <1>1, <1>2 DEF One
  <2> QED  BY <2>1
<1>4. SubmitLeaves(s, "depth", "push") => SubmitGrows(0, 1, 0)
  <2>1. SubmitLeaves(s, "depth", "push") => SubmitGrows(0 - 0, 1 - 0, 1 - 1)
    BY <1>1, <1>2 DEF One
  <2> QED  BY <2>1
<1>5. SubmitLeaves(s, "push", "idle") => SubmitGrows(0, -1, -1)
  <2>1. SubmitLeaves(s, "push", "idle") => SubmitGrows(0 - 0, 0 - 1, 0 - 1)
    BY <1>1, <1>2 DEF One
  <2> QED  BY <2>1
<1>6. SubmitLeaves(s, "push", "add") => SubmitGrows(1, -1, 0)
  <2>1. SubmitLeaves(s, "push", "add") => SubmitGrows(1 - 0, 0 - 1, 1 - 1)
    BY <1>1, <1>2 DEF One
  <2> QED  BY <2>1
<1>7. SubmitLeaves(s, "add", "notify") => SubmitGrows(-1, 0, -1)
  <2>1. SubmitLeaves(s, "add", "notify") => SubmitGrows(0 - 1, 0 - 0, 0 - 1)
    BY <1>1, <1>2 DEF One
  <2> QED  BY <2>1
<1>8. SubmitLeaves(s, "notify", "idle") => SubmitGrows(0, 0, 0)
  <2>1. SubmitLeaves(s, "notify", "idle") => SubmitGrows(0 - 0, 0 - 0, 0 - 0)
    BY <1>1, <1>2 DEF One
  <2> QED  BY <2>1
<1> QED  BY <1>3, <1>4, <1>5, <1>6, <1>7, <1>8

\* The moves around a pop, one by one.
LEMMA WorkerGrowth ==
    ASSUME TypeOK, NEW w \in Worker
    PROVE  /\ w_pc[w] = "pop" /\ w_pc' = [w_pc EXCEPT ![w] = "sub"]
              => Cardinality(Popped') = Cardinality(Popped) + 1
           /\ w_pc[w] = "sub" /\ w_pc' = [w_pc EXCEPT ![w] = "process"]
              => Cardinality(Popped') = Cardinality(Popped) + -1
           /\ w_pc[w] = "process" /\ w_pc' = [w_pc EXCEPT ![w] = "pop"]
              => Cardinality(Popped') = Cardinality(Popped) + 0
<1>1. ASSUME w_pc[w] = "pop", w_pc' = [w_pc EXCEPT ![w] = "sub"]
      PROVE  Cardinality(Popped') = Cardinality(Popped) + 1
  <2>1. Cardinality(Popped') = Cardinality(Popped) - One("pop" = "sub") + One("sub" = "sub")
    BY <1>1, WorkerSizes DEF WorkerPlaces
  <2> QED  BY <2>1, SetsAreFinite DEF One
<1>2. ASSUME w_pc[w] = "sub", w_pc' = [w_pc EXCEPT ![w] = "process"]
      PROVE  Cardinality(Popped') = Cardinality(Popped) + -1
  <2>1. Cardinality(Popped') = Cardinality(Popped) - One("sub" = "sub") + One("process" = "sub")
    BY <1>2, WorkerSizes DEF WorkerPlaces
  <2> QED  BY <2>1, SetsAreFinite DEF One
<1>3. ASSUME w_pc[w] = "process", w_pc' = [w_pc EXCEPT ![w] = "pop"]
      PROVE  Cardinality(Popped') = Cardinality(Popped) + 0
  <2>1. Cardinality(Popped') = Cardinality(Popped) - One("process" = "sub") + One("pop" = "sub")
    BY <1>3, WorkerSizes DEF WorkerPlaces
  <2> QED  BY <2>1, SetsAreFinite DEF One
<1> QED  BY <1>1, <1>2, <1>3

\* The length of the queue.
Queued == Len(queue_)

\* By how much the queue and the sets of those on their way grow, and the counters.
Sizes(q, pushed, atPush, deciding, popped, us) ==
    /\ Queued' = Queued + q
    /\ Cardinality(Pushed') = Cardinality(Pushed) + pushed
    /\ Cardinality(AtPush') = Cardinality(AtPush) + atPush
    /\ Cardinality(Deciding') = Cardinality(Deciding) + deciding
    /\ Cardinality(Popped') = Cardinality(Popped) + popped
    /\ Cardinality(used') = Cardinality(used) + us

Marks(accepted, full, stopped, error, inflight) ==
    /\ metrics_'.accepted = metrics_.accepted + accepted
    /\ metrics_'.full = metrics_.full + full
    /\ metrics_'.stopped = metrics_.stopped + stopped
    /\ metrics_'.error = metrics_.error + error
    /\ metrics_'.inflight = metrics_.inflight + inflight

\* Each step counts in one of these ways.
CountStopped  == Sizes(0, 0, 0, 0, 0, 1) /\ Marks(0, 0, 1, 0, 0)
CountEnters   == Sizes(0, 0, One(~enable_backpressure), 1, 0, 1) /\ Marks(0, 0, 0, 0, 0)
CountTooDeep  == Sizes(0, 0, 0, -1, 0, 0) /\ Marks(0, 1, 0, 0, 0)
CountLetIn    == Sizes(0, 0, 1, 0, 0, 0) /\ Marks(0, 0, 0, 0, 0) /\ queuedApprox_ < queue_capacity
CountAtLimit  == Sizes(0, 0, -1, -1, 0, 0) /\ Marks(0, 1, 0, 0, 0)
CountPushed   == Sizes(1, 1, -1, 0, 0, 0) /\ Marks(0, 0, 0, 0, 0)
CountPopped   == Sizes(-1, 0, 0, 0, 1, 0) /\ Marks(0, 0, 0, 0, 0)
CountDone     == \E failed \in {0, 1} : Sizes(0, 0, 0, 0, 0, 0) /\ Marks(0, 0, 0, failed, -1)
CountNothing  == Sizes(0, 0, 0, 0, 0, 0) /\ Marks(0, 0, 0, 0, 0)

CountAdded == /\ Sizes(0, -1, 0, -1, 0, 0) /\ Marks(1, 0, 0, 0, 0)
              /\ queuedApprox_' = (queuedApprox_ + 1) % Wrap
CountTaken == /\ Sizes(0, 0, 0, 0, -1, 0) /\ Marks(0, 0, 0, 0, 1)
              /\ queuedApprox_' = (queuedApprox_ - 1) % Wrap
CountLost  == CountNothing /\ queuedApprox_' = 0 /\ lost' = Balance

Counted ==
    \/ /\ \/ CountStopped \/ CountEnters \/ CountTooDeep \/ CountLetIn \/ CountAtLimit
          \/ CountPushed \/ CountPopped \/ CountDone \/ CountNothing
       /\ queuedApprox_' = queuedApprox_ /\ lost' = lost
    \/ (CountAdded \/ CountTaken) /\ lost' = lost
    \/ CountLost

\* All sizes are numbers.
LEMMA SizeTypes ==
    ASSUME TypeOK
    PROVE  /\ Len(queue_) \in Nat /\ Cardinality(used) \in Nat
           /\ IsFiniteSet(used) /\ Cardinality(used) <= Cardinality(Event)
           /\ metrics_ \in [Counters -> Nat]
           /\ metrics_.accepted \in Nat /\ metrics_.full \in Nat /\ metrics_.stopped \in Nat
           /\ metrics_.error \in Nat /\ metrics_.inflight \in Nat
<1>1. IsFiniteSet(used) /\ Cardinality(used) <= Cardinality(Event)  BY FS_Subset DEF TypeOK
<1>2. Cardinality(used) \in Nat  BY <1>1, FS_CardinalityType
<1>3. Len(queue_) \in Nat  BY DEF TypeOK
<1> QED  BY <1>1, <1>2, <1>3 DEF TypeOK, Counters

\* The look at the state counts a rejection, or an event more on its way.
LEMMA SubmitCounts ==
    ASSUME Base, NEW s \in Submitter, NEW e \in Event, Submit(s, e)
    PROVE  Counted
<1> USE DEF Base, Submit, lifeVars, workVars, callVars
<1>1. Cardinality(used') = Cardinality(used) + 1
  <2>1. IsFiniteSet(used) /\ e \notin used /\ used' = used \cup {e}  BY SizeTypes
  <2> QED  BY <2>1, Entered
<1>2. Cardinality(Popped') = Cardinality(Popped)  BY SameSets
<1>3. UNCHANGED <<queue_, queuedApprox_, lost>>  OBVIOUS
<1>4. CASE state_ # "running"
  <2>1. Marks(0, 0, 1, 0, 0)  BY <1>4, SizeTypes, BumpMoves DEF Marks, Counters
  <2>2. Sizes(0, 0, 0, 0, 0, 1)
    BY <1>1, <1>2, <1>3, <1>4, SizeTypes, SetsAreFinite, SameSets DEF Sizes, Queued
  <2> QED  BY <1>3, <2>1, <2>2 DEF Counted, CountStopped
<1>5. CASE state_ = "running"
  <2> DEFINE to == IF enable_backpressure THEN "depth" ELSE "push"
  <2>1. s_pc' = [s_pc EXCEPT ![s] = to] /\ s_pc[s] = "idle" /\ metrics_' = metrics_
    BY <1>5 DEF SubmitGoes
  <2>2. /\ Cardinality(Pushed') = Cardinality(Pushed)
        /\ Cardinality(AtPush') = Cardinality(AtPush) + One(~enable_backpressure)
        /\ Cardinality(Deciding') = Cardinality(Deciding) + 1
    <3>1. to \in {"idle", "depth", "push", "add", "notify"}  OBVIOUS
    <3>2. One(to = "add") = 0 /\ One(to = "push") = One(~enable_backpressure)
          /\ One(to \in {"depth", "push", "add"}) = 1
      BY DEF One
    <3> HIDE DEF to
    <3>3. /\ Cardinality(Pushed') = Cardinality(Pushed) - One(s_pc[s] = "add") + One(to = "add")
          /\ Cardinality(AtPush') = Cardinality(AtPush) - One(s_pc[s] = "push") + One(to = "push")
          /\ Cardinality(Deciding') = Cardinality(Deciding)
                 - One(s_pc[s] \in {"depth", "push", "add"}) + One(to \in {"depth", "push", "add"})
      BY <2>1, <3>1, SubmitSizes
    <3>4. One(s_pc[s] = "add") = 0 /\ One(s_pc[s] = "push") = 0
          /\ One(s_pc[s] \in {"depth", "push", "add"}) = 0
      BY <2>1 DEF One
    <3>5. Cardinality(Pushed) \in Nat /\ Cardinality(AtPush) \in Nat /\ Cardinality(Deciding) \in Nat
         /\ One(~enable_backpressure) \in Nat
      BY SetsAreFinite DEF One
    <3> QED  BY ONLY <3>2, <3>3, <3>4, <3>5
  <2>3. Sizes(0, 0, One(~enable_backpressure), 1, 0, 1)
    BY <1>1, <1>2, <1>3, <2>2, SizeTypes, SetsAreFinite DEF Sizes, Queued
  <2>4. Marks(0, 0, 0, 0, 0)  BY <2>1, SizeTypes DEF Marks
  <2> QED  BY <1>3, <2>3, <2>4 DEF Counted, CountEnters
<1> QED  BY <1>4, <1>5

\* The rest of trySubmit counts in one of these ways.
LEMMA SubmitStepCounts ==
    ASSUME Base, NEW s \in Submitter, SubmitStep(s)
    PROVE  Counted
<1> USE DEF Base, SubmitGoes, SubmitReturns, lifeVars, callVars, histVars
<1>0. s_pc[s] # "notify" => Cardinality(Popped') = Cardinality(Popped)
  BY SameSets DEF SubmitStep, SubmitDepth, SubmitPush, SubmitAdd, SubmitNotify, workVars
<1>1. CASE SubmitDepth(s)
  <2> USE <1>1 DEF SubmitDepth
  <2>1. UNCHANGED <<queue_, queuedApprox_, used, lost>> /\ s_pc[s] = "depth"  OBVIOUS
  <2>2. CASE queuedApprox_ >= queue_capacity
    <3>1. s_pc' = [s_pc EXCEPT ![s] = "idle"] /\ Bump("full")  BY <2>2
    <3>2. SubmitGrows(0, 0, -1)
      BY <2>1, <3>1, SubmitGrowth DEF SubmitLeaves
    <3>3. Sizes(0, 0, 0, -1, 0, 0)
      BY <1>0, <2>1, <3>2, SizeTypes, SetsAreFinite DEF Sizes, Queued, SubmitGrows
    <3>4. Marks(0, 1, 0, 0, 0)  BY <3>1, SizeTypes, BumpMoves DEF Marks, Counters
    <3> QED  BY <2>1, <3>3, <3>4 DEF Counted, CountTooDeep
  <2>3. CASE ~(queuedApprox_ >= queue_capacity)
    <3>1. s_pc' = [s_pc EXCEPT ![s] = "push"] /\ metrics_' = metrics_  BY <2>3
    <3>2. SubmitGrows(0, 1, 0)
      BY <2>1, <3>1, SubmitGrowth DEF SubmitLeaves
    <3>3. Sizes(0, 0, 1, 0, 0, 0)
      BY <1>0, <2>1, <3>2, SizeTypes, SetsAreFinite DEF Sizes, Queued, SubmitGrows
    <3>4. Marks(0, 0, 0, 0, 0)  BY <3>1, SizeTypes DEF Marks
    <3>5. queuedApprox_ < queue_capacity  BY <2>3 DEF TypeOK
    <3> QED  BY <2>1, <3>3, <3>4, <3>5 DEF Counted, CountLetIn
  <2> QED  BY <2>2, <2>3
<1>2. CASE SubmitPush(s)
  <2> USE <1>2 DEF SubmitPush
  <2>1. UNCHANGED <<queuedApprox_, used, lost>> /\ s_pc[s] = "push"  OBVIOUS
  <2>2. CASE Len(queue_) >= Limit
    <3>1. s_pc' = [s_pc EXCEPT ![s] = "idle"] /\ Bump("full") /\ queue_' = queue_  BY <2>2
    <3>2. SubmitGrows(0, -1, -1)
      BY <2>1, <3>1, SubmitGrowth DEF SubmitLeaves
    <3>3. Sizes(0, 0, -1, -1, 0, 0)
      BY <1>0, <2>1, <3>1, <3>2, SizeTypes, SetsAreFinite DEF Sizes, Queued, SubmitGrows
    <3>4. Marks(0, 1, 0, 0, 0)  BY <3>1, SizeTypes, BumpMoves DEF Marks, Counters
    <3> QED  BY <2>1, <3>3, <3>4 DEF Counted, CountAtLimit
  <2>3. CASE ~(Len(queue_) >= Limit)
    <3>1. /\ s_pc' = [s_pc EXCEPT ![s] = "add"] /\ metrics_' = metrics_
          /\ queue_' = Append(queue_, s_ev[s])
      BY <2>3
    <3>2. SubmitGrows(1, -1, 0)
      BY <2>1, <3>1, SubmitGrowth DEF SubmitLeaves
    <3>3. Len(queue_') = Len(queue_) + 1
      <4>1. queue_ \in Seq(Event) /\ s_ev[s] \in Event  BY <2>1 DEF TypeOK, Carries, Submitting
      <4> QED  BY <3>1, <4>1
    <3>4. Sizes(1, 1, -1, 0, 0, 0)
      BY <1>0, <2>1, <3>2, <3>3, SizeTypes, SetsAreFinite DEF Sizes, Queued, SubmitGrows
    <3>5. Marks(0, 0, 0, 0, 0)  BY <3>1, SizeTypes DEF Marks
    <3> QED  BY <2>1, <3>4, <3>5 DEF Counted, CountPushed
  <2> QED  BY <2>2, <2>3
<1>3. CASE SubmitAdd(s)
  <2> USE <1>3 DEF SubmitAdd
  <2>1. /\ UNCHANGED <<queue_, used, lost>> /\ s_pc[s] = "add"
        /\ s_pc' = [s_pc EXCEPT ![s] = "notify"] /\ Bump("accepted")
    OBVIOUS
  <2>2. SubmitGrows(-1, 0, -1)
    BY <2>1, SubmitGrowth DEF SubmitLeaves
  <2>3. Sizes(0, -1, 0, -1, 0, 0)
    BY <1>0, <2>1, <2>2, SizeTypes, SetsAreFinite DEF Sizes, Queued, SubmitGrows
  <2>4. Marks(1, 0, 0, 0, 0)  BY <2>1, SizeTypes, BumpMoves DEF Marks, Counters
  <2> QED  BY <2>1, <2>3, <2>4 DEF Counted, CountAdded
<1>4. CASE SubmitNotify(s)
  <2> USE <1>4 DEF SubmitNotify
  <2>1. /\ UNCHANGED <<queue_, queuedApprox_, used, metrics_, lost>> /\ s_pc[s] = "notify"
        /\ s_pc' = [s_pc EXCEPT ![s] = "idle"]
    OBVIOUS
  <2>2. SubmitGrows(0, 0, 0)
    BY <2>1, SubmitGrowth DEF SubmitLeaves
  <2>3. Popped' = Popped  BY SubmitWakes, WakesSets
  <2>4. Sizes(0, 0, 0, 0, 0, 0)  BY <2>1, <2>2, <2>3, SizeTypes, SetsAreFinite DEF Sizes, Queued, SubmitGrows
  <2>5. Marks(0, 0, 0, 0, 0)  BY <2>1, SizeTypes DEF Marks
  <2> QED  BY <2>1, <2>4, <2>5 DEF Counted, CountNothing
<1> QED  BY <1>1, <1>2, <1>3, <1>4 DEF SubmitStep

\* So does every step of a worker.
LEMMA WorkerCounts ==
    ASSUME Base, NEW w \in Worker, WorkerStep(w) \/ Spurious(w)
    PROVE  Counted
<1> USE DEF Base, lifeVars, subVars, callVars, histVars
<1>0. /\ UNCHANGED <<s_pc, used, lost>>
      /\ Cardinality(Pushed') = Cardinality(Pushed)
      /\ Cardinality(AtPush') = Cardinality(AtPush)
      /\ Cardinality(Deciding') = Cardinality(Deciding)
  <2>1. UNCHANGED <<s_pc, used, lost>>
    BY DEF WorkerStep, WorkerPop, WorkerSub, WorkerProcess, WorkerIdle, WorkerAskStop,
           WorkerAskMode, WorkerAskDepth, WorkerLock, WorkerQueued, WorkerStopping,
           WorkerBlock, Spurious, WorkerGoes
  <2> QED  BY <2>1, SameSets
<1>1. CASE WorkerPop(w)
  <2> USE <1>1 DEF WorkerPop
  <2>1. /\ UNCHANGED <<queuedApprox_, metrics_>> /\ w_pc[w] = "pop"
        /\ w_pc' = [w_pc EXCEPT ![w] = "sub"]
    OBVIOUS
  <2>2. Cardinality(Popped') = Cardinality(Popped) + 1
    BY <2>1, WorkerGrowth
  <2>3. Len(queue_') = Len(queue_) - 1
    <3>1. queue_ \in Seq(Event) /\ queue_ # <<>> /\ queue_' = Tail(queue_)  BY DEF TypeOK
    <3> QED  BY <3>1
  <2>4. Sizes(-1, 0, 0, 0, 1, 0)
    BY <1>0, <2>2, <2>3, SizeTypes, SetsAreFinite DEF Sizes, Queued
  <2>5. Marks(0, 0, 0, 0, 0)  BY <2>1, SizeTypes DEF Marks
  <2> QED  BY <1>0, <2>1, <2>4, <2>5 DEF Counted, CountPopped
<1>2. CASE WorkerSub(w)
  <2> USE <1>2 DEF WorkerSub
  <2>1. /\ UNCHANGED queue_ /\ w_pc[w] = "sub" /\ Bump("inflight")
        /\ w_pc' = [w_pc EXCEPT ![w] = "process"]
    OBVIOUS
  <2>2. Cardinality(Popped') = Cardinality(Popped) - 1
    BY <2>1, WorkerGrowth
  <2>3. Sizes(0, 0, 0, 0, -1, 0)  BY <1>0, <2>1, <2>2, SizeTypes, SetsAreFinite DEF Sizes, Queued
  <2>4. Marks(0, 0, 0, 0, 1)  BY <2>1, SizeTypes, BumpMoves DEF Marks, Counters
  <2> QED  BY <1>0, <2>3, <2>4 DEF Counted, CountTaken
<1>3. CASE WorkerProcess(w)
  <2> USE <1>3 DEF WorkerProcess
  <2>1. /\ UNCHANGED <<queue_, queuedApprox_>> /\ w_pc[w] = "process"
        /\ w_pc' = [w_pc EXCEPT ![w] = "pop"]
    OBVIOUS
  <2>2. Cardinality(Popped') = Cardinality(Popped) + 0  BY <2>1, WorkerGrowth
  <2>3. Sizes(0, 0, 0, 0, 0, 0)  BY <1>0, <2>1, <2>2, SizeTypes, SetsAreFinite DEF Sizes, Queued
  <2>4. \E failed \in {0, 1} : Marks(0, 0, 0, failed, -1)
    <3>1. PICK failed \in {0, 1} :
            metrics_' = [metrics_ EXCEPT !.error = @ + failed, !.inflight = @ - 1]
      OBVIOUS
    <3>2. metrics_ \in [Counters -> Nat]  BY DEF TypeOK, Counters
    <3>3. /\ metrics_'.accepted = metrics_.accepted /\ metrics_'.full = metrics_.full
          /\ metrics_'.stopped = metrics_.stopped
          /\ metrics_'.error = metrics_.error + failed
          /\ metrics_'.inflight = metrics_.inflight - 1
      BY <3>1, <3>2 DEF Counters
    <3>4. Marks(0, 0, 0, failed, -1)  BY <3>3, SizeTypes DEF Marks
    <3> QED  BY <3>4
  <2> QED  BY <1>0, <2>1, <2>3, <2>4 DEF Counted, CountDone
<1>4. CASE WorkerLooks(w)
  <2>1. UNCHANGED <<queue_, queuedApprox_, metrics_>>  BY <1>4, Looks DEF looked
  <2>2. PICK to \in WorkerPlaces : Look(w, to)  BY <1>4, Looks
  <2>3. Popped' = Popped
    <3>1. Popped' = (Popped \ {w}) \cup {}  BY <2>2, WorkerMoves DEF Look
    <3> QED  BY <2>2, <3>1 DEF Look, Popped
  <2>4. Sizes(0, 0, 0, 0, 0, 0)  BY <1>0, <2>1, <2>3, SizeTypes, SetsAreFinite DEF Sizes, Queued
  <2>5. Marks(0, 0, 0, 0, 0)  BY <2>1, SizeTypes DEF Marks
  <2> QED  BY <1>0, <2>1, <2>4, <2>5 DEF Counted, CountNothing
<1> QED  BY <1>1, <1>2, <1>3, <1>4 DEF WorkerStep, WorkerLooks

\* Callers of start, shutdown and wait count nothing, but for the zero of start().
LEMMA CallCounts ==
    ASSUME Base, Start \/ Wait \/ OwnerStep
           \/ \E t \in Caller : ShutdownStep(t) \/ \E mode \in Mode : Shutdown(t, mode)
    PROVE  Counted
<1> USE DEF Base
<1>0. UNCHANGED <<queue_, metrics_, s_pc, used>>
  BY DEF Start, Wait, OwnerStep, StartClear, StartCount, StartSpawn, WaitJoin, WaitStore,
         ShutdownStep, ShutdownCheck, ShutdownState, ShutdownFlag, ShutdownNotify, Shutdown,
         CallGoes, subVars
<1>1. Cardinality(Popped') = Cardinality(Popped)
  <2>1. CASE StartSpawn
    <3>1. l_pc[Owner] = "spawn"  BY <2>1 DEF StartSpawn, CallGoes
    <3>2. \A w \in Worker : w_pc[w] = "exited"  BY <3>1 DEF Joined, Starting
    <3>3. Popped = {} /\ Popped' = {}  BY <2>1, <3>2 DEF StartSpawn, Popped
    <3> QED  BY <3>3
  <2>2. ASSUME NEW t \in Caller, ShutdownNotify(t) PROVE Popped' = Popped
    BY <2>2, ShutdownWakes, WakesSets
  <2>3. CASE w_pc' = w_pc  BY <2>3, SameSets
  <2> QED
    BY <2>1, <2>2, <2>3
    DEF Start, Wait, OwnerStep, StartClear, StartCount, WaitJoin, WaitStore, ShutdownStep,
        ShutdownCheck, ShutdownState, ShutdownFlag, Shutdown, workVars
<1>2. CountNothing
  <2>1. Sizes(0, 0, 0, 0, 0, 0)  BY <1>0, <1>1, SizeTypes, SetsAreFinite, SameSets DEF Sizes, Queued
  <2>2. Marks(0, 0, 0, 0, 0)  BY <1>0, SizeTypes DEF Marks
  <2> QED  BY <2>1, <2>2 DEF CountNothing
<1>3. CASE StartCount  BY <1>2, <1>3 DEF StartCount, Counted, CountLost
<1>4. CASE ~StartCount
  <2>1. queuedApprox_' = queuedApprox_ /\ lost' = lost
    BY <1>4
    DEF Start, Wait, OwnerStep, StartClear, StartSpawn, WaitJoin, WaitStore, ShutdownStep,
        ShutdownCheck, ShutdownState, ShutdownFlag, ShutdownNotify, Shutdown, histVars
  <2> QED  BY <1>2, <2>1 DEF Counted
<1> QED  BY <1>3, <1>4

\* Every step counts.
LEMMA StepCounts ==
    ASSUME Base, [Next]_vars
    PROVE  Counted
<1>1. CASE UNCHANGED vars
  <2>1. UNCHANGED <<queue_, queuedApprox_, metrics_, s_pc, w_pc, used, lost>>
    BY <1>1 DEF vars, subVars, workVars, histVars
  <2>2. Sizes(0, 0, 0, 0, 0, 0)
    BY <2>1, SizeTypes, SetsAreFinite, SameSets DEF Sizes, Queued, Base
  <2>3. Marks(0, 0, 0, 0, 0)  BY <2>1, SizeTypes DEF Marks, Base
  <2> QED  BY <2>1, <2>2, <2>3 DEF Counted, CountNothing
<1> QED  BY <1>1, SubmitCounts, SubmitStepCounts, WorkerCounts, CallCounts DEF Next

-----------------------------------------------------------------------------
(* What the counters say *)

\* Numbers stay numbers.
SizesAre(numbers) ==
    /\ Queued \in numbers /\ Cardinality(used) \in numbers
    /\ Cardinality(Pushed) \in numbers /\ Cardinality(AtPush) \in numbers
    /\ Cardinality(Deciding) \in numbers /\ Cardinality(Popped) \in numbers
    /\ metrics_.accepted \in numbers /\ metrics_.full \in numbers
    /\ metrics_.stopped \in numbers /\ metrics_.error \in numbers
    /\ metrics_.inflight \in numbers

\* All of them are numbers in every state.
LEMMA SizesAreNat == Base => SizesAre(Nat)
BY SizeTypes, SetsAreFinite DEF Base, SizesAre, Queued

\* And so in the next.
LEMMA SizesStayNat ==
    ASSUME Base, [Next]_vars
    PROVE  SizesAre(Nat) /\ SizesAre(Nat)'
<1>1. Base => SizesAre(Nat)  BY SizesAreNat
<1>2. Base'  BY BaseNext
<1>3. Base' => SizesAre(Nat)'  BY SizesAreNat, PTL
<1> QED  BY <1>1, <1>2, <1>3

\* Nothing is counted in the beginning.
LEMMA MetricsInit == Init => MetricsAddUp
<1> SUFFICES ASSUME Init PROVE MetricsAddUp  OBVIOUS
<1>1. Deciding = {} /\ Working = {} /\ Popped = {} /\ Pushed = {}
  BY DEF Init, Deciding, Working, Popped, Pushed
<1>2. Cardinality({}) = 0  BY FS_EmptySet
<1>3. /\ metrics_.accepted = 0 /\ metrics_.full = 0 /\ metrics_.stopped = 0
      /\ metrics_.error = 0 /\ metrics_.inflight = 0 /\ used = {} /\ Len(queue_) = 0
  BY DEF Init
<1>4. /\ Cardinality(Deciding) = 0 /\ Cardinality(Working) = 0
      /\ Cardinality(Popped) = 0 /\ Cardinality(Pushed) = 0
  BY <1>1, <1>2
<1> QED  BY <1>3, <1>4, <1>2 DEF MetricsAddUp, Deciding

\* Every step moves an event from one term of the sums to another.
LEMMA MetricsNext == Base /\ MetricsAddUp /\ [Next]_vars => MetricsAddUp'
<1> SUFFICES ASSUME Base, MetricsAddUp, [Next]_vars PROVE MetricsAddUp'  OBVIOUS
<1>0. SizesAre(Nat) /\ SizesAre(Nat)'  BY SizesStayNat
<1>1. Counted  BY StepCounts
<1>2. Base' /\ metrics_'.inflight = Cardinality(Working')  BY BaseNext DEF Base
<1>3. /\ metrics_.accepted + metrics_.full + metrics_.stopped + Cardinality(Deciding)
            = Cardinality(used)
      /\ metrics_.error + metrics_.inflight + Cardinality(Popped) + Queued
            <= metrics_.accepted + Cardinality(Pushed)
  BY DEF MetricsAddUp, Deciding, Queued
<1>4. /\ metrics_'.accepted + metrics_'.full + metrics_'.stopped + Cardinality(Deciding')
            = Cardinality(used')
      /\ metrics_'.error + metrics_'.inflight + Cardinality(Popped') + Queued'
            <= metrics_'.accepted + Cardinality(Pushed')
  <2> USE <1>0, <1>3 DEF Sizes, Marks, SizesAre
  <2>1. CASE CountStopped  BY <2>1 DEF CountStopped
  <2>2. CASE CountEnters
    <3>1. /\ Queued' = Queued /\ Cardinality(Deciding') = Cardinality(Deciding) + 1
          /\ Cardinality(Pushed') = Cardinality(Pushed)
          /\ Cardinality(Popped') = Cardinality(Popped)
          /\ Cardinality(used') = Cardinality(used) + 1
      BY <2>2 DEF CountEnters
    <3>2. Marks(0, 0, 0, 0, 0)  BY <2>2 DEF CountEnters
    <3> QED  BY <3>1, <3>2
  <2>3. CASE CountTooDeep  BY <2>3 DEF CountTooDeep
  <2>4. CASE CountLetIn  BY <2>4 DEF CountLetIn
  <2>5. CASE CountAtLimit
    <3>1. /\ Queued' = Queued /\ Cardinality(Deciding') = Cardinality(Deciding) - 1
          /\ Cardinality(Pushed') = Cardinality(Pushed)
          /\ Cardinality(Popped') = Cardinality(Popped)
          /\ Cardinality(used') = Cardinality(used)
      BY <2>5 DEF CountAtLimit
    <3>2. /\ metrics_'.accepted = metrics_.accepted /\ metrics_'.full = metrics_.full + 1
          /\ metrics_'.stopped = metrics_.stopped /\ metrics_'.error = metrics_.error
          /\ metrics_'.inflight = metrics_.inflight
      BY <2>5 DEF CountAtLimit
    <3>3. metrics_'.accepted + metrics_'.full + metrics_'.stopped + Cardinality(Deciding')
             = Cardinality(used')
      BY ONLY <1>0, <1>3, <3>1, <3>2 DEF SizesAre
    <3> QED  BY <3>1, <3>2, <3>3
  <2>6. CASE CountPushed  BY <2>6 DEF CountPushed
  <2>7. CASE CountPopped  BY <2>7 DEF CountPopped
  <2>8. CASE CountDone  BY <2>8 DEF CountDone
  <2>9. CASE CountNothing  BY <2>9 DEF CountNothing
  <2>10. CASE CountAdded  BY <2>10 DEF CountAdded
  <2>11. CASE CountTaken  BY <2>11 DEF CountTaken
  <2> QED  BY <1>1, <2>1, <2>2, <2>3, <2>4, <2>5, <2>6, <2>7, <2>8, <2>9, <2>10, <2>11
           DEF Counted, CountLost
<1> QED  BY <1>2, <1>4 DEF MetricsAddUp, Deciding, Queued

\* The counters of MetricsMixin account for every trySubmit (server.h:157-206, 234-243).
THEOREM MetricsCorrect == Spec => []MetricsAddUp
<1>1. Init => MetricsAddUp  BY MetricsInit
<1>2. Base /\ MetricsAddUp /\ [Next]_vars => MetricsAddUp'  BY MetricsNext
<1> QED  BY <1>1, <1>2, BaseHolds, PTL DEF Spec

\* The count is exact but for those on their way, and for what start() wrote over.
Track == queuedApprox_ = (Balance - lost) % Wrap

\* The count is zero in the beginning.
LEMMA TrackInit == Init => Track
<1> SUFFICES ASSUME Init PROVE Track  OBVIOUS
<1>1. Popped = {} /\ Pushed = {}  BY DEF Init, Popped, Pushed
<1>2. Balance - lost = 0  BY <1>1, FS_EmptySet DEF Init, Balance
<1>3. 0 % Wrap = 0  BY ModSmall, WrapPositive
<1> QED  BY <1>2, <1>3 DEF Init, Track

\* fetch_add and fetch_sub move the count with the exact one, start() both to zero.
LEMMA TrackNext == Base /\ Track /\ [Next]_vars => Track'
<1> SUFFICES ASSUME Base, Track, [Next]_vars PROVE Track'  OBVIOUS
<1>0. SizesAre(Nat) /\ SizesAre(Nat)'  BY SizesStayNat
<1>1. Counted  BY StepCounts
<1>2. Base'  BY BaseNext
<1> DEFINE b == Balance - lost
           c == (Balance - lost)'
<1>3. b \in Int /\ lost \in Int /\ lost' \in Int /\ Balance \in Int
  BY <1>2, BalanceType DEF Base, TypeOK
<1>4. b = (Queued + Cardinality(Popped) - Cardinality(Pushed)) - lost  BY DEF Balance, Queued
<1>5. c = (Queued' + Cardinality(Popped') - Cardinality(Pushed')) - lost'  BY DEF Balance, Queued
<1>6. queuedApprox_ = b % Wrap  BY DEF Track
<1> HIDE DEF b, c
<1>7. (c = b /\ queuedApprox_' = queuedApprox_)
      \/ (c = b + 1 /\ queuedApprox_' = (queuedApprox_ + 1) % Wrap)
      \/ (c = b - 1 /\ queuedApprox_' = (queuedApprox_ - 1) % Wrap)
      \/ (c = 0 /\ queuedApprox_' = 0)
  <2> USE <1>0, <1>3, <1>4, <1>5 DEF Sizes, SizesAre
  <2>1. CASE CountStopped /\ queuedApprox_' = queuedApprox_ /\ lost' = lost
    BY <2>1 DEF CountStopped
  <2>2. CASE CountEnters /\ queuedApprox_' = queuedApprox_ /\ lost' = lost
    BY <2>2 DEF CountEnters
  <2>3. CASE CountTooDeep /\ queuedApprox_' = queuedApprox_ /\ lost' = lost
    BY <2>3 DEF CountTooDeep
  <2>4. CASE CountLetIn /\ queuedApprox_' = queuedApprox_ /\ lost' = lost
    BY <2>4 DEF CountLetIn
  <2>5. CASE CountAtLimit /\ queuedApprox_' = queuedApprox_ /\ lost' = lost
    BY <2>5 DEF CountAtLimit
  <2>6. CASE CountPushed /\ queuedApprox_' = queuedApprox_ /\ lost' = lost
    BY <2>6 DEF CountPushed
  <2>7. CASE CountPopped /\ queuedApprox_' = queuedApprox_ /\ lost' = lost
    BY <2>7 DEF CountPopped
  <2>8. CASE CountDone /\ queuedApprox_' = queuedApprox_ /\ lost' = lost
    BY <2>8 DEF CountDone
  <2>9. CASE CountNothing /\ queuedApprox_' = queuedApprox_ /\ lost' = lost
    BY <2>9 DEF CountNothing
  <2>10. CASE CountAdded /\ lost' = lost  BY <2>10 DEF CountAdded
  <2>11. CASE CountTaken /\ lost' = lost  BY <2>11 DEF CountTaken
  <2>12. CASE CountLost
    <3>1. lost' = Queued + Cardinality(Popped) - Cardinality(Pushed) /\ queuedApprox_' = 0
      BY <2>12 DEF CountLost, Balance, Queued
    <3>2. Sizes(0, 0, 0, 0, 0, 0)  BY <2>12 DEF CountLost, CountNothing
    <3> QED  BY <3>1, <3>2
  <2> QED  BY <1>1, <2>1, <2>2, <2>3, <2>4, <2>5, <2>6, <2>7, <2>8, <2>9, <2>10, <2>11, <2>12
           DEF Counted
<1>8. queuedApprox_' = c % Wrap
  <2>1. 0 % Wrap = 0  BY ModSmall, WrapPositive
  <2>2. ((b % Wrap) + 1) % Wrap = (b + 1) % Wrap  BY <1>3, ModUp
  <2>3. ((b % Wrap) - 1) % Wrap = (b - 1) % Wrap  BY <1>3, ModDown
  <2>4. CASE c = b /\ queuedApprox_' = queuedApprox_  BY <1>6, <2>4
  <2>5. CASE c = b + 1 /\ queuedApprox_' = (queuedApprox_ + 1) % Wrap  BY <1>6, <2>2, <2>5
  <2>6. CASE c = b - 1 /\ queuedApprox_' = (queuedApprox_ - 1) % Wrap  BY <1>6, <2>3, <2>6
  <2>7. CASE c = 0 /\ queuedApprox_' = 0  BY <2>1, <2>7
  <2> QED  BY <1>7, <2>4, <2>5, <2>6, <2>7
<1> QED  BY <1>8 DEF Track, c

\* The count is what it should be, modulo its range (server.h:107, 197, 261).
THEOREM TrackHolds == Spec => []Track
<1>1. Init => Track  BY TrackInit
<1>2. Base /\ Track /\ [Next]_vars => Track'  BY TrackNext
<1> QED  BY <1>1, <1>2, BaseHolds, PTL DEF Spec

-----------------------------------------------------------------------------
(* How far the queue grows *)

Excess == IF lost > 0 THEN lost ELSE 0

\* The count is at most what was accepted, so it does not wrap above; and who is at
\* the push has been let in under the capacity.
Over ==
    /\ Balance - lost <= metrics_.accepted
    /\ enable_backpressure =>
          /\ Queued + Cardinality(AtPush) < queue_capacity + Cardinality(Submitter) + Excess
          /\ queue_capacity = 0 => Queued = 0 /\ Cardinality(AtPush) = 0

\* Nobody is at the push and past it at once.
LEMMA SubmittersCounted ==
    /\ Cardinality(Submitter) \in Nat \ {0}
    /\ Cardinality(Pushed) + Cardinality(AtPush) <= Cardinality(Submitter)
<1>1. Cardinality(Submitter) \in Nat \ {0}  BY FS_CardinalityType, FS_EmptySet
<1>2. Pushed \cap AtPush = {} /\ Pushed \cup AtPush \subseteq Submitter
  BY DEF Pushed, AtPush
<1>3. Cardinality(Pushed \cup AtPush)
         = Cardinality(Pushed) + Cardinality(AtPush) - Cardinality(Pushed \cap AtPush)
  BY SetsAreFinite, FS_Union
<1>4. Cardinality(Pushed \cap AtPush) = 0  BY <1>2, FS_EmptySet
<1>5. Cardinality(Pushed \cup AtPush) <= Cardinality(Submitter)  BY <1>2, FS_Subset
<1> QED  BY <1>1, <1>3, <1>4, <1>5, SetsAreFinite

Room == Cardinality(Pushed) + Cardinality(AtPush) <= Cardinality(Submitter)

\* The same, as a formula of its own.
LEMMA RoomHolds == Room
BY SubmittersCounted DEF Room

\* The queue is empty in the beginning.
LEMMA OverInit == Init => Over
<1> SUFFICES ASSUME Init PROVE Over  OBVIOUS
<1>1. Popped = {} /\ Pushed = {} /\ AtPush = {}  BY DEF Init, Popped, Pushed, AtPush
<1>2. Queued = 0 /\ lost = 0 /\ metrics_.accepted = 0  BY DEF Init, Queued
<1>3. Cardinality(Popped) = 0 /\ Cardinality(Pushed) = 0 /\ Cardinality(AtPush) = 0
  BY <1>1, FS_EmptySet
<1>4. Balance = 0  BY <1>2, <1>3 DEF Balance, Queued
<1> QED  BY <1>2, <1>3, <1>4, SubmittersCounted DEF Over, Excess

\* No more is counted as accepted than there are events, so the count is at least
\* what is in the queue and not lost.
LEMMA CountAtLeast ==
    ASSUME Base, MetricsAddUp, Track, Over
    PROVE  Balance - lost <= queuedApprox_
<1>1. Balance - lost \in Int  BY BalanceType DEF Base, TypeOK
<1>2. metrics_.accepted <= Cardinality(used)
  <2>1. metrics_.accepted + metrics_.full + metrics_.stopped + Cardinality(Deciding)
           = Cardinality(used)
    BY DEF MetricsAddUp, Deciding
  <2>2. SizesAre(Nat)  BY SizesAreNat
  <2> QED  BY <2>1, <2>2 DEF SizesAre
<1>3. Cardinality(used) <= Cardinality(Event)  BY SizeTypes DEF Base
<1>4. metrics_.accepted \in Nat /\ Cardinality(used) \in Nat  BY SizeTypes DEF Base
<1>5. Balance - lost < Wrap  BY <1>1, <1>2, <1>3, <1>4, WrapPositive DEF Over
<1> QED  BY <1>1, <1>5, ModLeast DEF Track

\* Who passes the check of the capacity has read a count below it (server.h:178-187).
LEMMA OverNext == Base /\ MetricsAddUp /\ Track /\ Over /\ [Next]_vars => Over'
<1> SUFFICES ASSUME Base, MetricsAddUp, Track, Over, [Next]_vars PROVE Over'  OBVIOUS
<1>0. SizesAre(Nat) /\ SizesAre(Nat)'  BY SizesStayNat
<1>1. Counted  BY StepCounts
<1>2. Base'  BY BaseNext
<1> DEFINE most == queue_capacity + Cardinality(Submitter)
<1>3. most \in Nat /\ lost \in Int /\ lost' \in Int /\ queue_capacity \in Nat
      /\ queuedApprox_ \in Nat /\ Cardinality(Submitter) \in Nat \ {0}
  <2>1. lost \in Int /\ lost' \in Int  BY <1>2 DEF Base, TypeOK
  <2>2. queuedApprox_ \in Nat  BY WrapPositive DEF Base, TypeOK
  <2>3. queue_capacity \in Nat /\ Cardinality(Submitter) \in Nat \ {0}
    BY SubmittersCounted
  <2>4. most \in Nat  BY <2>3
  <2> QED  BY <2>1, <2>2, <2>3, <2>4
<1>4. Balance = Queued + Cardinality(Popped) - Cardinality(Pushed)  BY DEF Balance, Queued
<1>5. Balance' = Queued' + Cardinality(Popped') - Cardinality(Pushed')
  BY DEF Balance, Queued
<1>6. Cardinality(Pushed') + Cardinality(AtPush') <= Cardinality(Submitter)
  <2>1. Room'  BY RoomHolds, PTL
  <2> QED  BY <2>1 DEF Room
<1>7. Balance - lost <= queuedApprox_  BY CountAtLeast
<1>8. Balance - lost <= metrics_.accepted  BY DEF Over
<1>9. Balance' - lost' <= metrics_'.accepted
  <2> USE <1>0, <1>3, <1>4, <1>5, <1>8 DEF Sizes, Marks, SizesAre
  <2>1. CASE CountStopped /\ lost' = lost  BY <2>1 DEF CountStopped
  <2>2. CASE CountEnters /\ lost' = lost  BY <2>2 DEF CountEnters
  <2>3. CASE CountTooDeep /\ lost' = lost  BY <2>3 DEF CountTooDeep
  <2>4. CASE CountLetIn /\ lost' = lost  BY <2>4 DEF CountLetIn
  <2>5. CASE CountAtLimit /\ lost' = lost  BY <2>5 DEF CountAtLimit
  <2>6. CASE CountPushed /\ lost' = lost  BY <2>6 DEF CountPushed
  <2>7. CASE CountPopped /\ lost' = lost  BY <2>7 DEF CountPopped
  <2>8. CASE CountDone /\ lost' = lost  BY <2>8 DEF CountDone
  <2>9. CASE CountNothing /\ lost' = lost  BY <2>9 DEF CountNothing
  <2>10. CASE CountAdded /\ lost' = lost  BY <2>10 DEF CountAdded
  <2>11. CASE CountTaken /\ lost' = lost  BY <2>11 DEF CountTaken
  <2>12. CASE CountLost
    <3>1. lost' = Balance /\ Balance \in Int  BY <2>12 DEF CountLost
    <3>2. /\ Queued' = Queued /\ Cardinality(Popped') = Cardinality(Popped)
          /\ Cardinality(Pushed') = Cardinality(Pushed)
      BY <2>12 DEF CountLost, CountNothing
    <3>3. Balance' = Balance  BY <3>2
    <3>4. metrics_'.accepted \in Nat  OBVIOUS
    <3> QED  BY ONLY <3>1, <3>3, <3>4
  <2> QED  BY <1>1, <2>1, <2>2, <2>3, <2>4, <2>5, <2>6, <2>7, <2>8, <2>9, <2>10, <2>11, <2>12
           DEF Counted
<1>10. ASSUME enable_backpressure
       PROVE  /\ Queued' + Cardinality(AtPush') < most + Excess'
              /\ queue_capacity = 0 => Queued' = 0 /\ Cardinality(AtPush') = 0
  <2>1. /\ Queued + Cardinality(AtPush) < most + Excess
        /\ queue_capacity = 0 => Queued = 0 /\ Cardinality(AtPush) = 0
    BY <1>10 DEF Over
  <2>2. Excess \in Nat /\ Excess' \in Nat /\ (lost' = lost => Excess' = Excess)
        /\ Excess >= lost /\ Excess' >= lost'
    BY <1>3 DEF Excess
  <2> HIDE DEF most
  <2> USE <1>0, <1>3, <2>1, <2>2 DEF Sizes, SizesAre
  <2>3. CASE CountStopped /\ lost' = lost  BY <2>3 DEF CountStopped
  <2>4. CASE CountEnters /\ lost' = lost  BY <1>10, <2>4 DEF CountEnters, One
  <2>5. CASE CountTooDeep /\ lost' = lost  BY <2>5 DEF CountTooDeep
  <2>6. CASE CountLetIn /\ lost' = lost
    <3>1. /\ Queued' = Queued /\ Cardinality(AtPush') = Cardinality(AtPush) + 1
          /\ Cardinality(Pushed') = Cardinality(Pushed) /\ queuedApprox_ < queue_capacity
      BY <2>6 DEF CountLetIn
    <3>2. Queued + Cardinality(Popped) - Cardinality(Pushed) - lost < queue_capacity
      BY <1>4, <1>7, <3>1
    <3>3. most = queue_capacity + Cardinality(Submitter)  BY DEF most
    <3> QED  BY <1>6, <2>6, <3>1, <3>2, <3>3
  <2>7. CASE CountAtLimit /\ lost' = lost  BY <2>7 DEF CountAtLimit
  <2>8. CASE CountPushed /\ lost' = lost  BY <2>8 DEF CountPushed
  <2>9. CASE CountPopped /\ lost' = lost  BY <2>9 DEF CountPopped
  <2>10. CASE CountDone /\ lost' = lost  BY <2>10 DEF CountDone
  <2>11. CASE CountNothing /\ lost' = lost  BY <2>11 DEF CountNothing
  <2>12. CASE CountAdded /\ lost' = lost  BY <2>12 DEF CountAdded
  <2>13. CASE CountTaken /\ lost' = lost  BY <2>13 DEF CountTaken
  <2>14. CASE CountLost
    <3>1. /\ Queued' = Queued /\ Cardinality(AtPush') = Cardinality(AtPush)
          /\ Cardinality(Pushed') = Cardinality(Pushed)
          /\ lost' = Queued + Cardinality(Popped) - Cardinality(Pushed)
      BY <1>4, <2>14 DEF CountLost, CountNothing
    <3>2. most = queue_capacity + Cardinality(Submitter)  BY DEF most
    <3>3. CASE queue_capacity = 0  BY <3>1, <3>2, <3>3
    <3>4. CASE queue_capacity > 0
      <4>1. Queued + Cardinality(AtPush') <= Cardinality(Submitter) + lost'  BY <1>6, <3>1
      <4> QED  BY <3>1, <3>2, <3>4, <4>1
    <3> QED  BY <3>3, <3>4
  <2> QED
    BY <1>1, <2>3, <2>4, <2>5, <2>6, <2>7, <2>8, <2>9, <2>10, <2>11, <2>12, <2>13, <2>14
    DEF Counted
<1> QED  BY <1>9, <1>10 DEF Over

\* The count does not wrap above, and the check of the capacity bounds the queue.
THEOREM OverHolds == Spec => []Over
<1>1. Init => Over  BY OverInit
<1>2. Base /\ MetricsAddUp /\ Track /\ Over /\ [Next]_vars => Over'  BY OverNext
<1> QED  BY <1>1, <1>2, BaseHolds, MetricsCorrect, TrackHolds, PTL DEF Spec

\* Backpressure keeps the queue below its capacity but for one event of each other
\* submitter and for what start() has not counted (server.h:178-195).
THEOREM OvershootCorrect == Spec => []OvershootBounded
<1>1. Base /\ Over => OvershootBounded
  <2> SUFFICES ASSUME Base, Over, enable_backpressure
               PROVE  Len(queue_) < queue_capacity + Cardinality(Submitter) + Excess
    BY DEF OvershootBounded, Excess
  <2>1. Queued + Cardinality(AtPush) < queue_capacity + Cardinality(Submitter) + Excess
    BY DEF Over
  <2>2. Queued \in Nat /\ Cardinality(AtPush) \in Nat /\ Excess \in Int
        /\ Cardinality(Submitter) \in Nat
    BY SizesAreNat, SubmittersCounted DEF SizesAre, Excess, Base, TypeOK
  <2>3. Queued < queue_capacity + Cardinality(Submitter) + Excess  BY <2>1, <2>2
  <2> QED  BY <2>3 DEF Queued
<1> QED  BY <1>1, BaseHolds, OverHolds, PTL

-----------------------------------------------------------------------------
(* The life of a server that is shut down in order *)

Calm == ~Had({"early", "forced", "late", "stray"})

Drained ==
    /\ queue_ = <<>>
    /\ \A w \in Worker : w_pc[w] # "sub"
    /\ \A s \in Submitter : ~Submitting(s)

\* As long as it is calm nobody is inside trySubmit when the state is not running, and
\* no worker leaves before the flag is raised and everything is out of the queue.
Orderly ==
    /\ lost = 0
    /\ shutdownMode_ = "graceful"
    /\ \A s \in Submitter : Submitting(s) => state_ = "running"
    /\ l_pc[Owner] = "store" => state_ # "running"
    /\ state_ = "running" /\ l_pc[Owner] # "clear" => ~stopRequested_
    /\ state_ = "running" /\ ~Starting
          => \A w \in Worker : w_pc[w] \notin {"mode?", "depth?", "exited"}
    /\ (\E w \in Worker : w_pc[w] = "exited") /\ l_pc[Owner] # "spawn" => Drained

Life == Calm => Orderly

\* A trySubmit that meets no start() under way finds workers that stay.
LEMMA SubmitLife ==
    ASSUME Base, Orderly, Calm', NEW s \in Submitter, NEW e \in Event, Submit(s, e)
    PROVE  Orderly'
<1> USE DEF Submit, SubmitGoes, lifeVars, workVars, callVars, Base, Orderly
<1>1. CASE state_ # "running"
  BY <1>1 DEF Starting, Drained, Submitting
<1>2. CASE state_ = "running"
  <2>1. l_pc[Owner] \notin {"clear", "count"}  BY <1>2 DEF Lapse, Calm, Had
  <2>2. ~((\E w \in Worker : w_pc[w] = "exited") /\ l_pc[Owner] # "spawn")
    BY <1>2, <2>1 DEF Starting
  <2>3. UNCHANGED <<lifeVars, l_pc, w_pc, lost>>  OBVIOUS
  <2> QED  BY <1>2, <2>1, <2>2, <2>3 DEF Starting
<1> QED  BY <1>1, <1>2

\* While somebody is inside trySubmit no worker has left.
LEMMA SubmitStepLife ==
    ASSUME Base, Orderly, Calm', NEW s \in Submitter, SubmitStep(s)
    PROVE  Orderly'
<1> USE DEF Base, Orderly
<1>1. UNCHANGED <<lifeVars, l_pc, lost>> /\ s_pc[s] # "idle"
  BY DEF SubmitStep, SubmitDepth, SubmitPush, SubmitAdd, SubmitNotify, callVars, histVars
<1>2. \A x \in Submitter : Submitting(x)' => Submitting(x)
  <2>1. PICK to \in {"idle", "push", "add", "notify"} : s_pc' = [s_pc EXCEPT ![s] = to]
    BY DEF SubmitStep, SubmitDepth, SubmitPush, SubmitAdd, SubmitNotify, SubmitReturns,
           SubmitGoes
  <2> QED  BY <1>1, <2>1 DEF TypeOK, Submitting
<1>3. \A w \in Worker : w_pc'[w] = w_pc[w] \/ (w_pc[w] = "wait" /\ w_pc'[w] = "lock")
  BY SubmitWakes
  DEF Wakes, SubmitStep, SubmitDepth, SubmitPush, SubmitAdd, workVars
<1>4. ~((\E w \in Worker : w_pc[w] = "exited") /\ l_pc[Owner] # "spawn")
  BY <1>1 DEF Drained, Submitting
<1>5. ~((\E w \in Worker : w_pc'[w] = "exited") /\ l_pc'[Owner] # "spawn")
  BY <1>1, <1>3, <1>4
<1> QED  BY <1>1, <1>2, <1>3, <1>5 DEF lifeVars, Starting

\* A worker that has something to do is not followed by one that leaves.
LEMMA WorkerWorksLife ==
    ASSUME Base, Orderly, Calm', NEW w \in Worker,
           WorkerPop(w) \/ WorkerSub(w) \/ WorkerProcess(w)
    PROVE  Orderly'
<1> USE DEF Base, Orderly
<1>1. UNCHANGED <<lifeVars, l_pc, lost, s_pc>>
  BY DEF WorkerPop, WorkerSub, WorkerProcess, callVars, histVars, subVars
<1>2. PICK to \in {"sub", "process", "pop"} :
        /\ w_pc' = [w_pc EXCEPT ![w] = to]
        /\ w_pc[w] \in {"pop", "sub", "process"}
        /\ to = "sub" => queue_ # <<>>
        /\ to = "process" => w_pc[w] = "sub"
        /\ to = "pop" => queue_' = queue_
  BY DEF WorkerPop, WorkerSub, WorkerProcess
<1>3. \A x \in Worker : w_pc'[x] = IF x = w THEN to ELSE w_pc[x]  BY <1>2 DEF TypeOK
<1>4. \A x \in Worker : w_pc'[x] = "exited" => w_pc[x] = "exited"  BY <1>3
<1>5. (\E x \in Worker : w_pc[x] = "exited") /\ l_pc[Owner] # "spawn" => Drained'
  BY <1>1, <1>2, <1>3 DEF Drained, Submitting
<1> QED  BY <1>1, <1>3, <1>4, <1>5 DEF lifeVars, Starting, Submitting

\* A count of zero on a server that is not running is the truth.
LEMMA ZeroIsDrained ==
    ASSUME Base, MetricsAddUp, Track, Over, Orderly, state_ # "running", queuedApprox_ = 0
    PROVE  Drained
<1>1. \A s \in Submitter : ~Submitting(s)  BY DEF Orderly
<1>2. Pushed = {}  BY <1>1 DEF Pushed, Submitting
<1>3. Cardinality(Pushed) = 0  BY <1>2, FS_EmptySet
<1>4. SizesAre(Nat)  BY SizesAreNat
<1>5. Balance - lost <= 0  BY CountAtLeast
<1>6. Balance = Queued + Cardinality(Popped) - Cardinality(Pushed)  BY DEF Balance, Queued
<1>7. Queued = 0 /\ Cardinality(Popped) = 0
  BY <1>3, <1>4, <1>5, <1>6 DEF SizesAre, Orderly
<1>8. Popped = {}  BY <1>7, SetsAreFinite, FS_EmptySet
<1>9. queue_ = <<>>  BY <1>7 DEF Queued, Base, TypeOK
<1> QED  BY <1>1, <1>8, <1>9 DEF Drained, Popped

\* A worker leaves only a drained server (shouldExitWorker, server.h:265-276).
LEMMA WorkerLooksLife ==
    ASSUME Base, MetricsAddUp, Track, Over, Orderly, Calm', NEW w \in Worker, WorkerLooks(w)
    PROVE  Orderly'
<1>1. PICK to \in WorkerPlaces : Look(w, to)  BY Looks DEF Base
<1>2. UNCHANGED <<state_, shutdownMode_, stopRequested_, queue_, l_pc, lost, s_pc>>
  BY Looks DEF Base, looked, lifeVars, callVars, histVars, subVars
<1>3. \A x \in Worker : w_pc'[x] = IF x = w THEN to ELSE w_pc[x]
  BY <1>1 DEF Look, Base, TypeOK
<1>4. to = "exited" => Drained
  <2> SUFFICES ASSUME to = "exited" PROVE Drained  OBVIOUS
  <2>1. w_pc[w] = "depth?" /\ queuedApprox_ = 0  BY <1>1 DEF Look, Orderly
  <2>2. w \in workers_ /\ ~Starting  BY <2>1 DEF Base, Joined
  <2>3. state_ # "running"  BY <2>1, <2>2 DEF Orderly
  <2> QED  BY <2>1, <2>3, ZeroIsDrained
<1>5. Drained => Drained'  BY <1>1, <1>2, <1>3 DEF Drained, Submitting, Look
<1>6. (\E x \in Worker : w_pc'[x] = "exited") /\ l_pc'[Owner] # "spawn" => Drained'
  BY <1>2, <1>3, <1>4, <1>5 DEF Orderly
<1>7. state_' = "running" /\ ~Starting'
         => \A x \in Worker : w_pc'[x] \notin {"mode?", "depth?", "exited"}
  <2> SUFFICES ASSUME state_ = "running", ~Starting
               PROVE  to \notin {"mode?", "depth?", "exited"}
    BY <1>2, <1>3 DEF Starting, Orderly
  <2>1. ~stopRequested_  BY DEF Orderly, Starting
  <2>2. w_pc[w] \notin {"mode?", "depth?", "exited"}  BY DEF Orderly
  <2> QED  BY <1>1, <2>1, <2>2 DEF Look
<1> QED  BY <1>2, <1>6, <1>7 DEF Orderly, Submitting

\* The steps of the owner keep the server where its state says it is.
LEMMA OwnerLife ==
    ASSUME Base, Orderly, Calm', Start \/ Wait \/ OwnerStep
    PROVE  Orderly'
<1>0. Owner \in Caller  BY DEF Caller
<1>1. UNCHANGED <<queue_, s_pc>> /\ l_pc' \in [Caller -> CallPlaces]
  BY <1>0, CallMoves
  DEF Start, Wait, OwnerStep, StartClear, StartCount, StartSpawn, WaitJoin, WaitStore,
      CallPlaces, Base
<1>2. workers_ = {} => (\E w \in Worker : w_pc[w] = "exited")
  BY DEF Base, Joined
<1>3. w_pc' = w_pc => (Drained => Drained')  BY <1>1 DEF Drained, Submitting
<1> USE DEF Submitting
<1>4. CASE Start
  <2>1. /\ state_ \in {"created", "stopped"} /\ state_' = "running"
        /\ UNCHANGED <<shutdownMode_, stopRequested_, w_pc, lost>>
        /\ CallGoes(Owner, "idle", "clear")
    BY <1>4 DEF Start, workVars, histVars
  <2>2. l_pc[Owner] = "idle" /\ l_pc'[Owner] = "clear"
    BY <1>0, <2>1, CallMoves DEF CallPlaces, Base
  <2>3. Drained  BY <1>2, <2>1, <2>2 DEF Base, Joined, Orderly
  <2> QED  BY <1>1, <1>3, <2>1, <2>2, <2>3 DEF Orderly, Starting
<1>5. CASE Wait
  <2>1. /\ UNCHANGED <<state_, shutdownMode_, stopRequested_, w_pc, lost>>
        /\ CallGoes(Owner, "idle", "join")
    BY <1>5 DEF Wait, workVars, histVars, lifeVars
  <2>2. l_pc[Owner] = "idle" /\ l_pc'[Owner] = "join"
    BY <1>0, <2>1, CallMoves DEF CallPlaces, Base
  <2> QED  BY <1>1, <1>3, <2>1, <2>2 DEF Orderly, Starting
<1>6. CASE StartClear
  <2>1. /\ UNCHANGED <<state_, shutdownMode_, w_pc, lost>> /\ stopRequested_' = FALSE
        /\ CallGoes(Owner, "clear", "count")
    BY <1>6 DEF StartClear, workVars, histVars
  <2>2. l_pc[Owner] = "clear" /\ l_pc'[Owner] = "count"
    BY <1>0, <2>1, CallMoves DEF CallPlaces, Base
  <2> QED  BY <1>1, <1>3, <2>1, <2>2 DEF Orderly, Starting
<1>7. CASE StartCount
  <2>1. /\ UNCHANGED <<state_, shutdownMode_, stopRequested_, w_pc>> /\ lost' = Balance
        /\ CallGoes(Owner, "count", "spawn")
    BY <1>7 DEF StartCount, workVars, lifeVars
  <2>2. l_pc[Owner] = "count" /\ l_pc'[Owner] = "spawn"
    BY <1>0, <2>1, CallMoves DEF CallPlaces, Base
  <2>3. Drained  BY <1>2, <2>2 DEF Base, Joined, Starting, Orderly
  <2>4. Popped = {} /\ Pushed = {} /\ queue_ = <<>>  BY <2>3 DEF Drained, Popped, Pushed
  <2>5. Len(queue_) = 0 /\ Cardinality(Popped) = 0 /\ Cardinality(Pushed) = 0
    BY <2>4, FS_EmptySet
  <2>6. Balance = 0  BY <2>5 DEF Balance
  <2> QED  BY <1>1, <1>3, <2>1, <2>2, <2>6 DEF Orderly, Starting
<1>8. CASE StartSpawn
  <2>1. /\ UNCHANGED <<state_, shutdownMode_, stopRequested_, lost>>
        /\ w_pc' = [w \in Worker |-> "pop"]
        /\ CallGoes(Owner, "spawn", "idle")
    BY <1>8 DEF StartSpawn, histVars, lifeVars
  <2>2. l_pc[Owner] = "spawn" /\ l_pc'[Owner] = "idle"
    BY <1>0, <2>1, CallMoves DEF CallPlaces, Base
  <2>3. \A w \in Worker : w_pc'[w] = "pop"  BY <2>1
  <2> QED  BY <1>1, <2>1, <2>2, <2>3 DEF Orderly, Starting
<1>9. CASE WaitJoin
  <2>1. /\ UNCHANGED <<state_, shutdownMode_, stopRequested_, w_pc, lost>>
        /\ CallGoes(Owner, "join", "store") /\ \A w \in workers_ : w_pc[w] = "exited"
    BY <1>9 DEF WaitJoin, histVars, lifeVars
  <2>2. l_pc[Owner] = "join" /\ l_pc'[Owner] = "store"
    BY <1>0, <2>1, CallMoves DEF CallPlaces, Base
  <2>3. \A w \in Worker : w_pc[w] = "exited"  BY <2>1 DEF Base, Joined
  <2>4. state_ # "running"  BY <2>2, <2>3 DEF Orderly, Starting
  <2> QED  BY <1>1, <1>3, <2>1, <2>2, <2>4 DEF Orderly, Starting
<1>10. CASE WaitStore
  <2>1. /\ UNCHANGED <<shutdownMode_, stopRequested_, w_pc, lost>> /\ state_' = "stopped"
        /\ CallGoes(Owner, "store", "idle")
    BY <1>10 DEF WaitStore, workVars, histVars
  <2>2. l_pc[Owner] = "store" /\ l_pc'[Owner] = "idle"
    BY <1>0, <2>1, CallMoves DEF CallPlaces, Base
  <2> QED  BY <1>1, <1>3, <2>1, <2>2 DEF Orderly, Starting
<1> QED  BY <1>4, <1>5, <1>6, <1>7, <1>8, <1>9, <1>10 DEF OwnerStep

\* What the order needs of a step that moves only a caller inside shutdown().
LEMMA ShutdownLife ==
    ASSUME Base, Orderly, Calm', NEW t \in Caller,
           ShutdownStep(t) \/ \E mode \in Mode : Shutdown(t, mode)
    PROVE  Orderly'
<1>0. Owner \in Caller  BY DEF Caller
<1>1. UNCHANGED <<queue_, s_pc>>
  BY DEF ShutdownStep, ShutdownCheck, ShutdownState, ShutdownFlag, ShutdownNotify, Shutdown,
         CallGoes, subVars
<1>2. /\ l_pc[t] \in {"idle", "check", "stopping", "flag", "notify"}
      /\ l_pc'[Owner] = l_pc[Owner]
         \/ (Owner = t /\ l_pc'[Owner] \in {"idle", "check", "stopping", "flag", "notify"})
  <2>1. PICK to \in {"idle", "check", "stopping", "flag", "notify"} : CallGoes(t, l_pc[t], to)
    BY Zenon DEF ShutdownStep, ShutdownCheck, ShutdownState, ShutdownFlag, ShutdownNotify,
                 Shutdown, CallGoes
  <2>2. l_pc[t] \in {"idle", "check", "stopping", "flag", "notify"}
    BY DEF ShutdownStep, ShutdownCheck, ShutdownState, ShutdownFlag, ShutdownNotify,
           Shutdown, CallGoes
  <2>3. l_pc' = [l_pc EXCEPT ![t] = to] /\ Owner \in DOMAIN l_pc
    BY <1>0, <2>1 DEF CallGoes, Base, TypeOK
  <2> QED  BY <2>2, <2>3, Zenon
<1>3. /\ l_pc'[Owner] = "clear" <=> l_pc[Owner] = "clear"
      /\ l_pc'[Owner] = "spawn" <=> l_pc[Owner] = "spawn"
      /\ l_pc'[Owner] = "store" <=> l_pc[Owner] = "store"
      /\ Starting' <=> Starting
  <2> DEFINE Owns == {"clear", "count", "spawn", "store"}
  <2>1. \/ l_pc'[Owner] \notin Owns /\ l_pc[Owner] \notin Owns
        \/ l_pc'[Owner] = l_pc[Owner]
    BY <1>2
  <2> QED  BY <2>1, Zenon DEF Starting
<1>4. w_pc' = w_pc => (Drained => Drained')  BY <1>1 DEF Drained, Submitting
<1>5. ASSUME NEW mode \in Mode, Shutdown(t, mode) PROVE Orderly'
  <2>1. /\ UNCHANGED <<state_, stopRequested_, w_pc, lost>> /\ shutdownMode_' = mode
        /\ mode # "force"
    BY <1>5 DEF Shutdown, workVars, Lapse, Calm, Had
  <2> QED  BY <1>1, <1>3, <1>4, <2>1 DEF Orderly, Submitting
<1>6. CASE ShutdownCheck(t)
  <2>1. UNCHANGED <<state_, shutdownMode_, stopRequested_, w_pc, lost>>
    BY <1>6 DEF ShutdownCheck, workVars, histVars, lifeVars
  <2> QED  BY <1>1, <1>3, <1>4, <2>1 DEF Orderly, Submitting
<1>7. CASE ShutdownState(t)
  <2>1. /\ UNCHANGED <<shutdownMode_, stopRequested_, w_pc, lost>> /\ state_' = "stopping"
        /\ \A s \in Submitter : ~Submitting(s)
    BY <1>7 DEF ShutdownState, workVars, Lapse, Calm, Had
  <2> QED  BY <1>1, <1>3, <1>4, <2>1 DEF Orderly, Submitting
<1>8. CASE ShutdownFlag(t)
  <2>1. /\ UNCHANGED <<state_, shutdownMode_, w_pc, lost>> /\ stopRequested_' = TRUE
        /\ l_pc[Owner] # "clear" => state_ # "running"
    BY <1>8 DEF ShutdownFlag, workVars, Calm, Had
  <2> QED  BY <1>1, <1>3, <1>4, <2>1 DEF Orderly, Submitting
<1>9. CASE ShutdownNotify(t)
  <2>1. UNCHANGED <<state_, shutdownMode_, stopRequested_, lost>> /\ Wakes
    BY <1>9, ShutdownWakes DEF ShutdownNotify, lifeVars, Base
  <2>2. \A w \in Worker : w_pc'[w] = w_pc[w] \/ (w_pc[w] = "wait" /\ w_pc'[w] = "lock")
    BY <2>1 DEF Wakes
  <2>3. Drained => Drained'  BY <1>1, <2>2 DEF Drained, Submitting
  <2> QED  BY <1>1, <1>3, <2>1, <2>2, <2>3 DEF Orderly, Submitting
<1> QED  BY <1>5, <1>6, <1>7, <1>8, <1>9 DEF ShutdownStep

\* A lapse is not forgotten.
LEMMA LapsesStay == [Next]_vars => lapse \subseteq lapse'
<1>1. ASSUME NEW s \in Submitter, NEW e \in Event, Submit(s, e) PROVE lapse \subseteq lapse'
  BY <1>1 DEF Submit, Lapse
<1>2. ASSUME NEW s \in Submitter, SubmitStep(s) PROVE lapse \subseteq lapse'
  BY <1>2 DEF SubmitStep, SubmitDepth, SubmitPush, SubmitAdd, SubmitNotify, Lapse, histVars
<1>3. ASSUME NEW w \in Worker, WorkerStep(w) \/ Spurious(w) PROVE lapse \subseteq lapse'
  BY <1>3 DEF WorkerStep, WorkerPop, WorkerSub, WorkerProcess, WorkerIdle, WorkerAskStop,
              WorkerAskMode, WorkerAskDepth, WorkerLock, WorkerQueued, WorkerStopping,
              WorkerBlock, Spurious, WorkerGoes, histVars
<1>4. CASE Start \/ Wait \/ OwnerStep
  BY <1>4 DEF Start, Wait, OwnerStep, StartClear, StartCount, StartSpawn, WaitJoin, WaitStore,
              histVars
<1>5. ASSUME NEW t \in Caller, ShutdownStep(t) PROVE lapse \subseteq lapse'
  BY <1>5 DEF ShutdownStep, ShutdownCheck, ShutdownState, ShutdownFlag, ShutdownNotify, Lapse,
              histVars
<1>6. ASSUME NEW t \in Caller, NEW mode \in Mode, Shutdown(t, mode)
      PROVE  lapse \subseteq lapse'
  BY <1>6 DEF Shutdown, Lapse
<1>7. UNCHANGED vars => lapse \subseteq lapse'  BY DEF vars, histVars
<1> QED  BY <1>1, <1>2, <1>3, <1>4, <1>5, <1>6, <1>7 DEF Next

\* A Server that was just constructed is in order.
LEMMA LifeInit == Init => Life
BY DEF Init, Life, Orderly, Drained, Submitting, Starting, Caller

\* Every step that is no lapse keeps the order.
LEMMA LifeNext ==
    Base /\ MetricsAddUp /\ Track /\ Over /\ Life /\ [Next]_vars => Life'
<1> SUFFICES ASSUME Base, MetricsAddUp, Track, Over, Life, [Next]_vars, Calm'
             PROVE  Orderly'
  BY DEF Life
<1>1. Orderly  BY LapsesStay DEF Life, Calm, Had
<1>2. ASSUME NEW s \in Submitter, SubmitStep(s) \/ \E e \in Event : Submit(s, e)
      PROVE  Orderly'
  BY <1>1, <1>2, SubmitLife, SubmitStepLife
<1>3. ASSUME NEW w \in Worker, WorkerStep(w) \/ Spurious(w) PROVE Orderly'
  BY <1>1, <1>3, WorkerWorksLife, WorkerLooksLife DEF WorkerStep, WorkerLooks
<1>4. CASE Start \/ Wait \/ OwnerStep  BY <1>1, <1>4, OwnerLife
<1>5. ASSUME NEW t \in Caller, ShutdownStep(t) \/ \E mode \in Mode : Shutdown(t, mode)
      PROVE  Orderly'
  BY <1>1, <1>5, ShutdownLife
<1>6. CASE UNCHANGED vars
  BY <1>1, <1>6 DEF Orderly, Drained, Submitting, Starting, vars, lifeVars, subVars, workVars,
                    callVars, histVars
<1> QED  BY <1>2, <1>3, <1>4, <1>5, <1>6 DEF Next

\* A server that is shut down in order stays in order.
THEOREM LifeHolds == Spec => []Life
<1>1. Init => Life  BY LifeInit
<1>2. Base /\ MetricsAddUp /\ Track /\ Over /\ Life /\ [Next]_vars => Life'  BY LifeNext
<1> QED  BY <1>1, <1>2, BaseHolds, MetricsCorrect, TrackHolds, OverHolds, PTL DEF Spec

\* queuedApprox_ is the length of the queue but for those between their push or pop
\* and the count, and start() writes nothing over unless one of the four lapses came
\* before (server.h:107, 197, 261).
THEOREM DepthCorrect == Spec => []DepthTracksQueue
<1>1. Track /\ Life => DepthTracksQueue  BY DEF Track, Life, Orderly, Calm, DepthTracksQueue
<1> QED  BY <1>1, TrackHolds, LifeHolds, PTL

\* A stopped server has no worker, and nothing in its queue unless one of the four
\* lapses came before (server.h:136-151, 265-276).
THEOREM StoppedCorrect == Spec => []StoppedIsDrained
<1>1. Base /\ Life => StoppedIsDrained
  <2> SUFFICES ASSUME Base, Life, state_ = "stopped"
               PROVE  /\ \A w \in Worker : w_pc[w] = "exited"
                      /\ queue_ # <<>> => ~Calm
    BY DEF StoppedIsDrained, Calm
  <2>1. \A w \in Worker : w_pc[w] = "exited"  BY DEF Base, Joined
  <2>2. l_pc[Owner] # "spawn"  BY DEF Base, Joined, Starting
  <2>3. Calm => Drained  BY <2>1, <2>2 DEF Life, Orderly
  <2> QED  BY <2>1, <2>3 DEF Drained
<1> QED  BY <1>1, BaseHolds, LifeHolds, PTL
=============================================================================
