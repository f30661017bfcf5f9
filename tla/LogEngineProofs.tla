--------------------------- MODULE LogEngineProofs ---------------------------
(***************************************************************************)
(* Proofs about the engine as a whole, for any number of producers,        *)
(* records, calls and shutdowns.  Every variable keeps its type also where *)
(* a shutdown overlaps enqueue() and where a stale CAS has succeeded.  Who *)
(* keeps the two calls apart never reaches std::terminate; with one        *)
(* producer no stale CAS ever succeeds.  Until a stale CAS succeeds or a   *)
(* thread works on the records of a freed pool, which does not happen      *)
(* before the second start, each record is in one place, shutdown() drains *)
(* the queue unless a start has thrown, and the engine implements          *)
(* LogService.                                                             *)
(***************************************************************************)
EXTENDS LogEngine, LockFreeProofs, FiniteSetTheorems, TLAPS

USE LogRecordAssumption DEF LogRecordAssumption

\* The threads and the bounds.
LEMMA Bounds ==
    /\ Producer \subseteq Thread /\ Worker \in Thread /\ Worker \notin Producer
    /\ Thread = Producer \cup {Worker}
    /\ PoolSize \in Nat \ {0} /\ Logs \in Nat /\ Shutdowns \in Nat /\ Quiet \in BOOLEAN
    /\ Pools = Shutdowns + 1
BY LogEngineAssumption DEF LogEngineAssumption, Pools

-----------------------------------------------------------------------------
(* The two structures *)

\* A call of the free list keeps its types, and try_pop returns a record.
LEMMA FreeListTypes ==
    ASSUME FreeListTypeOK, NEW t \in Thread,
           \/ PopLoad(t) \/ PopLoadNull(t) \/ PopStep(t) \/ PopRetryNull(t) \/ PopCas(t)
           \/ PushStep(t) \/ PushCas(t) \/ \E n \in Record : PushLoad(t, n)
    PROVE  FreeListTypeOK' /\ (PopCas(t) => fl_h[t] \in Record)
<1> USE DEF FreeListTypeOK, FreePtr, FlPc, Popping, Pushing
<1>1. CASE PopLoad(t)  BY <1>1 DEF PopLoad, PopCas
<1>2. CASE PopLoadNull(t)  BY <1>2 DEF PopLoadNull, PopCas, flVars
<1>3. CASE PopRead(t)  BY <1>3 DEF PopRead, PopCas
<1>4. CASE PopRetry(t)  BY <1>4 DEF PopRetry, PopCas
<1>5. CASE PopRetryNull(t)  BY <1>5 DEF PopRetryNull, PopCas, Return
<1>6. CASE PopCas(t)
  <2>1. free_stack' \in Seq(Record)  BY <1>6 DEF PopCas
  <2> QED  BY <1>6, <2>1 DEF PopCas, Return
<1>7. CASE PushLink(t)  BY <1>7 DEF PushLink, PopCas
<1>8. CASE PushRetry(t)  BY <1>8 DEF PushRetry, PopCas
<1>9. CASE PushCas(t)
  <2>1. fl_n[t] \in Record  BY <1>9 DEF PushCas
  <2>2. <<fl_n[t]>> \o free_stack \in Seq(Record)
    <3>1. <<fl_n[t]>> \in Seq(Record) /\ free_stack \in Seq(Record)  BY <2>1
    <3> QED  BY <3>1
  <2>3. <<>> \in Seq(Record)  OBVIOUS
  <2>4. free_stack' \in Seq(Record)  BY <1>9, <2>2, <2>3 DEF PushCas
  <2> QED  BY <1>9, <2>1, <2>4 DEF PushCas, PopCas, Return
<1>10. CASE \E n \in Record : PushLoad(t, n)  BY <1>10 DEF PushLoad, PopCas
<1> QED  BY <1>1, <1>2, <1>3, <1>4, <1>5, <1>6, <1>7, <1>8, <1>9, <1>10
            DEF PopStep, PushStep

\* A producer's part of the queue keeps its types if the push has a record.
LEMMA PushTypes ==
    ASSUME MpscQueueTypeOK, NEW t \in Thread, q_pc[t] = "swap" => q_n[t] \in Record,
           QSwap(t) \/ QLink(t) \/ \E n \in Record : QClear(t, n)
    PROVE  MpscQueueTypeOK'
<1> USE DEF MpscQueueTypeOK, FreePtr, MpscPtr, MpscNode
<1>1. CASE QSwap(t)
  <2>1. fifo' \in Seq(Record)  BY <1>1 DEF QSwap
  <2> QED  BY <1>1, <2>1 DEF QSwap
<1>2. CASE QLink(t)  BY <1>2 DEF QLink
<1>3. CASE \E n \in Record : QClear(t, n)  BY <1>3 DEF QClear
<1> QED  BY <1>1, <1>2, <1>3

\* So does the worker's, and it leaves the pushes alone.
LEMMA PopTypes ==
    ASSUME MpscQueueTypeOK,
           \/ QPop \/ QPopSpun \/ QPopMiss \/ QPopBusy \/ QPopEmpty
           \/ QEmptyNo \/ QEmptyMiss \/ QEmptyYes \/ QEmptyBusy \/ QResetStub \/ QResetTail
    PROVE  /\ MpscQueueTypeOK' /\ UNCHANGED <<q_pc, q_n, q_prev>>
           /\ QPop \/ QPopSpun => NextOfHead \in Record
<1> USE DEF MpscQueueTypeOK, FreePtr, MpscPtr, MpscNode
<1>1. CASE QPop \/ QPopSpun
  <2>1. Advance  BY <1>1 DEF QPop, QPopSpun
  <2>2. fifo' \in Seq(Record)  BY <2>1 DEF Advance
  <2> QED  BY <2>1, <2>2 DEF Advance, NextOfHead
<1>2. CASE QResetStub  BY <1>2 DEF QResetStub, QPop, QPopSpun, Advance, NextOfHead
<1>3. CASE QResetTail
  <2>1. fifo' \in Seq(Record)  BY <1>3 DEF QResetTail
  <2> QED  BY <1>3, <2>1 DEF QResetTail, QPop, QPopSpun, Advance, NextOfHead
<1>4. CASE \/ QPopMiss \/ QPopBusy \/ QPopEmpty
           \/ QEmptyNo \/ QEmptyMiss \/ QEmptyYes \/ QEmptyBusy
  <2>1. /\ UNCHANGED <<tail_, head_, next, q_pc, q_n, q_prev, fifo>>
        /\ c_pc' \in {"idle", "pop_tail", "pop_spin", "empty_tail", "reset_tail"}
    BY <1>4 DEF QPopMiss, QPopBusy, QPopEmpty, QEmptyNo, QEmptyMiss, QEmptyYes,
                QEmptyBusy, ConsumerGoes
  <2> QED  BY <1>1, <2>1
<1> QED  BY <1>1, <1>2, <1>3, <1>4

-----------------------------------------------------------------------------
(* The types of the engine *)

USE Bounds

\* What a producer has at each place of enqueue().
Equipped(t) ==
    /\ e_pc[t] # "idle" => calls[t] >= 1
    /\ e_pc[t] \in {"store", "queue"} => e_rec[t] \in Record
    /\ e_pc[t] \in {"fill", "filling"} => pool >= 1 /\ e_i[t] >= 1
    /\ e_pc[t] = "filling" => e_i[t] <= PoolSize
    /\ q_pc[t] = "swap" => q_n[t] \in Record

\* What the worker has at each place of worker_loop().
WorkerEquipped ==
    /\ w_pc = "recycle" => pending_recycle # NULL
    /\ w_stage = "last" => w_pc \in {"none", "recycle", "recycling", "done"}
    /\ w_pc = "submit" \/ (w_pc \in {"recycle", "recycling"} /\ w_stage # "last")
          => w_rec \in Record
    /\ q_pc[Worker] = "idle"

\* A start is paid for by a shutdown, the first one excepted.
Starting == {t \in Producer : e_pc[t] = "alloc"}
StartsPaid ==
    /\ IsFiniteSet(Starting)
    /\ pool + Cardinality(Starting) + (IF run_ THEN 0 ELSE 1) <= closes + 1

EngineInv ==
    /\ TypeOK
    /\ \A t \in Producer : Equipped(t)
    /\ WorkerEquipped
    /\ StartsPaid

\* A program that has not logged yet satisfies the invariant.
LEMMA EngineInitInv == Init => EngineInv
<1> SUFFICES ASSUME Init PROVE EngineInv  OBVIOUS
<1> USE DEF Init
<1>1. FreeListTypeOK
  <2>1. free_stack \in Seq(Record)  BY DEF FreeListInit
  <2> QED  BY <2>1 DEF FreeListInit, FreeListTypeOK, FreePtr, FlPc, Popping, Pushing
<1>2. MpscQueueTypeOK
  <2>1. fifo \in Seq(Record)  BY DEF MpscQueueInit
  <2> QED  BY <2>1 DEF MpscQueueInit, MpscQueueTypeOK, FreePtr, MpscPtr, MpscNode
<1>3. output \in Seq(Msg \cup {NoMsg})  OBVIOUS
<1>4. TypeOK
  <2>1. 0 \in 0..Pools /\ 0 \in 0..PoolSize + 1 /\ 0 \in 0..Logs /\ 0 \in 0..Shutdowns
    OBVIOUS
  <2> QED  BY <1>1, <1>2, <1>3, <2>1 DEF TypeOK, FreePtr
<1>5. Starting = {}  BY DEF Starting
<1>6. StartsPaid  BY <1>5, FS_EmptySet DEF StartsPaid
<1>7. \A t \in Producer : Equipped(t)  BY DEF Equipped, MpscQueueInit
<1>8. WorkerEquipped  BY DEF WorkerEquipped, MpscQueueInit
<1> QED  BY <1>4, <1>6, <1>7, <1>8 DEF EngineInv

\* The types of what the engine adds to the two structures.
EngineTypeOK ==
    /\ run_ \in BOOLEAN /\ pool \in 0..Pools /\ worker_ \in {"none", "joinable"}
    /\ dropped_ \in Nat /\ enqueued_ \in Nat /\ written_ \in Nat
    /\ storage \in [Record -> Msg \cup {NoMsg}]
    /\ e_pc \in [Producer -> {"idle", "alloc", "fill", "filling", "acquire",
                              "store", "queue", "count"}]
    /\ e_i \in [Producer -> 0..PoolSize + 1]
    /\ e_rec \in [Producer -> FreePtr]
    /\ w_pc \in {"none", "loop", "empty", "pop", "recycle", "recycling",
                 "submit", "reset", "done"}
    /\ w_stage \in {"main", "drain", "last"}
    /\ w_rec \in FreePtr /\ pending_recycle \in FreePtr
    /\ s_pc \in [Closer -> {"idle", "joinable", "join"}]
    /\ calls \in [Producer -> 0..Logs] /\ closes \in 0..Shutdowns
    /\ thrown \in Nat
    /\ output \in Seq(Msg \cup {NoMsg})
    /\ terminated \in BOOLEAN

\* The types of the engine are those of its three parts.
LEMMA TypesNext ==
    ASSUME FreeListTypeOK', MpscQueueTypeOK', EngineTypeOK' PROVE TypeOK'
BY DEF TypeOK, EngineTypeOK

\* What the other producers have is not touched by a step of t.
LEMMA OthersEquipped ==
    ASSUME EngineInv, NEW t \in Producer, NEW u \in Producer, u # t,
           e_pc'[u] = e_pc[u], e_i'[u] = e_i[u], e_rec'[u] = e_rec[u],
           calls'[u] = calls[u], q_pc'[u] = q_pc[u], q_n'[u] = q_n[u],
           pool' \in Nat, pool' >= pool
    PROVE  Equipped(u)'
BY DEF EngineInv, TypeOK, Equipped

\* Nor by a step of the worker or of a closer.
LEMMA ProducersEquipped ==
    ASSUME EngineInv, UNCHANGED <<e_pc, e_i, e_rec, calls, q_pc, q_n, pool>>
    PROVE  \A u \in Producer : Equipped(u)'
BY DEF EngineInv, Equipped

\* Who starts nothing pays for nothing.
LEMMA StartsKept ==
    ASSUME EngineInv, UNCHANGED <<pool, run_, closes>>, Starting' = Starting
    PROVE  StartsPaid'
BY DEF EngineInv, StartsPaid

-----------------------------------------------------------------------------
(* enqueue() *)

\* A start that sets run_ has the shutdown that cleared it to pay for it.
LEMMA EnsureRunningInv ==
    ASSUME EngineInv, NEW t \in Producer, EnsureRunning(t) PROVE EngineInv'
<1> USE DEF EngineInv, EnsureRunning, Goto
<1>1. FreeListTypeOK' /\ MpscQueueTypeOK'
  BY DEF TypeOK, flVars, queueVars, FreeListTypeOK, MpscQueueTypeOK, Popping, Pushing
<1>2. EngineTypeOK'
  BY DEF TypeOK, EngineTypeOK, counters, workerVars
<1>3. WorkerEquipped'  BY DEF WorkerEquipped, workerVars, queueVars
<1>4. \A u \in Producer : Equipped(u)'
  <2>1. Equipped(t)'  BY DEF Equipped, TypeOK, queueVars
  <2>2. ASSUME NEW u \in Producer, u # t PROVE Equipped(u)'
    BY <2>2, OthersEquipped DEF TypeOK, queueVars
  <2> QED  BY <2>1, <2>2
<1>5. StartsPaid'
  <2>1. CASE run_
    <3>1. Starting' = Starting  BY <2>1 DEF Starting, TypeOK
    <3> QED  BY <2>1, <3>1 DEF StartsPaid
  <2>2. CASE ~run_
    <3>1. Starting' = Starting \cup {t} /\ t \notin Starting
      BY <2>2 DEF Starting, TypeOK
    <3>2. IsFiniteSet(Starting') /\ Cardinality(Starting') = Cardinality(Starting) + 1
      BY <3>1, FS_AddElement DEF StartsPaid
    <3>3. Cardinality(Starting) \in Nat  BY FS_CardinalityType DEF StartsPaid
    <3> QED  BY <2>2, <3>2, <3>3 DEF StartsPaid, TypeOK
  <2> QED  BY <2>1, <2>2
<1> QED  BY <1>1, <1>2, <1>3, <1>4, <1>5, TypesNext

\* So there is a slot for the new pool.
LEMMA AllocPoolInv ==
    ASSUME EngineInv, NEW t \in Producer, AllocPool(t) PROVE EngineInv'
<1> USE DEF EngineInv, AllocPool, Goto
<1>1. FreeListTypeOK' /\ MpscQueueTypeOK'
  BY DEF TypeOK, flVars, queueVars, FreeListTypeOK, MpscQueueTypeOK, Popping, Pushing
<1>2. /\ Starting' = Starting \ {t} /\ t \in Starting
      /\ pool \in Nat /\ pool' = pool + 1 /\ run_' = run_ /\ closes' = closes
      /\ closes \in 0..Shutdowns
  BY DEF Starting, TypeOK
<1>3. IsFiniteSet(Starting') /\ Cardinality(Starting') = Cardinality(Starting) - 1
  BY <1>2, FS_RemoveElement DEF StartsPaid
<1>4. Cardinality(Starting) \in Nat /\ Cardinality(Starting') \in Nat
  BY <1>3, FS_CardinalityType DEF StartsPaid
<1>5. pool' \in 0..Pools  BY <1>2, <1>3, <1>4 DEF StartsPaid, Pools
<1>6. EngineTypeOK'
  BY <1>5 DEF TypeOK, EngineTypeOK, counters, workerVars
<1>7. WorkerEquipped'  BY DEF WorkerEquipped, workerVars, queueVars
<1>8. \A u \in Producer : Equipped(u)'
  <2>1. Equipped(t)'  BY DEF Equipped, TypeOK, queueVars
  <2>2. ASSUME NEW u \in Producer, u # t PROVE Equipped(u)'
    BY <1>2, <2>2, OthersEquipped DEF TypeOK, queueVars
  <2> QED  BY <2>1, <2>2
<1>9. StartsPaid'  BY <1>2, <1>3, <1>4 DEF StartsPaid
<1> QED  BY <1>1, <1>6, <1>7, <1>8, <1>9, TypesNext

\* A start that fails has been paid for all the same.
LEMMA StartThrowsInv ==
    ASSUME EngineInv, NEW t \in Producer, StartThrows(t) PROVE EngineInv'
<1> USE DEF EngineInv, StartThrows, Goto
<1>1. FreeListTypeOK' /\ MpscQueueTypeOK'
  BY DEF TypeOK, flVars, queueVars, FreeListTypeOK, MpscQueueTypeOK, Popping, Pushing
<1>2. /\ e_pc' = [e_pc EXCEPT ![t] = "idle"] /\ e_pc[t] \in {"alloc", "fill"}
      /\ UNCHANGED <<run_, pool, closes, calls, q_pc, q_n, e_i, e_rec>> /\ pool \in Nat
  <2>1. pool \in Nat  BY DEF TypeOK
  <2>2. UNCHANGED <<q_pc, q_n>>  BY DEF queueVars
  <2> QED  BY <2>1, <2>2
<1>3. EngineTypeOK'
  <2>1. e_pc' \in [Producer -> {"idle", "alloc", "fill", "filling", "acquire", "store",
                                "queue", "count"}]
        /\ thrown' \in Nat
    BY <1>2 DEF TypeOK
  <2>2. UNCHANGED <<counters, run_, pool, worker_, s_pc, closes, terminated, storage, e_i,
                    e_rec, calls, workerVars>>
    OBVIOUS
  <2> HIDE DEF StartThrows, Goto
  <2> QED  BY <2>1, <2>2 DEF TypeOK, EngineTypeOK, counters, workerVars
<1>4. WorkerEquipped'  BY DEF WorkerEquipped, workerVars, queueVars
<1>5. \A u \in Producer : Equipped(u)'
  <2>1. Equipped(t)'  BY <1>2 DEF Equipped, TypeOK
  <2>2. ASSUME NEW u \in Producer, u # t PROVE Equipped(u)'
    BY <1>2, <2>2, OthersEquipped DEF TypeOK
  <2> QED  BY <2>1, <2>2
<1>6. StartsPaid'
  <2>1. CASE e_pc[t] = "alloc"
    <3>1. Starting' = Starting \ {t} /\ t \in Starting  BY <1>2, <2>1 DEF Starting, TypeOK
    <3>2. IsFiniteSet(Starting') /\ Cardinality(Starting') = Cardinality(Starting) - 1
      BY <3>1, FS_RemoveElement DEF StartsPaid
    <3>3. Cardinality(Starting) \in Nat  BY FS_CardinalityType DEF StartsPaid
    <3>4. closes \in Nat /\ run_ \in BOOLEAN  BY DEF TypeOK
    <3> QED  BY <1>2, <3>2, <3>3, <3>4 DEF StartsPaid
  <2>2. CASE e_pc[t] = "fill"
    <3>1. Starting' = Starting  BY <1>2, <2>2 DEF Starting, TypeOK
    <3> QED  BY <1>2, <3>1, StartsKept
  <2> QED  BY <1>2, <2>1, <2>2
<1> QED  BY <1>1, <1>3, <1>4, <1>5, <1>6, TypesNext

\* A step of t that starts nothing: it is enough to look at the structures and at t.
Steps(t) ==
    /\ \E l \in {"idle", "fill", "filling", "acquire", "store", "queue", "count"} :
          e_pc' = [e_pc EXCEPT ![t] = l]
    /\ e_pc[t] # "alloc"
    /\ e_i' \in [Producer -> 0..PoolSize + 1] /\ e_rec' \in [Producer -> FreePtr]
    /\ \A u \in Producer \ {t} : e_i'[u] = e_i[u] /\ e_rec'[u] = e_rec[u]
    /\ \A u \in Thread \ {t} : q_pc'[u] = q_pc[u] /\ q_n'[u] = q_n[u]
    /\ dropped_' \in Nat /\ enqueued_' \in Nat
    /\ storage' \in [Record -> Msg \cup {NoMsg}]
    /\ UNCHANGED <<written_, lifecycle, calls, workerVars>>

\* It keeps the invariant.
LEMMA StepsInv ==
    ASSUME EngineInv, NEW t \in Producer, Steps(t),
           FreeListTypeOK', MpscQueueTypeOK', Equipped(t)'
    PROVE  EngineInv'
<1> USE DEF EngineInv, Steps, lifecycle, workerVars
<1>1. PICK l \in {"idle", "fill", "filling", "acquire", "store", "queue", "count"} :
          e_pc' = [e_pc EXCEPT ![t] = l]
  OBVIOUS
<1>2. e_pc \in [Producer -> {"idle", "alloc", "fill", "filling", "acquire",
                             "store", "queue", "count"}]
  BY DEF TypeOK
<1>3. EngineTypeOK'  BY <1>1, <1>2 DEF TypeOK, EngineTypeOK
<1>4. WorkerEquipped'  BY DEF WorkerEquipped
<1>5. ASSUME NEW u \in Producer, u # t PROVE Equipped(u)'
  <2>1. e_pc'[u] = e_pc[u]  BY <1>1, <1>2, <1>5
  <2>2. pool' = pool /\ pool \in Nat  BY DEF TypeOK
  <2>3. /\ e_i'[u] = e_i[u] /\ e_rec'[u] = e_rec[u] /\ calls' = calls
        /\ q_pc'[u] = q_pc[u] /\ q_n'[u] = q_n[u]
    BY <1>5
  <2> QED  BY <1>5, <2>1, <2>2, <2>3, OthersEquipped
<1>6. Starting' = Starting  BY <1>1, <1>2 DEF Starting
<1>7. StartsPaid'  BY <1>6, StartsKept
<1> QED  BY <1>3, <1>4, <1>5, <1>7, TypesNext

\* What is known at the beginning of a step of t.
LEMMA AtCall ==
    ASSUME EngineInv, NEW t \in Producer
    PROVE  /\ FreeListTypeOK /\ MpscQueueTypeOK /\ Equipped(t)
           /\ e_pc \in [Producer -> {"idle", "alloc", "fill", "filling", "acquire",
                                     "store", "queue", "count"}]
           /\ e_i \in [Producer -> 0..PoolSize + 1] /\ e_rec \in [Producer -> FreePtr]
           /\ dropped_ \in Nat /\ enqueued_ \in Nat
           /\ storage \in [Record -> Msg \cup {NoMsg}]
           /\ calls \in [Producer -> 0..Logs] /\ pool \in 0..Pools
BY DEF EngineInv, TypeOK

\* A step of t that does nothing to the queue.
LEMMA QueueKept ==
    ASSUME MpscQueueTypeOK, UNCHANGED queueVars
    PROVE  MpscQueueTypeOK' /\ UNCHANGED <<q_pc, q_n>>
BY DEF queueVars, MpscQueueTypeOK

\* A step of t that does nothing to the free list.
LEMMA FreeListKept ==
    ASSUME FreeListTypeOK, UNCHANGED flVars
    PROVE  FreeListTypeOK'
BY DEF flVars, FreeListTypeOK, Popping, Pushing

\* The record that is pushed is one of the pool.
LEMMA FillInv == ASSUME EngineInv, NEW t \in Producer, Fill(t) PROVE EngineInv'
<1> USE DEF Fill, Goto
<1>1. <<pool, e_i[t]>> \in Record
  BY AtCall, LogEngineAssumption DEF LogEngineAssumption, Equipped
<1>2. FreeListTypeOK'  BY <1>1, AtCall, FreeListTypes
<1>3. MpscQueueTypeOK' /\ UNCHANGED <<q_pc, q_n>>  BY AtCall, QueueKept
<1>4. Steps(t)  BY <1>3, AtCall DEF Steps, besideEnqueue, counters
<1>5. Equipped(t)'
  BY <1>3, AtCall DEF Equipped, besideEnqueue, lifecycle
<1> QED  BY <1>2, <1>3, <1>4, <1>5, StepsInv

\* The index of the loop stays within the pool.
LEMMA FillingInv == ASSUME EngineInv, NEW t \in Producer, Filling(t) PROVE EngineInv'
<1> USE DEF Filling
<1>1. FreeListTypeOK'  BY AtCall, FreeListTypes
<1>2. MpscQueueTypeOK' /\ UNCHANGED <<q_pc, q_n>>  BY AtCall, QueueKept
<1>3. /\ e_pc[t] = "filling" /\ e_i[t] \in 1..PoolSize /\ pool >= 1 /\ calls[t] >= 1
  BY AtCall DEF Equipped, Goto
<1>4. CASE Goto(t, "filling", "filling") /\ UNCHANGED e_i
  <2>1. Steps(t)  BY <1>2, <1>4, AtCall DEF Steps, besideEnqueue, counters, Goto
  <2>2. Equipped(t)'
    BY <1>2, <1>3, <1>4, AtCall DEF Equipped, besideEnqueue, lifecycle, Goto
  <2> QED  BY <1>1, <1>2, <2>1, <2>2, StepsInv
<1>5. CASE Goto(t, "filling", "fill") /\ e_i' = [e_i EXCEPT ![t] = @ + 1]
  <2>1. e_i'[t] = e_i[t] + 1 /\ e_i' \in [Producer -> 0..PoolSize + 1]
    BY <1>3, <1>5, AtCall
  <2>2. Steps(t)  BY <1>2, <1>5, <2>1, AtCall DEF Steps, besideEnqueue, counters, Goto
  <2>3. Equipped(t)'
    BY <1>2, <1>3, <1>5, <2>1, AtCall DEF Equipped, besideEnqueue, lifecycle, Goto
  <2> QED  BY <1>1, <1>2, <2>2, <2>3, StepsInv
<1> QED  BY <1>4, <1>5

\* try_pop goes on.
LEMMA AcquireStepInv == ASSUME EngineInv, NEW t \in Producer, AcquireStep(t) PROVE EngineInv'
<1> USE DEF AcquireStep, Goto
<1>1. FreeListTypeOK'  BY AtCall, FreeListTypes
<1>2. MpscQueueTypeOK' /\ UNCHANGED <<q_pc, q_n>>  BY AtCall, QueueKept
<1>3. Steps(t)  BY <1>2, AtCall DEF Steps, besideEnqueue, counters
<1>4. Equipped(t)'  BY <1>2, AtCall DEF Equipped, besideEnqueue, lifecycle
<1> QED  BY <1>1, <1>2, <1>3, <1>4, StepsInv

\* try_pop has found nothing.
LEMMA DropInv == ASSUME EngineInv, NEW t \in Producer, Drop(t) PROVE EngineInv'
<1> USE DEF Drop, Goto
<1>1. FreeListTypeOK'  BY AtCall, FreeListTypes
<1>2. MpscQueueTypeOK' /\ UNCHANGED <<q_pc, q_n>>  BY AtCall, QueueKept
<1>3. Steps(t)  BY <1>2, AtCall DEF Steps
<1>4. Equipped(t)'  BY <1>2, AtCall DEF Equipped
<1> QED  BY <1>1, <1>2, <1>3, <1>4, StepsInv

\* What try_pop returns is a record.
LEMMA AcquireInv == ASSUME EngineInv, NEW t \in Producer, Acquire(t) PROVE EngineInv'
<1> USE DEF Acquire, Goto
<1>1. FreeListTypeOK' /\ fl_h[t] \in Record  BY AtCall, FreeListTypes
<1>2. MpscQueueTypeOK' /\ UNCHANGED <<q_pc, q_n>>  BY AtCall, QueueKept
<1>3. e_rec'[t] \in Record /\ e_rec' \in [Producer -> FreePtr]
  BY <1>1, AtCall DEF FreePtr
<1>4. Steps(t)  BY <1>2, <1>3, AtCall DEF Steps, besideEnqueue, counters
<1>5. Equipped(t)'  BY <1>2, <1>3, AtCall DEF Equipped, besideEnqueue
<1> QED  BY <1>1, <1>2, <1>4, <1>5, StepsInv

\* The envelope is the one of this call.
LEMMA StoreInv == ASSUME EngineInv, NEW t \in Producer, Store(t) PROVE EngineInv'
<1> USE DEF Store, Goto
<1>1. FreeListTypeOK'  BY AtCall, FreeListKept
<1>2. MpscQueueTypeOK' /\ UNCHANGED <<q_pc, q_n>>  BY AtCall, QueueKept
<1>3. <<t, calls[t]>> \in Msg  BY AtCall DEF Equipped, Msg
<1>4. storage' \in [Record -> Msg \cup {NoMsg}]  BY <1>3, AtCall
<1>5. Steps(t)  BY <1>2, <1>4, AtCall DEF Steps, counters
<1>6. Equipped(t)'  BY <1>2, AtCall DEF Equipped
<1> QED  BY <1>1, <1>2, <1>5, <1>6, StepsInv

\* The record that is exchanged in is the one acquired.
LEMMA QueueInv == ASSUME EngineInv, NEW t \in Producer, Queue(t) PROVE EngineInv'
<1> USE DEF Queue
<1>1. /\ e_pc[t] = "queue" /\ e_rec[t] \in Record /\ calls[t] >= 1
      /\ q_pc[t] = "swap" => q_n[t] \in Record
  BY AtCall DEF Equipped, Goto
<1>2. FreeListTypeOK'  BY AtCall, FreeListKept
<1>3. MpscQueueTypeOK'  BY <1>1, AtCall, PushTypes
<1>4. \A u \in Thread \ {t} : q_pc'[u] = q_pc[u] /\ q_n'[u] = q_n[u]
  BY AtCall DEF QClear, QSwap, QLink, MpscQueueTypeOK
<1>5. q_pc'[t] = "swap" => q_n'[t] \in Record
  BY <1>1, AtCall DEF QClear, QSwap, QLink, MpscQueueTypeOK
<1>6. Steps(t)  BY <1>1, <1>4, AtCall DEF Steps, besideEnqueue, counters, Goto
<1>7. Equipped(t)'  BY <1>1, <1>5, AtCall DEF Equipped, besideEnqueue, Goto
<1> QED  BY <1>2, <1>3, <1>6, <1>7, StepsInv

\* enqueue() returns.
LEMMA CountInv == ASSUME EngineInv, NEW t \in Producer, Count(t) PROVE EngineInv'
<1> USE DEF Count, Goto
<1>1. FreeListTypeOK'  BY AtCall, FreeListKept
<1>2. MpscQueueTypeOK' /\ UNCHANGED <<q_pc, q_n>>  BY AtCall, QueueKept
<1>3. Steps(t)  BY <1>2, AtCall DEF Steps, FreePtr
<1>4. Equipped(t)'  BY <1>2, AtCall DEF Equipped
<1> QED  BY <1>1, <1>2, <1>3, <1>4, StepsInv

\* The new thread begins with nothing, or the program ends.
LEMMA StartWorkerInv == ASSUME EngineInv, NEW t \in Producer, StartWorker(t) PROVE EngineInv'
<1> USE DEF StartWorker, Goto
<1>1. FreeListTypeOK'  BY AtCall, FreeListKept
<1>2. MpscQueueTypeOK' /\ UNCHANGED <<q_pc, q_n>>  BY AtCall, QueueKept
<1>3. /\ UNCHANGED <<pool, run_, closes, e_i, e_rec, calls, storage, counters, s_pc>>
      /\ Starting' = Starting
  BY AtCall DEF Starting
<1>4. EngineTypeOK'
  BY <1>3 DEF EngineInv, TypeOK, EngineTypeOK, FreePtr, workerVars, counters
<1>5. \A u \in Producer : Equipped(u)'
  <2>1. Equipped(t)'  BY <1>2, <1>3, AtCall DEF Equipped
  <2>2. ASSUME NEW u \in Producer, u # t PROVE Equipped(u)'
    BY <1>2, <1>3, <2>2, AtCall, OthersEquipped
  <2> QED  BY <2>1, <2>2
<1>6. WorkerEquipped'  BY <1>2 DEF EngineInv, WorkerEquipped, workerVars
<1>7. StartsPaid'  BY <1>3, StartsKept
<1> QED  BY <1>1, <1>2, <1>4, <1>5, <1>6, <1>7, TypesNext DEF EngineInv

-----------------------------------------------------------------------------
(* worker_loop() and shutdown() *)

\* A step of the worker leaves the producers as they are.
Loops ==
    /\ w_pc' \in {"none", "loop", "empty", "pop", "recycle", "recycling",
                  "submit", "reset", "done"}
    /\ w_stage' \in {"main", "drain", "last"}
    /\ w_rec' \in FreePtr /\ pending_recycle' \in FreePtr
    /\ written_' \in Nat /\ output' \in Seq(Msg \cup {NoMsg})
    /\ storage' \in [Record -> Msg \cup {NoMsg}]
    /\ UNCHANGED <<q_pc, q_n, dropped_, enqueued_, lifecycle, enqueueVars>>

\* It keeps the invariant.
LEMMA LoopsInv ==
    ASSUME EngineInv, Loops, FreeListTypeOK', MpscQueueTypeOK', WorkerEquipped'
    PROVE  EngineInv'
<1> USE DEF EngineInv, Loops, lifecycle, enqueueVars
<1>1. EngineTypeOK'  BY DEF TypeOK, EngineTypeOK
<1>2. \A u \in Producer : Equipped(u)'  BY ProducersEquipped
<1>3. Starting' = Starting  BY DEF Starting
<1>4. StartsPaid'  BY <1>3, StartsKept
<1> QED  BY <1>1, <1>2, <1>4, TypesNext

\* What is known at the beginning of a step of the worker.
LEMMA AtLoop ==
    ASSUME EngineInv
    PROVE  /\ FreeListTypeOK /\ MpscQueueTypeOK /\ WorkerEquipped
           /\ w_stage \in {"main", "drain", "last"}
           /\ w_rec \in FreePtr /\ pending_recycle \in FreePtr
           /\ written_ \in Nat /\ output \in Seq(Msg \cup {NoMsg})
           /\ storage \in [Record -> Msg \cup {NoMsg}]
BY DEF EngineInv, TypeOK

\* The worker looks at run_.
LEMMA WorkerTestInv == ASSUME EngineInv, WorkerTest PROVE EngineInv'
<1> USE DEF WorkerTest, WGoto, besideLoop, loopLocals
<1>1. FreeListTypeOK'  BY AtLoop, FreeListKept
<1>2. MpscQueueTypeOK' /\ UNCHANGED <<q_pc, q_n>>  BY AtLoop, QueueKept
<1>3. Loops  BY <1>2, AtLoop DEF Loops, counters
<1>4. WorkerEquipped'  BY <1>2, AtLoop DEF WorkerEquipped
<1> QED  BY <1>1, <1>2, <1>3, <1>4, LoopsInv

\* It asks whether the queue is empty.
LEMMA WorkerAskEmptyInv == ASSUME EngineInv, WorkerAskEmpty PROVE EngineInv'
<1> USE DEF WorkerAskEmpty, WGoto, besideLoop
<1>1. FreeListTypeOK'  BY AtLoop, FreeListKept
<1>2. MpscQueueTypeOK' /\ UNCHANGED <<q_pc, q_n, q_prev>>  BY AtLoop, PopTypes
<1>3. Loops  BY <1>2, AtLoop DEF Loops, counters
<1>4. WorkerEquipped'  BY <1>2, AtLoop DEF WorkerEquipped
<1> QED  BY <1>1, <1>2, <1>3, <1>4, LoopsInv

\* What pop() returns is a record, never the stub.
LEMMA WorkerPopInv == ASSUME EngineInv, WorkerPop PROVE EngineInv'
<1> USE DEF WorkerPop, WGoto, besideLoop
<1>1. FreeListTypeOK'  BY AtLoop, FreeListKept
<1>2. /\ MpscQueueTypeOK' /\ UNCHANGED <<q_pc, q_n, q_prev>>
      /\ w_rec' \in Record
  BY AtLoop, PopTypes
<1>3. Loops  BY <1>2, AtLoop DEF Loops, counters, FreePtr
<1>4. WorkerEquipped'  BY <1>2, AtLoop DEF WorkerEquipped
<1> QED  BY <1>1, <1>2, <1>3, <1>4, LoopsInv

\* pop() goes on, or has found nothing.
LEMMA WorkerPopNoneInv == ASSUME EngineInv, WorkerPopNone PROVE EngineInv'
<1> USE DEF WorkerPopNone, WGoto, besideLoop, loopLocals
<1>1. FreeListTypeOK'  BY AtLoop, FreeListKept
<1>2. MpscQueueTypeOK' /\ UNCHANGED <<q_pc, q_n, q_prev>>  BY AtLoop, PopTypes
<1>3. Loops  BY <1>2, AtLoop DEF Loops, counters
<1>4. WorkerEquipped'  BY <1>2, AtLoop DEF WorkerEquipped
<1> QED  BY <1>1, <1>2, <1>3, <1>4, LoopsInv

\* What is given back to the free list is a record.
LEMMA WorkerRecycleInv == ASSUME EngineInv, WorkerRecycle PROVE EngineInv'
<1> USE DEF WorkerRecycle, WGoto, besideLoop, loopLocals
<1>1. w_pc = "recycle" => pending_recycle \in Record
  BY AtLoop DEF WorkerEquipped, FreePtr
<1>2. FreeListTypeOK'  BY <1>1, AtLoop, FreeListTypes
<1>3. MpscQueueTypeOK' /\ UNCHANGED <<q_pc, q_n>>  BY AtLoop, QueueKept
<1>4. Loops  BY <1>3, AtLoop DEF Loops, counters
<1>5. WorkerEquipped'  BY <1>3, AtLoop DEF WorkerEquipped
<1> QED  BY <1>2, <1>3, <1>4, <1>5, LoopsInv

\* What is printed is the storage of a record.
LEMMA WorkerSubmitInv == ASSUME EngineInv, WorkerSubmit PROVE EngineInv'
<1> USE DEF WorkerSubmit, WGoto
<1>1. FreeListTypeOK'  BY AtLoop, FreeListKept
<1>2. MpscQueueTypeOK' /\ UNCHANGED <<q_pc, q_n>>  BY AtLoop, QueueKept
<1>3. w_rec \in Record  BY AtLoop DEF WorkerEquipped
<1>4. storage[w_rec] \in Msg \cup {NoMsg}  BY <1>3, AtLoop
<1>5. output' \in Seq(Msg \cup {NoMsg})  BY <1>4, AtLoop
<1>6. Loops  BY <1>2, <1>3, <1>5, AtLoop DEF Loops, FreePtr
<1>7. WorkerEquipped'  BY <1>2, AtLoop DEF WorkerEquipped
<1> QED  BY <1>1, <1>2, <1>6, <1>7, LoopsInv

\* The queue is reset, and the worker has its last record to give back or is done.
LEMMA WorkerResetInv == ASSUME EngineInv, WorkerReset PROVE EngineInv'
<1> USE DEF WorkerReset, WGoto, besideLoop
<1>1. FreeListTypeOK'  BY AtLoop, FreeListKept
<1>2. MpscQueueTypeOK' /\ UNCHANGED <<q_pc, q_n, q_prev>>  BY AtLoop, PopTypes
<1>3. Loops  BY <1>2, AtLoop DEF Loops, counters
<1>4. WorkerEquipped'  BY <1>2, AtLoop DEF WorkerEquipped
<1> QED  BY <1>1, <1>2, <1>3, <1>4, LoopsInv

\* A shutdown pays for the next start.
LEMMA ShutdownInv ==
    ASSUME EngineInv, NEW c \in Closer, Shutdown(c) \/ ShutdownStep(c) PROVE EngineInv'
<1> USE DEF EngineInv, Shutdown, ShutdownStep, ShutdownJoinable, ShutdownJoin, SGoto
<1>1. FreeListTypeOK'  BY AtLoop, FreeListKept
<1>2. MpscQueueTypeOK' /\ UNCHANGED <<q_pc, q_n>>  BY AtLoop, QueueKept
<1>3. EngineTypeOK'
  <2>1. CASE Shutdown(c)
    <3>1. closes' \in 0..Shutdowns  BY <2>1 DEF TypeOK
    <3> QED  BY <2>1, <3>1 DEF TypeOK, EngineTypeOK, counters, enqueueVars, workerVars
  <2>2. CASE ShutdownJoinable(c)
    BY <2>2 DEF TypeOK, EngineTypeOK, counters, enqueueVars, workerVars
  <2>3. CASE ShutdownJoin(c)
    BY <2>3 DEF TypeOK, EngineTypeOK, counters, enqueueVars, loopLocals
  <2> QED  BY <2>1, <2>2, <2>3
<1>4. \A u \in Producer : Equipped(u)'  BY <1>2, ProducersEquipped DEF enqueueVars
<1>5. WorkerEquipped'  BY <1>2 DEF WorkerEquipped, workerVars, loopLocals
<1>6. Starting' = Starting  BY DEF Starting, enqueueVars
<1>7. StartsPaid'
  <2>1. Cardinality(Starting) \in Nat  BY FS_CardinalityType DEF StartsPaid
  <2>2. pool' = pool /\ pool \in Nat /\ run_ \in BOOLEAN /\ closes \in Nat  BY DEF TypeOK
  <2> QED  BY <1>6, <2>1, <2>2 DEF StartsPaid
<1> QED  BY <1>1, <1>2, <1>3, <1>4, <1>5, <1>7, TypesNext

\* Every step of the engine keeps the invariant.
LEMMA EngineNextInv == EngineInv /\ [Next]_vars => EngineInv'
<1> SUFFICES ASSUME EngineInv, [Next]_vars PROVE EngineInv'  OBVIOUS
<1>1. CASE \E t \in Producer : Enqueue(t)
  BY <1>1, EnsureRunningInv, AllocPoolInv, FillInv, FillingInv, StartWorkerInv,
     StartThrowsInv, AcquireStepInv, DropInv, AcquireInv, StoreInv, QueueInv, CountInv DEF Enqueue
<1>2. CASE WorkerStep
  BY <1>2, WorkerTestInv, WorkerAskEmptyInv, WorkerPopInv, WorkerPopNoneInv,
     WorkerRecycleInv, WorkerSubmitInv, WorkerResetInv DEF WorkerStep
<1>3. CASE \E c \in Closer : Shutdown(c) \/ ShutdownStep(c)  BY <1>3, ShutdownInv
<1>4. CASE UNCHANGED vars
  <2> USE DEF vars
  <2>1. FreeListTypeOK'  BY <1>4, AtLoop, FreeListKept
  <2>2. MpscQueueTypeOK' /\ UNCHANGED <<q_pc, q_n>>  BY <1>4, AtLoop, QueueKept
  <2>3. Loops
    BY <1>4, <2>2, AtLoop DEF Loops, counters, workerVars, EngineInv, TypeOK
  <2>4. WorkerEquipped'  BY <1>4, <2>2, AtLoop DEF WorkerEquipped, workerVars
  <2> QED  BY <2>1, <2>2, <2>3, <2>4, LoopsInv
<1> QED  BY <1>1, <1>2, <1>3, <1>4 DEF Next, Done

\* The inductive invariant of the engine holds in every reachable state.
THEOREM EngineCorrect == Spec => []EngineInv
<1> QED  BY EngineInitInv, EngineNextInv, PTL DEF Spec

\* Every variable keeps its type, whatever enqueue() and shutdown() do to each other:
\* neither structure is ever given a null pointer, the slot that is filled belongs to the
\* pool, and there are not more pools than shutdowns allow.
THEOREM TypeCorrect == Spec => []TypeOK
<1>1. EngineInv => TypeOK  BY DEF EngineInv
<1> QED  BY <1>1, EngineCorrect, PTL

-----------------------------------------------------------------------------
(* Start and stop *)

InStart(t) == e_pc[t] \in {"alloc", "fill", "filling"}

\* Who keeps enqueue() and shutdown() apart has one closer that stops a stopped engine,
\* or one producer that starts a running one, and a thread to join only in between.
Apart ==
    /\ \A c \in Closer : s_pc[c] # "idle" =>
          /\ ~run_
          /\ \A t \in Producer : e_pc[t] = "idle"
          /\ \A d \in Closer : s_pc[d] # "idle" => d = c
    /\ \A t \in Producer : InStart(t) =>
          /\ run_ /\ worker_ = "none"
          /\ \A u \in Producer : InStart(u) => u = t
    /\ ~run_ /\ (\A c \in Closer : s_pc[c] = "idle") => worker_ = "none"

StopInv == Apart /\ ~terminated

\* An engine that was not started has no thread.
LEMMA StopInitInv == Init => StopInv
BY DEF Init, StopInv, Apart, InStart

\* A step that is not about starting or stopping.
LEMMA StopKept ==
    ASSUME StopInv, UNCHANGED <<run_, worker_, s_pc, terminated>>,
           \A t \in Producer : /\ InStart(t)' => InStart(t)
                               /\ e_pc[t] = "idle" => e_pc'[t] = "idle"
    PROVE  StopInv'
BY DEF StopInv, Apart

\* Every step of an engine whose callers keep the two apart keeps them apart.
LEMMA StopNextInv == Quiet /\ TypeOK /\ StopInv /\ [Next]_vars => StopInv'
<1> SUFFICES ASSUME Quiet, TypeOK, StopInv, [Next]_vars PROVE StopInv'  OBVIOUS
<1>1. ASSUME NEW t \in Producer, EnsureRunning(t) PROVE StopInv'
  <2>1. /\ \A c \in Closer : s_pc[c] = "idle" /\ s_pc'[c] = "idle"
        /\ run_' /\ worker_' = worker_ /\ ~terminated' /\ e_pc[t] = "idle"
        /\ \A u \in Producer \ {t} : e_pc'[u] = e_pc[u]
    BY <1>1 DEF EnsureRunning, Goto, StopInv, TypeOK
  <2>2. CASE run_
    <3>1. e_pc'[t] = "acquire"  BY <1>1, <2>2 DEF EnsureRunning, Goto, TypeOK
    <3> QED  BY <2>1, <2>2, <3>1 DEF StopInv, Apart, InStart
  <2>3. CASE ~run_
    <3>1. worker_ = "none" /\ \A u \in Producer : ~InStart(u)
      BY <2>1, <2>3 DEF StopInv, Apart
    <3> QED  BY <2>1, <3>1 DEF StopInv, Apart, InStart
  <2> QED  BY <2>2, <2>3
<1>2. ASSUME NEW t \in Producer, StartWorker(t) PROVE StopInv'
  <2>1. /\ InStart(t) /\ e_pc' = [e_pc EXCEPT ![t] = "acquire"] /\ run_' = run_
        /\ s_pc' = s_pc
    BY <1>2 DEF StartWorker, Goto, InStart
  <2>2. run_ /\ worker_ = "none" /\ \A u \in Producer : InStart(u) => u = t
    BY <2>1 DEF StopInv, Apart
  <2>3. ~terminated'  BY <1>2, <2>2 DEF StartWorker, StopInv
  <2>4. \A u \in Producer : ~InStart(u)'  BY <2>1, <2>2 DEF InStart, TypeOK
  <2>5. \A c \in Closer : s_pc[c] = "idle"  BY <2>2 DEF StopInv, Apart
  <2> QED  BY <2>1, <2>2, <2>3, <2>4, <2>5 DEF StopInv, Apart
<1>3. ASSUME NEW t \in Producer,
             \/ AllocPool(t) \/ Fill(t) \/ Filling(t) \/ StartThrows(t) \/ AcquireStep(t)
             \/ Drop(t) \/ Acquire(t) \/ Store(t) \/ Queue(t) \/ Count(t)
      PROVE  StopInv'
  <2>1. UNCHANGED <<run_, worker_, s_pc, terminated>>
    BY <1>3 DEF AllocPool, StartThrows, Fill, Filling, AcquireStep, Drop, Acquire, Store,
                Queue, Count,
                besideEnqueue, lifecycle
  <2>2. PICK l \in {"idle", "fill", "filling", "acquire", "store", "queue", "count"} :
            /\ e_pc' = [e_pc EXCEPT ![t] = l] /\ e_pc[t] # "idle"
            /\ l \in {"fill", "filling"} => InStart(t)
    BY <1>3 DEF AllocPool, StartThrows, Fill, Filling, AcquireStep, Drop, Acquire, Store,
                Queue, Count, Goto, InStart
  <2>3. \A u \in Producer : /\ InStart(u)' => InStart(u)
                            /\ e_pc[u] = "idle" => e_pc'[u] = "idle"
    BY <2>2 DEF InStart, TypeOK
  <2> QED  BY <2>1, <2>3, StopKept
<1>4. CASE WorkerStep \/ UNCHANGED vars
  <2>1. UNCHANGED <<run_, worker_, s_pc, terminated, e_pc>>
    BY <1>4 DEF WorkerStep, WorkerTest, WorkerAskEmpty, WorkerPop, WorkerPopNone,
                WorkerRecycle, WorkerSubmit, WorkerReset, besideLoop, lifecycle,
                enqueueVars, vars
  <2> QED  BY <2>1, StopKept DEF InStart
<1>5. ASSUME NEW c \in Closer, Shutdown(c) PROVE StopInv'
  <2>1. /\ \A t \in Producer : e_pc[t] = "idle"
        /\ ~run_' /\ UNCHANGED <<worker_, terminated, e_pc>>
        /\ s_pc[c] = "idle" /\ s_pc' = [s_pc EXCEPT ![c] = IF run_ THEN "joinable" ELSE "idle"]
    BY <1>5 DEF Shutdown, SGoto, enqueueVars
  <2>2. CASE run_
    <3>1. \A d \in Closer : s_pc[d] = "idle"  BY <2>2 DEF StopInv, Apart
    <3>2. s_pc'[c] = "joinable" /\ \A d \in Closer \ {c} : s_pc'[d] = "idle"
      BY <2>1, <2>2, <3>1 DEF TypeOK
    <3> QED  BY <2>1, <3>2 DEF StopInv, Apart, InStart
  <2>3. CASE ~run_
    <3>1. s_pc' = s_pc  BY <2>1, <2>3 DEF TypeOK
    <3> QED  BY <2>1, <2>3, <3>1 DEF StopInv, Apart, InStart
  <2> QED  BY <2>2, <2>3
<1>6. ASSUME NEW c \in Closer, ShutdownStep(c) PROVE StopInv'
  <2>1. PICK l \in {"idle", "join"} :
            /\ s_pc[c] # "idle" /\ s_pc' = [s_pc EXCEPT ![c] = l]
            /\ l = "idle" => worker_' = "none"
            /\ l = "join" => worker_' = worker_
            /\ UNCHANGED <<run_, terminated, e_pc>>
    BY <1>6 DEF ShutdownStep, ShutdownJoinable, ShutdownJoin, SGoto, enqueueVars, TypeOK
  <2>2. /\ ~run_ /\ \A t \in Producer : e_pc[t] = "idle"
        /\ \A d \in Closer : s_pc[d] # "idle" => d = c
    BY <2>1 DEF StopInv, Apart
  <2>3. s_pc'[c] = l /\ \A d \in Closer \ {c} : s_pc'[d] = "idle"
    BY <2>1, <2>2 DEF TypeOK
  <2> QED  BY <2>1, <2>2, <2>3 DEF StopInv, Apart, InStart
<1> QED  BY <1>1, <1>2, <1>3, <1>4, <1>5, <1>6 DEF Next, Enqueue, Done

\* As long as no enqueue() overlaps a shutdown(), ensure_running() finds no thread that is
\* still joinable and std::terminate is not reached.
THEOREM NeverTerminatedIfQuiet == Quiet = TRUE => (Spec => []NeverTerminated)
<1> SUFFICES ASSUME Quiet = TRUE PROVE Spec => []NeverTerminated  OBVIOUS
<1>1. Quiet  OBVIOUS
<1>2. TypeOK /\ StopInv /\ [Next]_vars => StopInv'  BY <1>1, StopNextInv
<1>3. StopInv => NeverTerminated  BY DEF StopInv, NeverTerminated
<1> QED  BY <1>2, <1>3, StopInitInv, TypeCorrect, PTL DEF Spec

-----------------------------------------------------------------------------
(* Where the threads are *)

\* Where producer t is inside the two structures at each place of enqueue().
Busy(t) ==
    /\ e_pc[t] \notin {"filling", "acquire"} => fl_pc[t] = "idle"
    /\ e_pc[t] = "filling" => Pushing(t) /\ fl_n[t] = <<pool, e_i[t]>>
    /\ e_pc[t] = "acquire" => ~Pushing(t)
    /\ e_pc[t] # "queue" => q_pc[t] = "idle"
    /\ q_pc[t] = "swap" => q_n[t] = e_rec[t]

\* Where the worker is; the thread exists just while somebody may join it, and it leaves
\* its main loop only after a shutdown.
WorkerBusy ==
    /\ ~Popping(Worker) /\ (Pushing(Worker) <=> w_pc = "recycling")
    /\ w_rec # NULL => w_pc \in {"recycle", "recycling", "submit"} /\ w_stage # "last"
    /\ c_pc = "empty_tail" => w_pc = "empty"
    /\ c_pc \in {"pop_tail", "pop_spin"} => w_pc = "pop"
    /\ c_pc = "reset_tail" => w_pc = "reset"
    /\ w_pc = "reset" => w_stage = "drain"
    /\ w_pc \in {"loop", "empty"} => w_stage = "main"
    /\ worker_ = "none" <=> w_pc = "none"
    /\ w_pc # "none" /\ (w_pc = "empty" \/ w_stage # "main") => ~run_

Control == WorkerBusy /\ \A t \in Producer : Busy(t)

\* What a step of producer t leaves to the others.
Alone(t) ==
    /\ \A u \in Thread \ {t} : /\ fl_pc'[u] = fl_pc[u] /\ fl_n'[u] = fl_n[u]
                               /\ fl_h'[u] = fl_h[u]
                               /\ q_pc'[u] = q_pc[u] /\ q_n'[u] = q_n[u]
    /\ \A u \in Producer \ {t} : /\ e_pc'[u] = e_pc[u] /\ e_i'[u] = e_i[u]
                                 /\ e_rec'[u] = e_rec[u] /\ calls'[u] = calls[u]
    /\ UNCHANGED <<head_, c_pc, closes, s_pc, written_, output>>

\* The locals of the other threads when t touches neither structure, ...
LEMMA NoTouch ==
    ASSUME UNCHANGED <<flVars, queueVars>>
    PROVE  /\ UNCHANGED <<fl_pc, fl_n, fl_h, fl_next, q_pc, q_n, head_, c_pc>>
           /\ UNCHANGED <<free_head, free_next, free_stack, aba, tail_, next, q_prev, fifo>>
BY DEF flVars, queueVars

\* ... only the free list, ...
LEMMA TouchFree ==
    ASSUME EngineInv, NEW t \in Thread, Calls(t), UNCHANGED queueVars
    PROVE  /\ \A u \in Thread \ {t} : /\ fl_pc'[u] = fl_pc[u] /\ fl_n'[u] = fl_n[u]
                                      /\ fl_h'[u] = fl_h[u]
           /\ UNCHANGED <<tail_, next, q_prev, fifo, q_pc, q_n, head_, c_pc>>
BY OthersKeepLocals DEF queueVars, EngineInv, TypeOK

\* ... or only the queue.
LEMMA TouchQueue ==
    ASSUME EngineInv, NEW t \in Thread, QSwap(t) \/ QLink(t) \/ (\E n \in Record : QClear(t, n)),
           UNCHANGED flVars
    PROVE  /\ \A u \in Thread \ {t} : q_pc'[u] = q_pc[u] /\ q_n'[u] = q_n[u]
           /\ UNCHANGED <<fl_pc, fl_n, fl_h, fl_next, head_, c_pc>>
           /\ UNCHANGED <<free_head, free_next, free_stack, aba>>
BY DEF flVars, EngineInv, TypeOK, MpscQueueTypeOK, QSwap, QLink, QClear

\* The record of the pool that is filled next.
LEMMA FilledRecord ==
    ASSUME EngineInv, NEW t \in Producer, Fill(t)
    PROVE  <<pool, e_i[t]>> \in Record
BY AtCall, LogEngineAssumption DEF LogEngineAssumption, Equipped, Fill, Goto

\* Every step of enqueue() leaves the others alone.
LEMMA EnqueueAlone ==
    ASSUME EngineInv, NEW t \in Producer, Enqueue(t)
    PROVE  Alone(t)
<1> USE DEF Goto, counters, lifecycle, workerVars, besideEnqueue
<1>1. CASE EnsureRunning(t)  BY <1>1, NoTouch, AtCall DEF EnsureRunning, Alone
<1>2. CASE AllocPool(t)  BY <1>2, NoTouch, AtCall DEF AllocPool, Alone
<1>3. CASE Fill(t)
  <2>1. Calls(t)  BY <1>3, FilledRecord DEF Fill, Calls
  <2> QED  BY <1>3, <2>1, TouchFree, AtCall DEF Fill, Alone
<1>4. CASE Filling(t)
  <2>1. Calls(t) /\ UNCHANGED queueVars  BY <1>4 DEF Filling, Calls
  <2> QED  BY <1>4, <2>1, TouchFree, AtCall DEF Filling, Alone
<1>5. CASE StartWorker(t)
  BY <1>5, NoTouch, AtCall DEF StartWorker, Alone
<1>6. CASE AcquireStep(t)
  <2>1. Calls(t) /\ UNCHANGED queueVars  BY <1>6 DEF AcquireStep, Calls
  <2> QED  BY <1>6, <2>1, TouchFree, AtCall DEF AcquireStep, Alone
<1>7. CASE Drop(t)
  <2>1. Calls(t) /\ UNCHANGED queueVars  BY <1>7 DEF Drop, Calls
  <2> QED  BY <1>7, <2>1, TouchFree, AtCall DEF Drop, Alone
<1>8. CASE Acquire(t)
  <2>1. Calls(t) /\ UNCHANGED queueVars  BY <1>8 DEF Acquire, Calls
  <2> QED  BY <1>8, <2>1, TouchFree, AtCall DEF Acquire, Alone
<1>9. CASE Store(t)  BY <1>9, NoTouch, AtCall DEF Store, Alone
<1>10. CASE Queue(t)
  <2>1. e_rec[t] \in Record  BY <1>10, AtCall DEF Queue, Equipped
  <2>2. /\ QSwap(t) \/ QLink(t) \/ (\E n \in Record : QClear(t, n))
        /\ UNCHANGED flVars
    BY <1>10, <2>1 DEF Queue
  <2> QED  BY <1>10, <2>2, TouchQueue, AtCall DEF Queue, Alone
<1>11. CASE Count(t)  BY <1>11, NoTouch, AtCall DEF Count, Alone
<1>12. CASE StartThrows(t)  BY <1>12, NoTouch, AtCall DEF StartThrows, Alone
<1> QED  BY <1>1, <1>2, <1>3, <1>4, <1>5, <1>6, <1>7, <1>8, <1>9, <1>10, <1>11, <1>12
            DEF Enqueue

\* Every step of worker_loop() leaves the producers alone.
LEMMA LoopAlone ==
    ASSUME EngineInv, WorkerStep
    PROVE  /\ \A u \in Producer : fl_pc'[u] = fl_pc[u] /\ fl_n'[u] = fl_n[u]
           /\ UNCHANGED <<q_pc, q_n, enqueueVars, lifecycle, dropped_, enqueued_>>
<1> USE DEF besideLoop, counters
<1>1. CASE WorkerRecycle
  <2>1. Calls(Worker) /\ UNCHANGED queueVars
    <3>1. w_pc = "recycle" => pending_recycle \in Record
      BY AtLoop DEF WorkerEquipped, FreePtr
    <3> QED  BY <1>1, <3>1 DEF WorkerRecycle, Calls, WGoto
  <2> QED  BY <1>1, <2>1, TouchFree DEF WorkerRecycle
<1>2. CASE WorkerTest  BY <1>2, NoTouch DEF WorkerTest
<1>3. CASE WorkerSubmit  BY <1>3, NoTouch DEF WorkerSubmit, enqueueVars, lifecycle
<1>4. CASE WorkerAskEmpty \/ WorkerPop \/ WorkerPopNone \/ WorkerReset
  <2>1. UNCHANGED <<flVars, besideLoop>>
    BY <1>4 DEF WorkerAskEmpty, WorkerPop, WorkerPopNone, WorkerReset
  <2>2. UNCHANGED <<q_pc, q_n>>
    BY <1>4, AtLoop, PopTypes DEF WorkerAskEmpty, WorkerPop, WorkerPopNone, WorkerReset
  <2> QED  BY <2>1, <2>2 DEF flVars
<1> QED  BY <1>1, <1>2, <1>3, <1>4 DEF WorkerStep

\* A producer whose locals are not touched stays where it is; its pool is the one it fills.
LEMMA BusyKept ==
    ASSUME NEW u \in Producer, Busy(u), e_pc'[u] = e_pc[u], e_i'[u] = e_i[u],
           e_rec'[u] = e_rec[u], fl_pc'[u] = fl_pc[u], fl_n'[u] = fl_n[u],
           q_pc'[u] = q_pc[u], q_n'[u] = q_n[u], e_pc[u] = "filling" => pool' = pool
    PROVE  Busy(u)'
BY DEF Busy, Pushing

\* Only a start touches the worker.
LEMMA WorkerBusyKept ==
    ASSUME WorkerBusy, fl_pc'[Worker] = fl_pc[Worker],
           UNCHANGED <<c_pc, w_pc, w_stage, w_rec, worker_>>,
           run_' => run_ \/ w_pc = "none"
    PROVE  WorkerBusy'
BY DEF WorkerBusy, Pushing, Popping

\* A step of producer t within enqueue() keeps everybody where he is, if it does so with t.
LEMMA ControlKept ==
    ASSUME Control, NEW t \in Producer, Alone(t), Busy(t)',
           UNCHANGED <<w_pc, w_stage, w_rec, worker_>>,
           \A u \in Producer \ {t} : e_pc[u] = "filling" => pool' = pool,
           run_' => run_ \/ w_pc = "none"
    PROVE  Control'
<1>1. WorkerBusy'
  BY WorkerBusyKept DEF Control, Alone
<1>2. ASSUME NEW u \in Producer, u # t PROVE Busy(u)'
  BY <1>2, BusyKept DEF Control, Alone
<1> QED  BY <1>1, <1>2 DEF Control

\* Producers stay in the part of the structures that enqueue() has them in.
LEMMA ControlEnqueue ==
    ASSUME Quiet, EngineInv, StopInv, Control, NEW t \in Producer, Enqueue(t)
    PROVE  Control'
<1> USE DEF Goto, besideEnqueue, lifecycle, workerVars, Pushing
<1>0. Alone(t) /\ Busy(t) /\ Control /\ fl_pc \in [Thread -> FlPc]
      /\ q_pc \in [Thread -> {"idle", "swap", "link"}]
      /\ fl_n \in [Thread -> FreePtr] /\ q_n \in [Thread -> FreePtr]
  BY EnqueueAlone, AtCall DEF Control, FreeListTypeOK, MpscQueueTypeOK
<1>1. CASE EnsureRunning(t)
  <2>1. Busy(t)'  BY <1>0, <1>1, NoTouch, AtCall DEF EnsureRunning, Busy
  <2>2. run_' => run_ \/ w_pc = "none"
    BY <1>0, <1>1 DEF EnsureRunning, StopInv, Apart, Control, WorkerBusy
  <2> QED  BY <1>0, <1>1, <2>1, <2>2, ControlKept DEF EnsureRunning
<1>2. CASE AllocPool(t)
  <2>1. Busy(t)'  BY <1>0, <1>2, NoTouch, AtCall DEF AllocPool, Busy
  <2>2. \A u \in Producer \ {t} : e_pc[u] # "filling"
    BY <1>2 DEF AllocPool, StopInv, Apart, InStart
  <2> QED  BY <1>0, <1>2, <2>1, <2>2, ControlKept DEF AllocPool
<1>3. CASE Fill(t)
  <2>1. Busy(t)'  BY <1>0, <1>3, AtCall DEF Fill, Busy, PushLoad, queueVars
  <2> QED  BY <1>0, <1>3, <2>1, ControlKept DEF Fill
<1>4. CASE Filling(t)
  <2>1. Busy(t)'
    BY <1>0, <1>4, AtCall
       DEF Filling, Busy, PushStep, PushLink, PushRetry, PushCas, Return, queueVars
  <2> QED  BY <1>0, <1>4, <2>1, ControlKept DEF Filling
<1>5. CASE StartWorker(t)
  <2>1. Busy(t)'  BY <1>0, <1>5, NoTouch, AtCall DEF StartWorker, Busy
  <2>2. worker_ = "none" /\ w_pc = "none"
    BY <1>0, <1>5 DEF StartWorker, StopInv, Apart, InStart, Control, WorkerBusy
  <2>3. WorkerBusy'
    BY <1>0, <1>5, <2>2, NoTouch DEF StartWorker, Control, WorkerBusy, Popping
  <2>4. ASSUME NEW u \in Producer, u # t PROVE Busy(u)'
    BY <1>0, <1>5, <2>4, BusyKept DEF StartWorker, Control, Alone
  <2> QED  BY <2>1, <2>3, <2>4 DEF Control
<1>6. CASE AcquireStep(t)
  <2>1. Busy(t)'
    BY <1>0, <1>6, AtCall
       DEF AcquireStep, Busy, PopLoad, PopStep, PopRead, PopRetry, queueVars
  <2> QED  BY <1>0, <1>6, <2>1, ControlKept DEF AcquireStep
<1>7. CASE Drop(t)
  <2>1. Busy(t)'
    BY <1>0, <1>7, AtCall
       DEF Drop, Busy, PopLoadNull, PopRetryNull, Return, queueVars, flVars
  <2> QED  BY <1>0, <1>7, <2>1, ControlKept DEF Drop
<1>8. CASE Acquire(t)
  <2>1. Busy(t)'
    BY <1>0, <1>8, AtCall DEF Acquire, Busy, PopCas, Return, queueVars
  <2> QED  BY <1>0, <1>8, <2>1, ControlKept DEF Acquire
<1>9. CASE Store(t)
  <2>1. Busy(t)'  BY <1>0, <1>9, NoTouch, AtCall DEF Store, Busy
  <2> QED  BY <1>0, <1>9, <2>1, ControlKept DEF Store
<1>10. CASE Queue(t)
  <2>1. Busy(t)'
    BY <1>0, <1>10, AtCall DEF Queue, Busy, QClear, QSwap, QLink, flVars
  <2> QED  BY <1>0, <1>10, <2>1, ControlKept DEF Queue
<1>11. CASE Count(t)
  <2>1. Busy(t)'  BY <1>0, <1>11, NoTouch, AtCall DEF Count, Busy
  <2> QED  BY <1>0, <1>11, <2>1, ControlKept DEF Count
<1>12. CASE StartThrows(t)
  <2>1. Busy(t)'  BY <1>0, <1>12, NoTouch, AtCall DEF StartThrows, Busy
  <2> QED  BY <1>0, <1>12, <2>1, ControlKept DEF StartThrows
<1> QED  BY <1>1, <1>2, <1>3, <1>4, <1>5, <1>6, <1>7, <1>8, <1>9, <1>10, <1>11, <1>12
            DEF Enqueue

\* So does the worker.
LEMMA ControlLoop ==
    ASSUME EngineInv, Control, WorkerStep
    PROVE  Control'
<1> USE DEF WGoto, Pushing, Popping
<1>1. \A u \in Producer : Busy(u)'
  BY LoopAlone, BusyKept DEF Control, enqueueVars, lifecycle
<1>2. /\ WorkerBusy /\ WorkerEquipped /\ UNCHANGED lifecycle
      /\ fl_pc \in [Thread -> FlPc] /\ FreeListTypeOK /\ MpscQueueTypeOK
  BY AtLoop, LoopAlone DEF Control, FreeListTypeOK
<1>3. WorkerBusy'
  <2> USE <1>2 DEF lifecycle
  <2>1. CASE WorkerTest  BY <2>1, NoTouch DEF WorkerTest, WorkerBusy, loopLocals
  <2>2. CASE WorkerAskEmpty
    BY <2>2 DEF WorkerAskEmpty, WorkerBusy, QEmptyNo, QEmptyBusy, QEmptyMiss, QEmptyYes,
                ConsumerGoes, flVars
  <2>3. CASE WorkerPop
    BY <2>3, PopTypes DEF WorkerPop, WorkerBusy, WorkerEquipped, QPop, QPopSpun, Advance, flVars
  <2>4. CASE WorkerPopNone
    <3>1. w_stage # "main" => w_stage = "drain"
      BY <2>4, AtLoop DEF WorkerPopNone, WorkerEquipped
    <3> QED  BY <2>4, <3>1 DEF WorkerPopNone, WorkerBusy, QPopMiss, QPopBusy, QPopEmpty,
                ConsumerGoes, flVars, loopLocals
  <2>5. CASE WorkerRecycle
    BY <2>5 DEF WorkerRecycle, WorkerBusy, PushLoad, PushStep, PushLink, PushRetry, PushCas,
                Return, queueVars, loopLocals
  <2>6. CASE WorkerSubmit
    BY <2>6, NoTouch DEF WorkerSubmit, WorkerBusy
  <2>7. CASE WorkerReset
    BY <2>7 DEF WorkerReset, WorkerBusy, QResetStub, QResetTail, flVars
  <2> QED  BY <2>1, <2>2, <2>3, <2>4, <2>5, <2>6, <2>7 DEF WorkerStep
<1> QED  BY <1>1, <1>3 DEF Control

\* A shutdown stops nobody, and joins a thread that is gone.
LEMMA ControlShutdown ==
    ASSUME EngineInv, Control, NEW c \in Closer, Shutdown(c) \/ ShutdownStep(c)
    PROVE  Control'
<1>1. /\ UNCHANGED <<fl_pc, fl_n, q_pc, q_n, c_pc, e_pc, e_i, e_rec, pool, w_stage, w_rec>>
      /\ run_' => run_
      /\ \/ UNCHANGED <<w_pc, worker_>>
         \/ w_pc = "done" /\ w_pc' = "none" /\ worker_' = "none"
  BY DEF Shutdown, ShutdownStep, ShutdownJoinable, ShutdownJoin, flVars, queueVars,
         enqueueVars, workerVars, loopLocals
<1>2. \A u \in Producer : Busy(u)'  BY <1>1, BusyKept DEF Control
<1>3. WorkerBusy'  BY <1>1 DEF Control, WorkerBusy, Pushing, Popping
<1> QED  BY <1>2, <1>3 DEF Control

\* The places in the code and in the structures agree in every state.
LEMMA ControlNext ==
    ASSUME Quiet, EngineInv, StopInv, Control, [Next]_vars PROVE Control'
<1>1. CASE UNCHANGED vars
  <2>1. UNCHANGED <<fl_pc, fl_n, q_pc, q_n, c_pc, e_pc, e_i, e_rec, pool, w_stage, w_rec,
                    w_pc, worker_, run_>>
    BY <1>1 DEF vars, flVars, queueVars, enqueueVars, lifecycle, workerVars
  <2> QED  BY <2>1, BusyKept, WorkerBusyKept DEF Control
<1> QED  BY <1>1, ControlEnqueue, ControlLoop, ControlShutdown DEF Next, Done

\* At first everybody is outside.
LEMMA ControlInit == Init => Control
<1> SUFFICES ASSUME Init PROVE Control  OBVIOUS
<1>1. WorkerBusy  BY DEF Init, FreeListInit, MpscQueueInit, WorkerBusy, Popping, Pushing
<1>2. \A t \in Producer : Busy(t)  BY DEF Init, FreeListInit, MpscQueueInit, Busy
<1> QED  BY <1>1, <1>2 DEF Control

\* While the worker runs, run_ is cleared only with all producers outside enqueue().
LEMMA StoppedIdle ==
    ASSUME EngineInv, StopInv, Control, w_pc # "none", ~run_
    PROVE  \A t \in Producer : e_pc[t] = "idle" /\ q_pc[t] = "idle" /\ fl_pc[t] = "idle"
<1>1. worker_ # "none"  BY DEF Control, WorkerBusy
<1>2. PICK c \in Closer : s_pc[c] # "idle"  BY <1>1 DEF StopInv, Apart
<1> QED  BY <1>2 DEF StopInv, Apart, Control, Busy

-----------------------------------------------------------------------------
(* Where a record is *)

Place == {"free", "push", "own", "queue", "hand", "kept"}

\* Thread t is about to push record r on the free list.
Pushes(t, r) == Pushing(t) /\ fl_n[t] = r

\* The worker keeps record r back until its next pop.
Keeps(r) == pending_recycle = r /\ w_pc \in {"loop", "empty", "pop", "recycle", "reset"}

\* Record r is in place k; those of the threads are told apart by t.
Holds(k, t, r) ==
    \/ k = "free" /\ t = Worker /\ InList(r)
    \/ k = "push" /\ Pushes(t, r)
    \/ k = "own" /\ t \in Producer /\ r \in OwnedBy(t)
    \/ k = "queue" /\ t = Worker /\ InQueue(r)
    \/ k = "hand" /\ t = Worker /\ w_rec = r
    \/ k = "kept" /\ t = Worker /\ Keeps(r)

\* A record is in one place at most.
OnePlace ==
    \A r \in Record, k, l \in Place, t, u \in Thread :
        Holds(k, t, r) /\ Holds(l, u, r) => k = l /\ t = u

\* A record that init_pool_and_queue has come to.
Handed(r) ==
    /\ r[1] <= pool
    /\ \A u \in Producer : e_pc[u] \in {"fill", "filling"} /\ r[1] = pool =>
          r[2] < e_i[u] \/ (e_pc[u] = "filling" /\ r[2] = e_i[u])

\* Nothing else is in use, and what was pushed is not lost.
Supplied == \A r \in Record, k \in Place, t \in Thread : Holds(k, t, r) => Handed(r)
Conserved == \A r \in Filled : \E k \in Place, t \in Thread : Holds(k, t, r)

Placed == OnePlace /\ Supplied /\ Conserved

\* What a step does to the places: nothing, ...
Stays ==
    \A r \in Record, k \in Place, t \in Thread : Holds(k, t, r)' <=> Holds(k, t, r)

\* ... or it puts record m where it was not and leaves the others alone.
Puts(l, u, m) ==
    \A r \in Record, k \in Place, t \in Thread :
        Holds(k, t, r)' <=> IF r = m THEN k = l /\ t = u ELSE Holds(k, t, r)

Moves == \E m \in Record, k, l \in Place, t, u \in Thread : Holds(k, t, m) /\ Puts(l, u, m)

\* A step that fills a new record.
Enters == \E t \in Producer : Fill(t) /\ Puts("push", t, <<pool, e_i[t]>>)

\* A record in a pool.
LEMMA RecordShape ==
    ASSUME NEW r \in Record
    PROVE  /\ r = <<r[1], r[2]>> /\ r[1] \in 1..Pools /\ r[2] \in 1..PoolSize
           /\ r[1] \in Nat /\ r[2] \in Nat /\ r # NULL /\ r # Stub
BY LogEngineAssumption DEF LogEngineAssumption

\* The pool is filled upwards, and a new pool has a new number.
LEMMA HandedKept ==
    ASSUME EngineInv, StopInv, Control, [Next]_vars, NEW r \in Record, Handed(r)
    PROVE  Handed(r)'
<1> USE RecordShape DEF Handed
<1>0. /\ e_pc \in [Producer -> {"idle", "alloc", "fill", "filling", "acquire", "store",
                                "queue", "count"}]
      /\ e_i \in [Producer -> 0..PoolSize + 1] /\ pool \in Nat
  BY DEF EngineInv, TypeOK
<1>1. ASSUME NEW t \in Producer, AllocPool(t) PROVE Handed(r)'
  <2>1. pool' = pool + 1  BY <1>1 DEF AllocPool
  <2> QED  BY <1>0, <2>1
<1>2. ASSUME NEW t \in Producer, Fill(t) PROVE Handed(r)'
  BY <1>0, <1>2 DEF Fill, Goto, besideEnqueue, lifecycle
<1>3. ASSUME NEW t \in Producer, Filling(t) PROVE Handed(r)'
  BY <1>0, <1>3 DEF Filling, Goto, besideEnqueue, lifecycle
<1>4. ASSUME NEW t \in Producer,
             \/ EnsureRunning(t) \/ StartWorker(t) \/ StartThrows(t) \/ AcquireStep(t)
             \/ Drop(t) \/ Acquire(t) \/ Store(t) \/ Queue(t) \/ Count(t)
      PROVE  Handed(r)'
  <2>1. PICK l \in {"idle", "alloc", "acquire", "store", "queue", "count"} :
            e_pc' = [e_pc EXCEPT ![t] = l]
    BY <1>4 DEF EnsureRunning, StartWorker, StartThrows, AcquireStep, Drop, Acquire, Store,
                Queue, Count, Goto
  <2>2. UNCHANGED <<pool, e_i>>
    BY <1>4 DEF EnsureRunning, StartWorker, StartThrows, AcquireStep, Drop, Acquire, Store,
                Queue, Count, besideEnqueue, lifecycle
  <2> QED  BY <1>0, <2>1, <2>2
<1>5. CASE UNCHANGED <<pool, e_pc, e_i>>  BY <1>5
<1>6. CASE WorkerStep  BY <1>5, <1>6, LoopAlone DEF enqueueVars, lifecycle
<1>7. ASSUME NEW c \in Closer, Shutdown(c) \/ ShutdownStep(c) PROVE Handed(r)'
  BY <1>5, <1>7 DEF Shutdown, ShutdownStep, ShutdownJoinable, ShutdownJoin, enqueueVars
<1>8. CASE UNCHANGED vars  BY <1>5, <1>8 DEF vars, enqueueVars, lifecycle
<1> QED  BY <1>1, <1>2, <1>3, <1>4, <1>6, <1>7, <1>8 DEF Next, Enqueue, Done

\* Only a push of init_pool_and_queue adds to the records that are filled.
LEMMA FilledGrows ==
    ASSUME EngineInv, StopInv, Control, [Next]_vars, NEW r \in Filled'
    PROVE  \/ r \in Filled
           \/ \E t \in Producer : Filling(t) /\ PushCas(t) /\ r = fl_n[t]
<1>0. /\ e_pc \in [Producer -> {"idle", "alloc", "fill", "filling", "acquire", "store",
                                "queue", "count"}]
      /\ e_i \in [Producer -> 0..PoolSize + 1] /\ pool \in Nat
  BY DEF EngineInv, TypeOK
<1>1. PICK k \in 1..PoolSize :
          /\ r = <<pool', k>> /\ pool' > 0
          /\ \A t \in Producer : e_pc'[t] \in {"fill", "filling"} => k < e_i'[t]
  BY DEF Filled
<1>2. SUFFICES ASSUME ~\E t \in Producer : Filling(t) /\ PushCas(t) /\ r = fl_n[t]
               PROVE  /\ pool' = pool
                      /\ \A t \in Producer : e_pc[t] \in {"fill", "filling"} => k < e_i[t]
  BY <1>1 DEF Filled
<1>3. ASSUME NEW t \in Producer, AllocPool(t) PROVE FALSE
  BY <1>0, <1>1, <1>3 DEF AllocPool, Goto
<1>4. ASSUME NEW t \in Producer, Fill(t)
      PROVE  UNCHANGED <<pool, e_i>> /\ e_pc' = [e_pc EXCEPT ![t] = "filling"]
  BY <1>4 DEF Fill, Goto, besideEnqueue, lifecycle
<1>5. ASSUME NEW t \in Producer, Filling(t)
      PROVE  UNCHANGED pool /\ (UNCHANGED <<e_i, e_pc>> \/ k < e_i[t])
  <2>1. UNCHANGED pool /\ fl_n[t] = <<pool, e_i[t]>> /\ e_i[t] \in Nat
    BY <1>0, <1>5 DEF Filling, Goto, besideEnqueue, lifecycle, Control, Busy
  <2>2. CASE Goto(t, "filling", "filling") /\ UNCHANGED e_i
    BY <1>0, <2>1, <2>2 DEF Goto
  <2>3. CASE /\ PushCas(t) /\ e_i' = [e_i EXCEPT ![t] = @ + 1]
             /\ Goto(t, "filling", "fill")
    <3>1. k < e_i[t] + 1  BY <1>0, <1>1, <2>3 DEF Goto
    <3>2. k # e_i[t]  BY <1>1, <1>2, <1>5, <2>1, <2>3
    <3> QED  BY <3>1, <3>2, <2>1
  <2> QED  BY <1>5, <2>2, <2>3 DEF Filling
<1>6. ASSUME NEW t \in Producer,
             \/ EnsureRunning(t) \/ AcquireStep(t) \/ Drop(t) \/ Acquire(t)
             \/ Store(t) \/ Queue(t) \/ Count(t)
      PROVE  UNCHANGED <<pool, e_i>> /\ e_pc[t] \notin {"fill", "filling"}
             /\ \A u \in Producer \ {t} : e_pc'[u] = e_pc[u]
  BY <1>0, <1>6 DEF EnsureRunning, AcquireStep, Drop, Acquire, Store, Queue, Count, Goto,
                   besideEnqueue, lifecycle
<1>7. ASSUME NEW t \in Producer, StartWorker(t) \/ StartThrows(t)
      PROVE  UNCHANGED <<pool, e_i>> /\ (k < e_i[t] \/ e_pc[t] = "alloc")
             /\ \A u \in Producer \ {t} : e_pc'[u] = e_pc[u]
  BY <1>0, <1>7 DEF StartWorker, StartThrows, Goto
<1>8. CASE WorkerStep  BY <1>1, <1>8, LoopAlone DEF enqueueVars, lifecycle
<1>9. ASSUME NEW c \in Closer, Shutdown(c) \/ ShutdownStep(c)
      PROVE  UNCHANGED <<pool, e_i, e_pc>>
  BY <1>9 DEF Shutdown, ShutdownStep, ShutdownJoinable, ShutdownJoin, enqueueVars
<1>10. CASE UNCHANGED vars  BY <1>1, <1>10 DEF vars, enqueueVars, lifecycle
<1>11. CASE \E t \in Producer : Enqueue(t)
  <2>1. PICK t \in Producer : Enqueue(t)  BY <1>11
  <2>2. CASE AllocPool(t)  BY <1>3, <2>2
  <2>3. CASE Fill(t)  BY <1>0, <1>1, <1>4, <2>3
  <2>4. CASE Filling(t)
    <3>1. \A u \in Producer \ {t} : e_pc'[u] = e_pc[u] /\ e_i'[u] = e_i[u]
      BY <1>0, <2>4 DEF Filling, Goto
    <3> QED  BY <1>1, <1>5, <2>4, <3>1
  <2>5. CASE StartWorker(t) \/ StartThrows(t)  BY <1>1, <1>7, <2>5
  <2>6. CASE \/ EnsureRunning(t) \/ AcquireStep(t) \/ Drop(t) \/ Acquire(t)
             \/ Store(t) \/ Queue(t) \/ Count(t)
    BY <1>1, <1>6, <2>6
  <2> QED  BY <2>1, <2>2, <2>3, <2>4, <2>5, <2>6 DEF Enqueue
<1> QED  BY <1>1, <1>8, <1>9, <1>10, <1>11 DEF Next, Done

-----------------------------------------------------------------------------
(* What a call of the free list does to the places *)

\* A pop by thread t that has not taken effect yet, or takes none.
Pops(t) == PopLoad(t) \/ PopLoadNull(t) \/ PopStep(t) \/ PopRetryNull(t)

\* The list is what the history says also after a call of thread t, which takes its head,
\* adds its record or does neither.
LEMMA FreeCall ==
    ASSUME EngineInv, OnePlace, Linked, PushLinked, NEW t \in Thread, Calls(t), ~aba'
    PROVE  /\ Linked' /\ PushLinked'
           /\ PopCas(t) => /\ fl_h[t] \in Record /\ InList(fl_h[t])
                           /\ \A r \in Record : InList(r)' <=> InList(r) /\ r # fl_h[t]
           /\ PushCas(t) => \A r \in Record : InList(r)' <=> InList(r) \/ r = fl_n[t]
           /\ Pops(t) \/ PushStep(t) \/ (\E n \in Record : PushLoad(t, n)) =>
                 \A r \in Record : InList(r)' <=> InList(r)
<1>0. FreeListTypeOK /\ "free" \in Place /\ "push" \in Place /\ Worker \in Thread
  BY DEF EngineInv, TypeOK, Place
<1>1. ASSUME Pushing(t) PROVE fl_n[t] \in Record /\ ~InList(fl_n[t])
  <2>1. fl_n[t] \in Record  BY <1>0, <1>1 DEF FreeListTypeOK, FreePtr
  <2>2. Holds("push", t, fl_n[t])  BY <1>1 DEF Holds, Pushes
  <2>3. InList(fl_n[t]) => Holds("free", Worker, fl_n[t])  BY DEF Holds
  <2> QED  BY <1>0, <2>1, <2>2, <2>3 DEF OnePlace
<1>2. PushLinked'
  <2>1. ASSUME Pushing(t), NEW u \in Thread \ {t}, Pushing(u) PROVE fl_n[u] # fl_n[t]
    <3>1. Holds("push", t, fl_n[t]) /\ Holds("push", u, fl_n[u])
      BY <2>1 DEF Holds, Pushes
    <3> QED  BY <1>0, <1>1, <2>1, <3>1 DEF OnePlace
  <2> QED  BY <1>0, <2>1, PushLinkedKept
<1>3. ASSUME PopCas(t)
      PROVE  /\ Linked' /\ fl_h[t] \in Record /\ InList(fl_h[t])
             /\ \A r \in Record : InList(r)' <=> InList(r) /\ r # fl_h[t]
  BY <1>0, <1>3, PopLinked
<1>4. ASSUME PushCas(t)
      PROVE  Linked' /\ \A r \in Record : InList(r)' <=> InList(r) \/ r = fl_n[t]
  <2>1. Pushing(t) /\ ~aba  BY <1>4 DEF PushCas, Pushing
  <2>2. free_next[fl_n[t]] = fl_h[t]  BY <1>4 DEF PushCas, PushLinked
  <2> QED  BY <1>0, <1>1, <1>4, <2>1, <2>2, PushLinkedStep
<1>5. ASSUME Pops(t) \/ PushStep(t) \/ (\E n \in Record : PushLoad(t, n))
      PROVE  Linked' /\ \A r \in Record : InList(r)' <=> InList(r)
  <2>1. CASE PushStep(t)
    <3>1. Pushing(t)  BY <2>1 DEF PushStep, PushLink, PushRetry, Pushing
    <3> QED  BY <1>0, <1>1, <2>1, <3>1, LinkKept
  <2>2. CASE Pops(t) \/ (\E n \in Record : PushLoad(t, n))
    BY <2>2, ListKept DEF Pops
  <2> QED  BY <1>5, <2>1, <2>2
<1> QED  BY <1>2, <1>3, <1>4, <1>5 DEF Calls, Pops

\* It begins, goes on with or ends the push of thread t.
LEMMA PushesOfCall ==
    ASSUME FreeListTypeOK, NEW t \in Thread, Calls(t)
    PROVE  /\ \A u \in Thread \ {t} : \A r : Pushes(u, r)' <=> Pushes(u, r)
           /\ Pops(t) \/ PopCas(t) => ~Pushing(t) /\ ~Pushing(t)'
           /\ PushStep(t) => \A r : Pushes(t, r)' <=> Pushes(t, r)
           /\ PushCas(t) => Pushing(t) /\ ~Pushing(t)'
           /\ \A n \in Record : PushLoad(t, n) =>
                 ~Pushing(t) /\ \A r : Pushes(t, r)' <=> r = n
<1> USE DEF FreeListTypeOK, Pushing
<1>1. ASSUME NEW u \in Thread \ {t}, NEW r PROVE Pushes(u, r)' <=> Pushes(u, r)
  BY OthersKeepLocals DEF Pushes
<1>2. ASSUME Pops(t) \/ PopCas(t) PROVE ~Pushing(t) /\ ~Pushing(t)'
  BY <1>2 DEF Pops, PopCas, PopLoad, PopLoadNull, PopStep, PopRead, PopRetry, PopRetryNull,
              Return, flVars
<1>3. ASSUME PushStep(t), NEW r PROVE Pushes(t, r)' <=> Pushes(t, r)
  BY <1>3 DEF PushStep, PushLink, PushRetry, Pushes
<1>4. ASSUME PushCas(t) PROVE Pushing(t) /\ ~Pushing(t)'
  BY <1>4 DEF PushCas, Return
<1>5. ASSUME NEW n \in Record, PushLoad(t, n)
      PROVE  ~Pushing(t) /\ \A r : Pushes(t, r)' <=> r = n
  BY <1>5 DEF PushLoad, Pushes
<1> QED  BY <1>1, <1>2, <1>3, <1>4, <1>5

-----------------------------------------------------------------------------
(* What a step does to the places *)

\* The places by the part of the system they belong to.
SameFree ==
    \A r \in Record : /\ InList(r)' <=> InList(r)
                      /\ \A t \in Thread : Pushes(t, r)' <=> Pushes(t, r)
SameOwn ==
    \A r \in Record : /\ InQueue(r)' <=> InQueue(r)
                      /\ \A t \in Producer : (r \in OwnedBy(t))' <=> r \in OwnedBy(t)
SameHand ==
    \A r \in Record : (w_rec' = r <=> w_rec = r) /\ (Keeps(r)' <=> Keeps(r))

\* A step that concerns no place at all.
LEMMA StaysIf == ASSUME SameFree, SameOwn, SameHand PROVE Stays
BY DEF SameFree, SameOwn, SameHand, Stays, Holds

\* Each part depends on its own variables.
LEMMA SameIf ==
    /\ UNCHANGED <<fl_pc, fl_n, free_stack>> => SameFree
    /\ UNCHANGED <<e_pc, e_rec, q_pc, fifo>> => SameOwn
    /\ UNCHANGED <<w_pc, w_rec, pending_recycle>> => SameHand
<1>1. ASSUME UNCHANGED <<fl_pc, fl_n, free_stack>> PROVE SameFree
  BY <1>1 DEF SameFree, InList, Pushes, Pushing
<1>2. ASSUME UNCHANGED <<e_pc, e_rec, q_pc, fifo>> PROVE SameOwn
  BY <1>2 DEF SameOwn, InQueue, OwnedBy
<1>3. ASSUME UNCHANGED <<w_pc, w_rec, pending_recycle>> PROVE SameHand
  BY <1>3 DEF SameHand, Keeps
<1> QED  BY <1>1, <1>2, <1>3

\* What producer t owns, if the others are left alone and the queue is not touched.
LEMMA OwnIf ==
    ASSUME NEW t \in Producer, Alone(t), UNCHANGED fifo, OwnedBy(t)' = OwnedBy(t)
    PROVE  SameOwn
<1>1. ASSUME NEW u \in Producer, u # t PROVE OwnedBy(u)' = OwnedBy(u)
  BY <1>1 DEF Alone, OwnedBy
<1> QED  BY <1>1 DEF SameOwn, InQueue

\* Producer t takes a record of the pool to fill it.
LEMMA PlacesFill ==
    ASSUME EngineInv, Control, Placed, Linked, PushLinked, ~aba', NEW t \in Producer, Fill(t)
    PROVE  Enters
<1>0. PICK m \in Record : m = <<pool, e_i[t]>>  BY FilledRecord
<1>1. m \in Record /\ Calls(t) /\ PushLoad(t, m) /\ FreeListTypeOK /\ t \in Thread
  BY <1>0 DEF Fill, Calls, EngineInv, TypeOK
<1>2. \A r \in Record : InList(r)' <=> InList(r)  BY <1>1, FreeCall DEF Placed
<1>3. /\ \A u \in Thread \ {t} : \A r : Pushes(u, r)' <=> Pushes(u, r)
      /\ ~Pushing(t) /\ \A r : Pushes(t, r)' <=> r = m
  BY <1>1, PushesOfCall
<1>4. SameOwn
  <2>1. UNCHANGED fifo /\ OwnedBy(t)' = OwnedBy(t)
    BY AtCall DEF Fill, Goto, OwnedBy, queueVars
  <2> QED  BY <2>1, OwnIf, EnqueueAlone DEF Enqueue
<1>5. SameHand  BY SameIf DEF Fill, besideEnqueue, workerVars
<1>6. e_pc[t] = "fill" /\ e_i[t] \in Nat  BY AtCall DEF Fill, Goto
<1>7. ~Handed(m)  BY <1>0, <1>6 DEF Handed
<1>8. \A k \in Place, u \in Thread : ~Holds(k, u, m)  BY <1>1, <1>7 DEF Placed, Supplied
<1>9. Puts("push", t, m)
  <2>1. ASSUME NEW r \in Record, r # m, NEW k \in Place, NEW u \in Thread
        PROVE  Holds(k, u, r)' <=> Holds(k, u, r)
    <3>1. Pushes(u, r)' <=> Pushes(u, r)  BY <1>3, <2>1 DEF Pushes
    <3> QED  BY <1>2, <1>4, <1>5, <3>1 DEF Holds, SameOwn, SameHand
  <2>2. ASSUME NEW k \in Place, NEW u \in Thread
        PROVE  Holds(k, u, m)' <=> k = "push" /\ u = t
    <3>1. ~InList(m) /\ ~InQueue(m) /\ w_rec # m /\ ~Keeps(m) /\ ~Pushes(u, m)
          /\ (u \in Producer => m \notin OwnedBy(u))
      BY <1>8, Bounds DEF Holds, Place
    <3>2. Pushes(u, m)' <=> u = t  BY <1>3, <3>1
    <3> QED  BY <1>1, <1>2, <1>4, <1>5, <3>1, <3>2 DEF Holds, SameOwn, SameHand
  <2> QED  BY <2>1, <2>2 DEF Puts
<1> QED  BY <1>0, <1>9 DEF Enters

\* A push of thread t takes effect: its record is free.
LEMMA PlacesPush ==
    ASSUME EngineInv, Placed, Linked, PushLinked, ~aba', NEW t \in Thread, PushCas(t),
           SameOwn, SameHand
    PROVE  Moves
<1>0. PICK m \in Record : m = fl_n[t]
  BY DEF EngineInv, TypeOK, FreeListTypeOK, FreePtr, PushCas, Pushing
<1>1. Calls(t) /\ FreeListTypeOK  BY DEF Calls, EngineInv, TypeOK
<1>2. \A r \in Record : InList(r)' <=> InList(r) \/ r = m  BY <1>0, <1>1, FreeCall DEF Placed
<1>3. /\ \A u \in Thread \ {t} : \A r : Pushes(u, r)' <=> Pushes(u, r)
      /\ Pushing(t) /\ ~Pushing(t)'
  BY <1>1, PushesOfCall
<1>4. m \in Record /\ Holds("push", t, m)
  BY <1>0, <1>3 DEF Holds, Pushes
<1>5. \A k \in Place, u \in Thread : Holds(k, u, m) => k = "push" /\ u = t
  BY <1>4 DEF Placed, OnePlace, Place
<1>6. Puts("free", Worker, m)
  <2>1. \A r \in Record, u \in Thread : Pushes(u, r)' <=> Pushes(u, r) /\ u # t
    BY <1>3 DEF Pushes
  <2>2. \A r \in Record : Pushes(t, r) => r = m  BY <1>0 DEF Pushes
  <2>3. ASSUME NEW r \in Record, r # m, NEW k \in Place, NEW u \in Thread
        PROVE  Holds(k, u, r)' <=> Holds(k, u, r)
    BY <1>2, <2>1, <2>2, <2>3 DEF Holds, SameOwn, SameHand
  <2>4. ASSUME NEW k \in Place, NEW u \in Thread
        PROVE  Holds(k, u, m)' <=> k = "free" /\ u = Worker
    <3>1. ~InList(m) /\ ~InQueue(m) /\ w_rec # m /\ ~Keeps(m) /\ (u # t => ~Pushes(u, m))
          /\ (u \in Producer => m \notin OwnedBy(u))
      BY <1>5, Bounds DEF Holds, Place
    <3> QED  BY <1>2, <1>4, <2>1, <3>1 DEF Holds, SameOwn, SameHand
  <2> QED  BY <2>3, <2>4 DEF Puts
<1> QED  BY <1>4, <1>6, Bounds DEF Moves, Place

\* Producer t takes the head of the free list.
LEMMA PlacesAcquire ==
    ASSUME EngineInv, Control, Placed, Linked, PushLinked, ~aba', NEW t \in Producer,
           Acquire(t)
    PROVE  Moves
<1>1. Calls(t) /\ PopCas(t) /\ FreeListTypeOK /\ t \in Thread
  BY DEF Acquire, Calls, EngineInv, TypeOK
<1>2. /\ fl_h[t] \in Record /\ InList(fl_h[t])
      /\ \A r \in Record : InList(r)' <=> InList(r) /\ r # fl_h[t]
  BY <1>1, FreeCall DEF Placed
<1>0. PICK m \in Record : m = fl_h[t]  BY <1>2
<1>3. \A u \in Thread, r \in Record : Pushes(u, r)' <=> Pushes(u, r)
  BY <1>1, PushesOfCall DEF Pushes
<1>4. /\ OwnedBy(t) = {} /\ OwnedBy(t)' = {m} /\ UNCHANGED fifo
      /\ \A u \in Producer \ {t} : OwnedBy(u)' = OwnedBy(u)
  <2>1. /\ e_pc[t] = "acquire" /\ e_pc'[t] = "store" /\ e_rec'[t] = m /\ UNCHANGED <<q_pc, fifo>>
        /\ q_pc[t] = "idle"
    <3>1. e_pc[t] = "acquire" /\ e_pc'[t] = "store" /\ UNCHANGED queueVars
      BY AtCall DEF Acquire, Goto
    <3>2. e_rec'[t] = m  BY <1>0, AtCall DEF Acquire
    <3> QED  BY <3>1, <3>2 DEF queueVars, Control, Busy
  <2>2. \A u \in Producer \ {t} : OwnedBy(u)' = OwnedBy(u)
    <3>1. Alone(t)  BY EnqueueAlone DEF Enqueue
    <3> QED  BY <3>1 DEF Alone, OwnedBy
  <2> QED  BY <2>1, <2>2 DEF OwnedBy
<1>5. SameHand  BY SameIf DEF Acquire, besideEnqueue, workerVars
<1>6. Holds("free", Worker, m)  BY <1>0, <1>2 DEF Holds
<1>7. \A k \in Place, u \in Thread : Holds(k, u, m) => k = "free" /\ u = Worker
  BY <1>6, Bounds DEF Placed, OnePlace, Place
<1>8. Puts("own", t, m)
  <2>1. ASSUME NEW r \in Record, r # m, NEW k \in Place, NEW u \in Thread
        PROVE  Holds(k, u, r)' <=> Holds(k, u, r)
    BY <1>0, <1>2, <1>3, <1>4, <1>5, <2>1 DEF Holds, SameHand, InQueue
  <2>2. ASSUME NEW k \in Place, NEW u \in Thread
        PROVE  Holds(k, u, m)' <=> k = "own" /\ u = t
    <3>1. ~InQueue(m) /\ w_rec # m /\ ~Keeps(m) /\ ~Pushes(u, m)
          /\ (u \in Producer => m \notin OwnedBy(u))
      BY <1>7, Bounds DEF Holds, Place
    <3> QED  BY <1>0, <1>2, <1>3, <1>4, <1>5, <3>1 DEF Holds, SameHand, InQueue
  <2> QED  BY <2>1, <2>2 DEF Puts
<1> QED  BY <1>6, <1>8, Bounds DEF Moves, Place

\* Producer t exchanges its record into the queue.
LEMMA PlacesSwap ==
    ASSUME EngineInv, Control, Placed, NEW t \in Producer, Queue(t), QSwap(t)
    PROVE  Moves
<1>1. /\ e_pc[t] = "queue" /\ e_pc'[t] \in {"queue", "count"} /\ q_pc[t] = "swap"
      /\ q_pc'[t] = "link" /\ q_n[t] = e_rec[t] /\ e_rec[t] \in Record
      /\ UNCHANGED flVars /\ fifo \in Seq(Record) /\ fifo' = Append(fifo, e_rec[t])
  BY AtCall DEF Queue, Goto, QSwap, Control, Busy, Equipped, MpscQueueTypeOK
<1>0. PICK m \in Record : m = e_rec[t]  BY <1>1
<1>2. \A r \in Record : InQueue(r)' <=> InQueue(r) \/ r = m
  <2>1. /\ Len(fifo) \in Nat /\ Len(fifo') = Len(fifo) + 1 /\ fifo'[Len(fifo) + 1] = m
        /\ \A i \in 1..Len(fifo) : fifo'[i] = fifo[i]
    BY <1>0, <1>1
  <2> QED  BY <2>1 DEF InQueue
<1>3. SameFree  BY <1>1, SameIf DEF flVars
<1>4. /\ OwnedBy(t) = {m} /\ OwnedBy(t)' = {}
      /\ \A u \in Producer \ {t} : OwnedBy(u)' = OwnedBy(u)
  <2>1. \A u \in Producer \ {t} : OwnedBy(u)' = OwnedBy(u)
    <3>1. Alone(t)  BY EnqueueAlone DEF Enqueue
    <3> QED  BY <3>1 DEF Alone, OwnedBy
  <2> QED  BY <1>0, <1>1, <2>1 DEF OwnedBy
<1>5. SameHand  BY SameIf DEF Queue, besideEnqueue, workerVars
<1>6. Holds("own", t, m)  BY <1>4 DEF Holds
<1>7. \A k \in Place, u \in Thread : Holds(k, u, m) => k = "own" /\ u = t
  BY <1>6, Bounds DEF Placed, OnePlace, Place
<1>8. Puts("queue", Worker, m)
  <2>1. ASSUME NEW r \in Record, r # m, NEW k \in Place, NEW u \in Thread
        PROVE  Holds(k, u, r)' <=> Holds(k, u, r)
    BY <1>2, <1>3, <1>4, <1>5, <2>1 DEF Holds, SameHand, SameFree
  <2>2. ASSUME NEW k \in Place, NEW u \in Thread
        PROVE  Holds(k, u, m)' <=> k = "queue" /\ u = Worker
    <3>1. ~InList(m) /\ w_rec # m /\ ~Keeps(m) /\ ~Pushes(u, m)
          /\ (u \in Producer /\ u # t => m \notin OwnedBy(u))
      BY <1>7, Bounds DEF Holds, Place
    <3> QED  BY <1>2, <1>3, <1>4, <1>5, <3>1 DEF Holds, SameHand, SameFree
  <2> QED  BY <2>1, <2>2 DEF Puts
<1> QED  BY <1>6, <1>8, Bounds DEF Moves, Place

\* The steps of enqueue(): to fill, to push, to take and to exchange a record; the others
\* leave every record in its place.
LEMMA PlacesEnqueue ==
    ASSUME EngineInv, Control, Placed, Linked, PushLinked, ~aba', NEW t \in Producer,
           Enqueue(t)
    PROVE  Stays \/ Moves \/ Enters
<1> USE DEF Goto, besideEnqueue, workerVars
<1>0. /\ Alone(t) /\ Busy(t) /\ t \in Thread /\ FreeListTypeOK /\ MpscQueueTypeOK
      /\ e_pc \in [Producer -> {"idle", "alloc", "fill", "filling", "acquire",
                                "store", "queue", "count"}]
      /\ q_pc \in [Thread -> {"idle", "swap", "link"}]
  BY EnqueueAlone, AtCall DEF Control, MpscQueueTypeOK
<1>1. CASE Fill(t)  BY <1>1, PlacesFill
<1>2. CASE Acquire(t)  BY <1>2, PlacesAcquire
<1>3. CASE Filling(t)
  <2>1. SameHand  BY <1>3, SameIf DEF Filling
  <2>2. SameOwn
    <3>1. UNCHANGED fifo /\ OwnedBy(t)' = OwnedBy(t)
      BY <1>0, <1>3 DEF Filling, queueVars, OwnedBy
    <3> QED  BY <1>0, <3>1, OwnIf
  <2>3. CASE PushCas(t)  BY <1>0, <2>1, <2>2, <2>3, PlacesPush
  <2>4. CASE PushStep(t)
    <3>1. SameFree
      BY <1>0, <2>4, FreeCall, PushesOfCall DEF Calls, SameFree, Placed
    <3> QED  BY <2>1, <2>2, <3>1, StaysIf
  <2> QED  BY <1>3, <2>3, <2>4 DEF Filling
<1>4. CASE AcquireStep(t) \/ Drop(t)
  <2>1. SameHand  BY <1>4, SameIf DEF AcquireStep, Drop
  <2>2. SameOwn
    <3>1. UNCHANGED fifo /\ OwnedBy(t)' = OwnedBy(t)
      BY <1>0, <1>4 DEF AcquireStep, Drop, queueVars, OwnedBy
    <3> QED  BY <1>0, <3>1, OwnIf
  <2>3. Pops(t) /\ Calls(t)  BY <1>4 DEF AcquireStep, Drop, Pops, Calls
  <2>4. SameFree
    BY <1>0, <2>3, FreeCall, PushesOfCall DEF SameFree, Placed, Pushes
  <2> QED  BY <2>1, <2>2, <2>4, StaysIf
<1>5. CASE Queue(t)
  <2>1. CASE QSwap(t)  BY <1>5, <2>1, PlacesSwap
  <2>2. CASE ~QSwap(t)
    <3>1. SameHand /\ SameFree  BY <1>5, SameIf DEF Queue, flVars
    <3>2. UNCHANGED fifo /\ OwnedBy(t)' = OwnedBy(t)
      BY <1>0, <1>5, <2>2 DEF Queue, QClear, QLink, OwnedBy
    <3> QED  BY <1>0, <3>1, <3>2, OwnIf, StaysIf
  <2> QED  BY <2>1, <2>2
<1>6. CASE EnsureRunning(t) \/ AllocPool(t) \/ StartThrows(t) \/ Store(t) \/ Count(t)
  <2>1. SameHand /\ SameFree
    BY <1>6, SameIf DEF EnsureRunning, AllocPool, StartThrows, Store, Count, flVars
  <2>2. UNCHANGED fifo /\ OwnedBy(t)' = OwnedBy(t)
    BY <1>0, <1>6
       DEF EnsureRunning, AllocPool, StartThrows, Store, Count, queueVars, OwnedBy
  <2> QED  BY <1>0, <2>1, <2>2, OwnIf, StaysIf
<1>7. CASE StartWorker(t)
  <2>1. SameFree  BY <1>7, SameIf DEF StartWorker, flVars
  <2>2. UNCHANGED fifo /\ OwnedBy(t)' = OwnedBy(t)
    BY <1>0, <1>7 DEF StartWorker, queueVars, OwnedBy
  <2>3. SameHand
    <3>1. worker_ = "joinable" \/ (w_pc = "none" /\ w_rec = NULL)
      <4>1. worker_ \in {"none", "joinable"}  BY DEF EngineInv, TypeOK
      <4> QED  BY <4>1 DEF Control, WorkerBusy
    <3>2. CASE worker_ = "joinable"  BY <1>7, <3>2, SameIf DEF StartWorker
    <3>3. CASE w_pc = "none" /\ w_rec = NULL /\ worker_ # "joinable"
      BY <1>7, <3>3 DEF StartWorker, SameHand, Keeps
    <3> QED  BY <3>1, <3>2, <3>3
  <2> QED  BY <1>0, <2>1, <2>2, <2>3, OwnIf, StaysIf
<1> QED  BY <1>1, <1>2, <1>3, <1>4, <1>5, <1>6, <1>7 DEF Enqueue

-----------------------------------------------------------------------------
(* The queue *)

\* The dummy of the queue: the record in the worker's hands, else the one it keeps back,
\* else the stub.
Dummy ==
    IF w_rec # NULL THEN w_rec
    ELSE IF /\ w_pc \in {"loop", "empty", "pop", "reset"} /\ c_pc # "reset_tail"
            /\ pending_recycle # NULL
         THEN pending_recycle
         ELSE Stub

\* The links spell the queue except within reset(), and a worker that has left its main
\* loop, like one that is gone, has left nothing behind, unless a start has failed.
QueueSound ==
    /\ c_pc # "reset_tail" => Chained
    /\ c_pc = "reset_tail" => next[Stub] = NULL
    /\ PushesSound
    /\ head_ = Dummy
    /\ w_pc # "none" /\ w_stage # "main" => fifo = <<>>
    /\ w_pc = "none" /\ ~run_ /\ thrown = 0 => fifo = <<>>
    /\ w_stage = "drain" => w_pc \in {"pop", "reset"}
    /\ w_pc = "done" => w_stage = "last"

\* A record that is in none of the worker's places is not the dummy.
LEMMA NotDummy ==
    ASSUME QueueSound, NEW r \in Record, w_rec # r, ~Keeps(r)
    PROVE  head_ # r
BY DEF QueueSound, Dummy, Keeps

\* The worker pops the first record of the queue.
LEMMA PlacesPop ==
    ASSUME EngineInv, Control, Placed, QueueSound, WorkerPop
    PROVE  Moves
<1>1. /\ c_pc # "reset_tail" /\ Advance /\ w_pc = "pop" /\ w_rec = NULL
      /\ UNCHANGED <<flVars, pending_recycle>> /\ w_rec' = NextOfHead
      /\ w_pc' = IF pending_recycle = NULL THEN "submit" ELSE "recycle"
  BY DEF WorkerPop, QPop, QPopSpun, WGoto, Control, WorkerBusy
<1>2. Queued  BY <1>1 DEF Queued, QueueSound, EngineInv, TypeOK
<1>3. /\ fifo[1] \in Record /\ InQueue(fifo[1]) /\ NextOfHead = fifo[1]
      /\ \A x : InQueue(x)' <=> (InQueue(x) /\ x # fifo[1])
  BY <1>1, <1>2, AdvanceChain, NextIsFirst DEF Advance, Queued
<1>0. PICK m \in Record : m = fifo[1]  BY <1>3
<1>4. SameFree  BY <1>1, SameIf DEF flVars
<1>5. \A u \in Producer : OwnedBy(u)' = OwnedBy(u)
  BY LoopAlone DEF WorkerStep, OwnedBy, enqueueVars
<1>6. \A r \in Record : Keeps(r)' <=> Keeps(r)  BY <1>1 DEF Keeps
<1>7. Holds("queue", Worker, m)  BY <1>0, <1>3 DEF Holds
<1>8. \A k \in Place, u \in Thread : Holds(k, u, m) => k = "queue" /\ u = Worker
  BY <1>7 DEF Placed, OnePlace, Place
<1>9. Puts("hand", Worker, m)
  <2>1. ASSUME NEW r \in Record, r # m, NEW k \in Place, NEW u \in Thread
        PROVE  Holds(k, u, r)' <=> Holds(k, u, r)
    BY <1>0, <1>1, <1>3, <1>4, <1>5, <1>6, <2>1 DEF Holds, SameFree
  <2>2. ASSUME NEW k \in Place, NEW u \in Thread
        PROVE  Holds(k, u, m)' <=> k = "hand" /\ u = Worker
    <3>1. ~InList(m) /\ ~Keeps(m) /\ ~Pushes(u, m) /\ (u \in Producer => m \notin OwnedBy(u))
      BY <1>8 DEF Holds, Place
    <3> QED  BY <1>0, <1>1, <1>3, <1>4, <1>5, <1>6, <3>1 DEF Holds, SameFree
  <2> QED  BY <2>1, <2>2 DEF Puts
<1> QED  BY <1>7, <1>9 DEF Moves, Place

\* The worker recycles the record that it kept back.
LEMMA PlacesRecycle ==
    ASSUME EngineInv, Control, Placed, Linked, PushLinked, ~aba', WorkerRecycle
    PROVE  Stays \/ Moves
<1>1. SameOwn
  <2>1. UNCHANGED fifo /\ \A u \in Producer : OwnedBy(u)' = OwnedBy(u)
    BY LoopAlone DEF WorkerStep, WorkerRecycle, queueVars, OwnedBy, enqueueVars
  <2> QED  BY <2>1 DEF SameOwn, InQueue
<1>2. UNCHANGED <<w_rec, pending_recycle>> /\ FreeListTypeOK
  BY DEF WorkerRecycle, loopLocals, EngineInv, TypeOK
<1>3. CASE WGoto("recycle", "recycling") /\ PushLoad(Worker, pending_recycle)
  <2>0. PICK m \in Record : m = pending_recycle
    BY <1>3, AtLoop DEF WorkerEquipped, FreePtr, WGoto
  <2>1. Calls(Worker) /\ PushLoad(Worker, m)  BY <1>3, <2>0 DEF Calls
  <2>2. \A r \in Record : InList(r)' <=> InList(r)  BY <2>1, FreeCall DEF Placed
  <2>3. /\ \A u \in Thread \ {Worker} : \A r : Pushes(u, r)' <=> Pushes(u, r)
        /\ ~Pushing(Worker) /\ \A r : Pushes(Worker, r)' <=> r = m
    BY <1>2, <2>1, PushesOfCall
  <2>4. Keeps(m) /\ \A r \in Record : ~Keeps(r)' /\ (Keeps(r) => r = m)
    BY <1>2, <1>3, <2>0 DEF Keeps, WGoto
  <2>5. Holds("kept", Worker, m)  BY <2>4 DEF Holds
  <2>6. \A k \in Place, u \in Thread : Holds(k, u, m) => k = "kept" /\ u = Worker
    BY <2>5 DEF Placed, OnePlace, Place
  <2>7. Puts("push", Worker, m)
    <3>1. ASSUME NEW r \in Record, r # m, NEW k \in Place, NEW u \in Thread
          PROVE  Holds(k, u, r)' <=> Holds(k, u, r)
      <4>1. Pushes(u, r)' <=> Pushes(u, r)  BY <2>3, <3>1 DEF Pushes
      <4> QED  BY <1>1, <1>2, <2>2, <2>4, <3>1, <4>1 DEF Holds, SameOwn
    <3>2. ASSUME NEW k \in Place, NEW u \in Thread
          PROVE  Holds(k, u, m)' <=> k = "push" /\ u = Worker
      <4>1. ~InList(m) /\ ~InQueue(m) /\ w_rec # m /\ ~Pushes(u, m)
            /\ (u \in Producer => m \notin OwnedBy(u))
        BY <2>6 DEF Holds, Place
      <4>2. Pushes(u, m)' <=> u = Worker  BY <2>3, <4>1
      <4> QED  BY <1>1, <1>2, <2>2, <2>4, <4>1, <4>2 DEF Holds, SameOwn
    <3> QED  BY <3>1, <3>2 DEF Puts
  <2> QED  BY <2>5, <2>7 DEF Moves, Place
<1>4. CASE WGoto("recycling", "recycling") /\ PushStep(Worker)
  <2>1. SameHand  BY <1>2, <1>4 DEF SameHand, Keeps, WGoto
  <2>2. SameFree  BY <1>2, <1>4, FreeCall, PushesOfCall DEF Calls, SameFree, Placed
  <2> QED  BY <1>1, <2>1, <2>2, StaysIf
<1>5. CASE /\ WGoto("recycling", IF w_stage = "last" THEN "done" ELSE "submit")
           /\ PushCas(Worker)
  <2>1. SameHand  BY <1>2, <1>5 DEF SameHand, Keeps, WGoto
  <2> QED  BY <1>1, <1>5, <2>1, PlacesPush
<1> QED  BY <1>3, <1>4, <1>5 DEF WorkerRecycle

\* The worker keeps back the record that it has printed.
LEMMA PlacesSubmit ==
    ASSUME EngineInv, Control, Placed, WorkerSubmit
    PROVE  Moves
<1>1. /\ w_pc = "submit" /\ w_pc' \in {"loop", "pop"} /\ w_rec \in Record
      /\ w_rec' = NULL /\ pending_recycle' = w_rec /\ UNCHANGED <<flVars, queueVars>>
  BY AtLoop DEF WorkerSubmit, WGoto, WorkerEquipped
<1>0. PICK m \in Record : m = w_rec  BY <1>1
<1>2. SameFree  BY <1>1, SameIf DEF flVars
<1>3. SameOwn  BY <1>1, SameIf DEF WorkerSubmit, queueVars, enqueueVars
<1>4. \A r \in Record : ~Keeps(r) /\ (Keeps(r)' <=> r = m)  BY <1>0, <1>1 DEF Keeps
<1>5. Holds("hand", Worker, m)  BY <1>0 DEF Holds
<1>6. \A k \in Place, u \in Thread : Holds(k, u, m) => k = "hand" /\ u = Worker
  BY <1>5 DEF Placed, OnePlace, Place
<1>7. Puts("kept", Worker, m)
  <2>1. ASSUME NEW r \in Record, r # m, NEW k \in Place, NEW u \in Thread
        PROVE  Holds(k, u, r)' <=> Holds(k, u, r)
    BY <1>0, <1>1, <1>2, <1>3, <1>4, <2>1 DEF Holds, SameFree, SameOwn
  <2>2. ASSUME NEW k \in Place, NEW u \in Thread
        PROVE  Holds(k, u, m)' <=> k = "kept" /\ u = Worker
    <3>1. ~InList(m) /\ ~InQueue(m) /\ ~Pushes(u, m) /\ (u \in Producer => m \notin OwnedBy(u))
      BY <1>6 DEF Holds, Place
    <3> QED  BY <1>0, <1>1, <1>2, <1>3, <1>4, <3>1 DEF Holds, SameFree, SameOwn
  <2> QED  BY <2>1, <2>2 DEF Puts
<1> QED  BY <1>5, <1>7 DEF Moves, Place

\* The other steps of the worker leave every record in its place.
LEMMA PlacesLoop ==
    ASSUME EngineInv, Control, Placed, Linked, PushLinked, QueueSound, ~aba', WorkerStep
    PROVE  Stays \/ Moves
<1>1. CASE WorkerTest \/ WorkerAskEmpty \/ WorkerPopNone \/ WorkerReset
  <2>1. SameFree
    BY <1>1, SameIf DEF WorkerTest, WorkerAskEmpty, WorkerPopNone, WorkerReset, flVars
  <2>2. UNCHANGED <<e_pc, e_rec, q_pc>>  BY LoopAlone DEF enqueueVars
  <2>3. UNCHANGED fifo
    <3>1. CASE WorkerTest  BY <3>1 DEF WorkerTest, queueVars
    <3>2. CASE WorkerAskEmpty
      BY <3>2 DEF WorkerAskEmpty, QEmptyNo, QEmptyBusy, QEmptyMiss, QEmptyYes, ConsumerGoes
    <3>3. CASE WorkerPopNone
      BY <3>3 DEF WorkerPopNone, QPopMiss, QPopBusy, QPopEmpty, ConsumerGoes
    <3>4. CASE WorkerReset
      <4>1. fifo = <<>>
        BY <3>4 DEF WorkerReset, WGoto, QueueSound, Control, WorkerBusy
      <4> QED  BY <3>4, <4>1 DEF WorkerReset, QResetStub, QResetTail
    <3> QED  BY <1>1, <3>1, <3>2, <3>3, <3>4
  <2>4. SameHand
    <3>1. UNCHANGED <<w_rec, pending_recycle>>
      BY <1>1 DEF WorkerTest, WorkerAskEmpty, WorkerPopNone, WorkerReset, loopLocals
    <3>2. /\ w_pc \in {"loop", "empty", "pop", "reset"}
          /\ \/ w_pc' \in {"loop", "empty", "pop", "recycle", "reset"}
             \/ pending_recycle = NULL
      BY <1>1 DEF WorkerTest, WorkerAskEmpty, WorkerPopNone, WorkerReset, WGoto
    <3> QED  BY <3>1, <3>2 DEF SameHand, Keeps
  <2>5. SameOwn  BY <2>2, <2>3, SameIf
  <2> QED  BY <2>1, <2>4, <2>5, StaysIf
<1> QED  BY <1>1, PlacesPop, PlacesRecycle, PlacesSubmit DEF WorkerStep

\* A shutdown leaves every record in its place.
LEMMA PlacesShutdown ==
    ASSUME NEW c \in Closer, Shutdown(c) \/ ShutdownStep(c)
    PROVE  Stays
<1>1. SameFree /\ SameOwn
  BY SameIf DEF Shutdown, ShutdownStep, ShutdownJoinable, ShutdownJoin, flVars, queueVars,
                enqueueVars
<1>2. SameHand
  BY DEF Shutdown, ShutdownStep, ShutdownJoinable, ShutdownJoin, workerVars, loopLocals,
         SameHand, Keeps
<1> QED  BY <1>1, <1>2, StaysIf

\* Every step leaves each record where it is, moves one, or fills a new one.
LEMMA PlacesStep ==
    ASSUME EngineInv, Control, Placed, Linked, PushLinked, QueueSound, ~aba', [Next]_vars
    PROVE  Stays \/ Moves \/ Enters
<1>1. CASE UNCHANGED vars
  <2>1. SameFree /\ SameOwn /\ SameHand
    BY <1>1, SameIf DEF vars, flVars, queueVars, enqueueVars, workerVars
  <2> QED  BY <2>1, StaysIf
<1> QED  BY <1>1, PlacesEnqueue, PlacesLoop, PlacesShutdown DEF Next, Done

\* A record that was somewhere still is, and one that is somewhere was, unless it is filled.
LEMMA PlacesCarry ==
    ASSUME Stays \/ Moves \/ Enters, NEW r \in Record
    PROVE  /\ (\E k \in Place, t \in Thread : Holds(k, t, r)) =>
                 \E k \in Place, t \in Thread : Holds(k, t, r)'
           /\ (\E k \in Place, t \in Thread : Holds(k, t, r)') =>
                 \/ \E k \in Place, t \in Thread : Holds(k, t, r)
                 \/ \E t \in Producer : Fill(t) /\ r = <<pool, e_i[t]>>
<1>1. CASE Stays  BY <1>1 DEF Stays
<1>2. CASE Moves  BY <1>2 DEF Moves, Puts
<1>3. CASE Enters
  <2>1. PICK t \in Producer : Fill(t) /\ Puts("push", t, <<pool, e_i[t]>>)
    BY <1>3 DEF Enters
  <2>2. "push" \in Place /\ t \in Thread  BY DEF Place
  <2> QED  BY <2>1, <2>2 DEF Puts
<1> QED  BY <1>1, <1>2, <1>3

\* Each record stays in one place, and none appears that was not handed out or is lost.
LEMMA PlacedNext ==
    ASSUME EngineInv, StopInv, Control, Placed, [Next]_vars, Stays \/ Moves \/ Enters
    PROVE  Placed'
<1>1. OnePlace'
  <2> SUFFICES ASSUME NEW r \in Record, NEW k \in Place, NEW l \in Place,
                      NEW t \in Thread, NEW u \in Thread, Holds(k, t, r)', Holds(l, u, r)'
               PROVE  k = l /\ t = u
    BY DEF OnePlace
  <2>1. CASE Stays  BY <2>1 DEF Stays, Placed, OnePlace
  <2>2. ASSUME NEW m \in Record, NEW j \in Place, NEW v \in Thread, Puts(j, v, m)
        PROVE  k = l /\ t = u
    BY <2>2 DEF Puts, Placed, OnePlace
  <2>3. CASE Moves  BY <2>2, <2>3 DEF Moves
  <2>4. CASE Enters
    <3>1. PICK v \in Producer : Fill(v) /\ Puts("push", v, <<pool, e_i[v]>>)
      BY <2>4 DEF Enters
    <3>2. <<pool, e_i[v]>> \in Record /\ "push" \in Place /\ v \in Thread
      BY <3>1, FilledRecord DEF Place
    <3> QED  BY <2>2, <3>1, <3>2
  <2> QED  BY <2>1, <2>3, <2>4
<1>2. Supplied'
  <2> SUFFICES ASSUME NEW r \in Record, \E k \in Place, t \in Thread : Holds(k, t, r)'
               PROVE  Handed(r)'
    BY DEF Supplied
  <2>1. CASE \E k \in Place, t \in Thread : Holds(k, t, r)
    <3>1. Handed(r)  BY <2>1 DEF Placed, Supplied
    <3> QED  BY <3>1, HandedKept
  <2>2. CASE \E t \in Producer : Fill(t) /\ r = <<pool, e_i[t]>>
    <3>1. PICK t \in Producer : Fill(t) /\ r = <<pool, e_i[t]>>  BY <2>2
    <3>2. /\ pool' = pool /\ e_i' = e_i /\ pool \in Nat /\ e_i[t] \in Nat
          /\ e_pc[t] = "fill" /\ e_pc'[t] = "filling"
          /\ \A u \in Producer \ {t} : e_pc'[u] = e_pc[u]
      BY <3>1, AtCall DEF Fill, Goto, besideEnqueue, lifecycle
    <3>3. \A u \in Producer : e_pc'[u] \in {"fill", "filling"} => u = t
      BY <3>2 DEF StopInv, Apart, InStart
    <3> QED  BY <3>1, <3>2, <3>3 DEF Handed
  <2> QED  BY <2>1, <2>2, PlacesCarry
<1>3. Conserved'
  <2> SUFFICES ASSUME NEW r \in Filled'
               PROVE  \E k \in Place, t \in Thread : Holds(k, t, r)'
    BY DEF Conserved
  <2>1. r \in Record
    <3>1. pool' \in 0..Pools  BY EngineNextInv DEF EngineInv, TypeOK
    <3> QED  BY <3>1, LogEngineAssumption DEF Filled, LogEngineAssumption, Pools
  <2>2. CASE r \in Filled  BY <2>1, <2>2, PlacesCarry DEF Placed, Conserved
  <2>3. CASE \E t \in Producer : Filling(t) /\ PushCas(t) /\ r = fl_n[t]
    <3>1. PICK t \in Producer : PushCas(t) /\ r = fl_n[t]  BY <2>3
    <3>2. Holds("push", t, r) /\ "push" \in Place /\ t \in Thread
      BY <3>1 DEF Holds, Pushes, Pushing, PushCas, Place
    <3> QED  BY <2>1, <3>2, PlacesCarry
  <2> QED  BY <2>2, <2>3, FilledGrows
<1> QED  BY <1>1, <1>2, <1>3 DEF Placed

-----------------------------------------------------------------------------
(* The free list *)

\* The list is what the history says, whoever steps.
LEMMA FreeNext ==
    ASSUME EngineInv, Placed, Linked, PushLinked, ~aba', [Next]_vars
    PROVE  Linked' /\ PushLinked'
<1>1. CASE UNCHANGED flVars
  BY <1>1 DEF flVars, Linked, PushLinked
<1>2. ASSUME NEW t \in Thread, Calls(t) PROVE Linked' /\ PushLinked'
  BY <1>2, FreeCall DEF Placed
<1>3. ASSUME NEW t \in Producer, Enqueue(t) PROVE Calls(t) \/ UNCHANGED flVars
  <2>1. Fill(t) => Calls(t)  BY FilledRecord DEF Fill, Calls
  <2>2. Filling(t) \/ AcquireStep(t) \/ Drop(t) \/ Acquire(t) => Calls(t)
    BY DEF Filling, AcquireStep, Drop, Acquire, Calls
  <2> QED  BY <1>3, <2>1, <2>2
              DEF Enqueue, EnsureRunning, AllocPool, StartWorker, StartThrows, Store, Queue,
                  Count
<1>4. ASSUME WorkerStep PROVE Calls(Worker) \/ UNCHANGED flVars
  <2>1. WorkerRecycle => Calls(Worker)
    <3>1. w_pc = "recycle" => pending_recycle \in Record
      BY AtLoop DEF WorkerEquipped, FreePtr
    <3> QED  BY <3>1 DEF WorkerRecycle, Calls, WGoto
  <2> QED  BY <1>4, <2>1 DEF WorkerStep, WorkerTest, WorkerAskEmpty, WorkerPop,
              WorkerPopNone, WorkerSubmit, WorkerReset
<1>5. ASSUME NEW c \in Closer, Shutdown(c) \/ ShutdownStep(c) PROVE UNCHANGED flVars
  BY <1>5 DEF Shutdown, ShutdownStep, ShutdownJoinable, ShutdownJoin
<1>6. CASE UNCHANGED vars  BY <1>1, <1>6 DEF vars
<1> QED  BY <1>1, <1>2, <1>3, <1>4, <1>5, <1>6 DEF Next, Done

-----------------------------------------------------------------------------
(* The engine runs while somebody is inside enqueue() *)

\* A running engine has a worker, or the producer that is starting it, unless a start
\* has failed.
Running ==
    /\ \A t \in Producer : e_pc[t] # "idle" => run_
    /\ run_ /\ thrown = 0 => worker_ = "joinable" \/ \E t \in Producer : InStart(t)

\* At first it is not running.
LEMMA RunningInit == Init => Running
BY DEF Init, Running

\* Who keeps the calls apart never stops an engine that is in use.
LEMMA RunningNext ==
    ASSUME Quiet, EngineInv, StopInv, Running, [Next]_vars PROVE Running'
<1>0. e_pc \in [Producer -> {"idle", "alloc", "fill", "filling", "acquire", "store",
                             "queue", "count"}]
      /\ worker_ \in {"none", "joinable"} /\ thrown \in Nat
  BY DEF EngineInv, TypeOK
<1>1. CASE UNCHANGED <<e_pc, run_, worker_, thrown>>  BY <1>1 DEF Running, InStart
<1>2. ASSUME NEW t \in Producer, EnsureRunning(t) PROVE Running'
  <2>1. /\ e_pc' = [e_pc EXCEPT ![t] = IF run_ THEN "acquire" ELSE "alloc"]
        /\ e_pc[t] = "idle" /\ run_' /\ worker_' = worker_ /\ thrown' = thrown
    BY <1>2 DEF EnsureRunning, Goto
  <2>2. CASE run_  BY <1>0, <2>1, <2>2 DEF Running, InStart
  <2>3. CASE ~run_  BY <1>0, <2>1, <2>3 DEF Running, InStart
  <2> QED  BY <2>2, <2>3
<1>3. ASSUME NEW t \in Producer, AllocPool(t) \/ Fill(t) \/ Filling(t) PROVE Running'
  <2>1. /\ InStart(t) /\ InStart(t)' /\ UNCHANGED <<run_, worker_, thrown>>
        /\ \A u \in Producer \ {t} : e_pc'[u] = e_pc[u]
    BY <1>0, <1>3 DEF AllocPool, Fill, Filling, Goto, InStart, besideEnqueue, lifecycle
  <2> QED  BY <2>1 DEF Running, InStart
<1>4. ASSUME NEW t \in Producer, StartWorker(t) PROVE Running'
  <2>1. /\ e_pc[t] = "fill" /\ worker_' = "joinable" /\ run_' = run_
        /\ \A u \in Producer \ {t} : e_pc'[u] = e_pc[u]
    BY <1>0, <1>4 DEF StartWorker, Goto
  <2> QED  BY <2>1 DEF Running
<1>5. ASSUME NEW t \in Producer,
             AcquireStep(t) \/ Drop(t) \/ Acquire(t) \/ Store(t) \/ Queue(t) \/ Count(t)
      PROVE  Running'
  <2>1. /\ e_pc[t] # "idle" /\ ~InStart(t) /\ UNCHANGED <<run_, worker_, thrown>>
        /\ \A u \in Producer \ {t} : e_pc'[u] = e_pc[u]
    BY <1>0, <1>5 DEF AcquireStep, Drop, Acquire, Store, Queue, Count, Goto, InStart,
                      besideEnqueue, lifecycle
  <2> QED  BY <2>1 DEF Running, InStart
<1>6. CASE WorkerStep  BY <1>1, <1>6, LoopAlone DEF enqueueVars, lifecycle
<1>7. ASSUME NEW c \in Closer, Shutdown(c) PROVE Running'
  BY <1>7 DEF Shutdown, Running, enqueueVars
<1>8. ASSUME NEW c \in Closer, ShutdownStep(c) PROVE Running'
  BY <1>8 DEF ShutdownStep, ShutdownJoinable, ShutdownJoin, SGoto, Running, enqueueVars,
              StopInv, Apart
<1>9. CASE UNCHANGED vars  BY <1>1, <1>9 DEF vars, enqueueVars, lifecycle
<1>10. ASSUME NEW t \in Producer, StartThrows(t) PROVE Running'
  <2>1. /\ e_pc[t] # "idle" /\ run_' = run_ /\ thrown' > 0
        /\ \A u \in Producer \ {t} : e_pc'[u] = e_pc[u]
    BY <1>0, <1>10 DEF StartThrows, Goto
  <2> QED  BY <2>1 DEF Running
<1> QED  BY <1>2, <1>3, <1>4, <1>5, <1>6, <1>7, <1>8, <1>9, <1>10 DEF Next, Enqueue, Done

-----------------------------------------------------------------------------
(* The queue, step by step *)

\* A producer's record is outside the queue until the exchange.
LEMMA OwnedOutside ==
    ASSUME Placed, QueueSound, NEW t \in Producer, NEW r \in Record, r \in OwnedBy(t)
    PROVE  Outside(r)
<1>1. Holds("own", t, r)  BY DEF Holds
<1>2. \A k \in Place, u \in Thread : Holds(k, u, r) => k = "own"
  BY <1>1 DEF Placed, OnePlace, Place
<1>3. ~InQueue(r) /\ w_rec # r /\ ~Keeps(r)  BY <1>2 DEF Holds, Place
<1> QED  BY <1>3, NotDummy DEF Outside

\* What does not touch the queue does nothing to it.
LEMMA QueueStays ==
    ASSUME QueueSound, UNCHANGED <<queueVars, w_pc, w_stage, w_rec, pending_recycle>>,
           thrown' = 0 /\ w_pc = "none" => thrown = 0 /\ (run_' = run_ \/ fifo = <<>>)
    PROVE  QueueSound'
<1>1. UNCHANGED <<tail_, head_, next, q_pc, q_n, q_prev, fifo, c_pc>>  BY DEF queueVars
<1>2. (Chained' <=> Chained) /\ (PushesSound' <=> PushesSound)  BY <1>1, ChainFrame
<1> QED  BY <1>1, <1>2 DEF QueueSound, Dummy

\* A step of enqueue() that touches the queue, and one that starts the worker.
LEMMA QueueEnqueue ==
    ASSUME EngineInv, StopInv, Control, Running, Placed, QueueSound, NEW t \in Producer,
           Enqueue(t)
    PROVE  QueueSound'
<1>1. CASE Queue(t)
  <2>1. /\ e_pc[t] = "queue" /\ e_rec[t] \in Record /\ run_
        /\ UNCHANGED <<w_pc, w_stage, w_rec, pending_recycle, run_>>
    BY <1>1, AtCall DEF Queue, Goto, Equipped, Running, besideEnqueue, lifecycle, workerVars
  <2>2. c_pc # "reset_tail" /\ (w_pc # "none" => w_stage = "main")
    BY <2>1, StoppedIdle DEF Control, WorkerBusy
  <2>3. Queued  BY <2>2 DEF Queued, QueueSound, EngineInv, TypeOK
  <2>4. ASSUME NEW u \in Thread, q_pc[u] = "swap" PROVE Outside(q_n[u])
    <3>1. u \in Producer /\ q_n[u] \in Record /\ q_n[u] \in OwnedBy(u)
      <4>1. u \in Producer  BY <2>4, AtLoop DEF WorkerEquipped
      <4>2. q_n[u] \in Record /\ q_n[u] = e_rec[u] /\ e_pc[u] = "queue"
        BY <2>4, <4>1, AtCall DEF Equipped, Control, Busy
      <4> QED  BY <2>4, <4>1, <4>2 DEF OwnedBy
    <3> QED  BY <3>1, OwnedOutside
  <2>5. CASE QClear(t, e_rec[t])
    <3>1. e_rec[t] \in OwnedBy(t)  BY <2>1, <2>5 DEF QClear, OwnedBy
    <3>2. Chained' /\ PushesSound'  BY <2>1, <2>3, <2>5, <3>1, OwnedOutside, ClearChain
    <3>3. UNCHANGED <<head_, fifo, c_pc>>  BY <2>5 DEF QClear
    <3> QED  BY <2>1, <2>2, <3>2, <3>3 DEF QueueSound, Dummy
  <2>6. CASE QSwap(t)
    <3>1. Chained' /\ PushesSound'  BY <2>3, <2>4, <2>6, SwapChain DEF QSwap
    <3>2. UNCHANGED <<head_, c_pc>>  BY <2>6 DEF QSwap
    <3> QED  BY <2>1, <2>2, <3>1, <3>2 DEF QueueSound, Dummy
  <2>7. CASE QLink(t)
    <3>1. Chained' /\ PushesSound'  BY <2>3, <2>4, <2>7, LinkChain
    <3>2. UNCHANGED <<head_, fifo, c_pc>>  BY <2>7 DEF QLink
    <3> QED  BY <2>1, <2>2, <3>1, <3>2 DEF QueueSound, Dummy
  <2> QED  BY <1>1, <2>5, <2>6, <2>7 DEF Queue
<1>2. CASE StartWorker(t)
  <2>1. worker_ = "none" /\ run_ /\ w_pc = "none" /\ w_rec = NULL
    BY <1>2 DEF StartWorker, Goto, StopInv, Apart, InStart, Control, WorkerBusy
  <2>2. /\ w_pc' = "loop" /\ w_stage' = "main" /\ w_rec' = NULL /\ pending_recycle' = NULL
        /\ UNCHANGED queueVars /\ run_' = run_
    BY <1>2, <2>1 DEF StartWorker
  <2>3. UNCHANGED <<tail_, head_, next, q_pc, q_n, q_prev, fifo, c_pc>>
    BY <2>2 DEF queueVars
  <2>4. (Chained' <=> Chained) /\ (PushesSound' <=> PushesSound)  BY <2>3, ChainFrame
  <2>5. c_pc # "reset_tail"  BY <2>1 DEF Control, WorkerBusy
  <2> QED  BY <2>1, <2>2, <2>3, <2>4, <2>5 DEF QueueSound, Dummy
<1>3. CASE \/ EnsureRunning(t) \/ AllocPool(t) \/ Fill(t) \/ Filling(t) \/ AcquireStep(t)
           \/ Drop(t) \/ Acquire(t) \/ Store(t) \/ Count(t) \/ StartThrows(t)
  <2>1. UNCHANGED <<queueVars, w_pc, w_stage, w_rec, pending_recycle>>
    BY <1>3 DEF EnsureRunning, AllocPool, Fill, Filling, AcquireStep, Drop, Acquire, Store,
                Count, StartThrows, besideEnqueue, workerVars
  <2>2. thrown' = 0 /\ w_pc = "none" => thrown = 0 /\ (run_' = run_ \/ fifo = <<>>)
    <3>1. CASE EnsureRunning(t)  BY <3>1 DEF EnsureRunning, QueueSound
    <3>2. CASE StartThrows(t)
      <4>1. thrown \in Nat  BY DEF EngineInv, TypeOK
      <4> QED  BY <3>2, <4>1 DEF StartThrows
    <3>3. CASE ~EnsureRunning(t) /\ ~StartThrows(t)
      BY <1>3, <3>3 DEF AllocPool, Fill, Filling, AcquireStep, Drop, Acquire, Store, Count,
                        besideEnqueue, lifecycle
    <3> QED  BY <3>1, <3>2, <3>3
  <2> QED  BY <2>1, <2>2, QueueStays
<1> QED  BY <1>1, <1>2, <1>3 DEF Enqueue

\* A step of worker_loop().
LEMMA QueueLoop ==
    ASSUME EngineInv, StopInv, Control, QueueSound, WorkerStep
    PROVE  QueueSound'
<1>0. MpscQueueTypeOK /\ WorkerEquipped /\ WorkerBusy /\ UNCHANGED run_
      /\ w_stage \in {"main", "drain", "last"} /\ w_pc # "none"
  <2>1. w_pc # "none"
    BY DEF WorkerStep, WorkerTest, WorkerAskEmpty, WorkerPop, WorkerPopNone, WorkerRecycle,
           WorkerSubmit, WorkerReset, WGoto
  <2> QED  BY <2>1, AtLoop, LoopAlone DEF Control, lifecycle
<1>1. ASSUME UNCHANGED <<tail_, head_, next, q_pc, q_n, q_prev, fifo>>,
             c_pc # "reset_tail", c_pc' # "reset_tail"
      PROVE  Chained' /\ PushesSound' /\ UNCHANGED <<head_, fifo>>
  BY <1>1, ChainFrame DEF QueueSound
<1>2. CASE WorkerTest
  <2>1. UNCHANGED <<tail_, head_, next, q_pc, q_n, q_prev, fifo, c_pc, loopLocals>>
        /\ w_pc = "loop" /\ w_pc' \in {"pop", "empty"}
    BY <1>2 DEF WorkerTest, WGoto, queueVars
  <2> QED  BY <1>0, <1>1, <2>1 DEF QueueSound, Dummy, loopLocals, WorkerBusy
<1>3. CASE WorkerAskEmpty
  <2>1. /\ UNCHANGED <<tail_, head_, next, q_pc, q_n, q_prev, fifo, w_rec, pending_recycle>>
        /\ c_pc # "reset_tail" /\ c_pc' # "reset_tail"
        /\ w_pc = "empty" /\ w_pc' \in {"pop", "empty"}
        /\ w_stage' = w_stage \/ (w_pc' = "pop" /\ w_stage' = "drain" /\ tail_ = head_)
    BY <1>3 DEF WorkerAskEmpty, WGoto, QEmptyNo, QEmptyBusy, QEmptyMiss, QEmptyYes,
                ConsumerGoes
  <2>2. tail_ = head_ => fifo = <<>>  BY <1>0, <2>1, EmptyChain DEF QueueSound
  <2> QED  BY <1>0, <1>1, <2>1, <2>2 DEF QueueSound, Dummy, WorkerBusy
<1>4. CASE WorkerPop
  <2>1. /\ c_pc # "reset_tail" /\ c_pc' = "idle" /\ Advance /\ w_pc = "pop"
        /\ w_rec' = NextOfHead /\ w_pc' \in {"submit", "recycle"} /\ w_stage' = w_stage
    BY <1>4 DEF WorkerPop, QPop, QPopSpun, WGoto, Advance
  <2>2. Queued  BY <1>0, <2>1 DEF Queued, QueueSound
  <2>3. /\ Chained' /\ PushesSound' /\ head_' = fifo[1] /\ fifo[1] \in Record
        /\ fifo # <<>> /\ NextOfHead = fifo[1]
    BY <2>1, <2>2, AdvanceChain, NextIsFirst DEF Advance, Queued
  <2>4. w_stage = "main"  BY <1>0, <2>3 DEF QueueSound
  <2> QED  BY <2>1, <2>3, <2>4 DEF QueueSound, Dummy
<1>5. CASE WorkerPopNone
  <2>1. /\ UNCHANGED <<tail_, head_, next, q_pc, q_n, q_prev, fifo, loopLocals>>
        /\ c_pc # "reset_tail" /\ c_pc' # "reset_tail" /\ w_pc = "pop"
        /\ w_pc' = "pop" \/ w_pc' = IF w_stage = "main" THEN "loop" ELSE "reset"
    BY <1>0, <1>5 DEF WorkerPopNone, WGoto, QPopMiss, QPopBusy, QPopEmpty, ConsumerGoes,
                      WorkerBusy
  <2>2. c_pc # "reset_tail"  BY <2>1
  <2> QED  BY <1>0, <1>1, <2>1 DEF QueueSound, Dummy, loopLocals, WorkerEquipped
<1>6. CASE WorkerRecycle
  <2>1. UNCHANGED <<tail_, head_, next, q_pc, q_n, q_prev, fifo, c_pc, loopLocals>>
        /\ w_pc \in {"recycle", "recycling"}
        /\ w_pc' \in {"recycling", IF w_stage = "last" THEN "done" ELSE "submit"}
    BY <1>6 DEF WorkerRecycle, WGoto, queueVars
  <2>2. c_pc # "reset_tail"  BY <1>0, <2>1 DEF WorkerBusy
  <2> QED  BY <1>0, <1>1, <2>1, <2>2 DEF QueueSound, Dummy, loopLocals, WorkerEquipped
<1>7. CASE WorkerSubmit
  <2>1. UNCHANGED <<tail_, head_, next, q_pc, q_n, q_prev, fifo, c_pc, w_stage>>
        /\ w_pc = "submit" /\ w_pc' \in {"loop", "pop"}
        /\ w_rec' = NULL /\ pending_recycle' = w_rec
    BY <1>7 DEF WorkerSubmit, WGoto, queueVars
  <2>2. c_pc # "reset_tail" /\ w_rec # NULL  BY <1>0, <2>1 DEF WorkerBusy, WorkerEquipped
  <2> QED  BY <1>0, <1>1, <2>1, <2>2 DEF QueueSound, Dummy
<1>8. CASE WorkerReset
  <2>1. w_pc = "reset" /\ w_stage = "drain" /\ fifo = <<>> /\ w_rec = NULL
    BY <1>0, <1>8 DEF WorkerReset, WGoto, WorkerBusy, QueueSound
  <2>2. \A u \in Thread : q_pc[u] = "idle"
    BY <1>0, <2>1, StoppedIdle DEF WorkerBusy, WorkerEquipped
  <2>3. CASE QResetStub
    <3>1. /\ w_pc' = "reset" /\ UNCHANGED <<w_stage, w_rec>>
      BY <1>8, <2>3 DEF WorkerReset, WGoto, QResetStub, QResetTail
    <3>2. /\ c_pc' = "reset_tail" /\ head_' = Stub /\ next'[Stub] = NULL
          /\ UNCHANGED <<fifo, q_pc>>
      BY <1>0, <2>3 DEF QResetStub, MpscQueueTypeOK, MpscNode
    <3>3. PushesSound'  BY <2>2, <3>2 DEF PushesSound
    <3> QED  BY <2>1, <3>1, <3>2, <3>3 DEF QueueSound, Dummy
  <2>4. CASE QResetTail
    <3>1. /\ w_pc' \in {"done", "recycle"} /\ w_stage' = "last" /\ w_rec' = w_rec
      BY <1>8, <2>4 DEF WorkerReset, WGoto, QResetStub, QResetTail
    <3>2. head_ = Stub /\ next[Stub] = NULL
      BY <2>1, <2>4 DEF QResetTail, QueueSound, Dummy
    <3>3. Chained' /\ PushesSound'  BY <1>0, <2>2, <2>4, <3>2, ResetChain
    <3>4. UNCHANGED head_ /\ fifo' = <<>> /\ c_pc' = "idle"  BY <2>4 DEF QResetTail
    <3> QED  BY <2>1, <3>1, <3>2, <3>3, <3>4 DEF QueueSound, Dummy
  <2> QED  BY <1>8, <2>3, <2>4 DEF WorkerReset
<1> QED  BY <1>2, <1>3, <1>4, <1>5, <1>6, <1>7, <1>8 DEF WorkerStep

\* A shutdown finds the queue of an engine without a worker empty.
LEMMA QueueShutdown ==
    ASSUME Quiet, EngineInv, StopInv, Control, Running, QueueSound, NEW c \in Closer,
           Shutdown(c) \/ ShutdownStep(c)
    PROVE  QueueSound'
<1>1. CASE Shutdown(c) \/ ShutdownJoinable(c)
  <2>1. UNCHANGED <<queueVars, w_pc, w_stage, w_rec, pending_recycle>>
    BY <1>1 DEF Shutdown, ShutdownJoinable, workerVars
  <2>2. thrown' = 0 /\ w_pc = "none" => thrown = 0 /\ (run_' = run_ \/ fifo = <<>>)
    BY <1>1 DEF Shutdown, ShutdownJoinable, QueueSound, Running, InStart, Control, WorkerBusy
  <2> QED  BY <2>1, <2>2, QueueStays
<1>2. CASE ShutdownJoin(c)
  <2>1. w_pc = "done" /\ w_pc' = "none" /\ UNCHANGED <<queueVars, loopLocals, run_>>
    BY <1>2 DEF ShutdownJoin
  <2>2. UNCHANGED <<tail_, head_, next, q_pc, q_n, q_prev, fifo, c_pc>>
    BY <2>1 DEF queueVars
  <2>3. (Chained' <=> Chained) /\ (PushesSound' <=> PushesSound)  BY <2>2, ChainFrame
  <2> QED  BY <2>1, <2>2, <2>3 DEF QueueSound, Dummy, loopLocals
<1> QED  BY <1>1, <1>2 DEF ShutdownStep

\* The links spell the queue, whoever steps.
LEMMA QueueNext ==
    ASSUME Quiet, EngineInv, StopInv, Control, Running, Placed, QueueSound, [Next]_vars
    PROVE  QueueSound'
<1>1. CASE UNCHANGED vars
  BY <1>1, QueueStays DEF vars, workerVars, lifecycle
<1> QED  BY <1>1, QueueEnqueue, QueueLoop, QueueShutdown DEF Next, Done

-----------------------------------------------------------------------------
(* One holder *)

\* What holds of the two structures as long as no CAS has succeeded on a stale successor.
StructuresSound == Placed /\ Linked /\ PushLinked /\ QueueSound

QuietInv ==
    /\ EngineInv /\ StopInv /\ Control /\ Running
    /\ ~aba => StructuresSound

\* A stale CAS is never forgotten.
LEMMA AbaStays == ASSUME [Next]_vars, ~aba' PROVE ~aba
<1>1. ASSUME NEW t \in Thread, Calls(t) PROVE aba => aba'
  BY <1>1 DEF Calls, PopLoad, PopLoadNull, PopStep, PopRead, PopRetry, PopRetryNull, PopCas,
              PushStep, PushLink, PushRetry, PushCas, PushLoad, flVars
<1>2. CASE UNCHANGED flVars  BY <1>2 DEF flVars
<1>3. ASSUME NEW t \in Producer, Enqueue(t) PROVE aba => aba'
  <2>1. Fill(t) => aba' = aba  BY DEF Fill, PushLoad
  <2>2. Filling(t) \/ AcquireStep(t) \/ Drop(t) \/ Acquire(t) => Calls(t)
    BY DEF Filling, AcquireStep, Drop, Acquire, Calls
  <2> QED  BY <1>1, <1>2, <1>3, <2>1, <2>2
              DEF Enqueue, EnsureRunning, AllocPool, StartWorker, StartThrows, Store, Queue,
                  Count
<1>4. ASSUME WorkerStep PROVE aba => aba'
  <2>1. WorkerRecycle => Calls(Worker) \/ aba' = aba
    BY DEF WorkerRecycle, Calls, PushLoad
  <2> QED  BY <1>1, <1>2, <1>4, <2>1 DEF WorkerStep, WorkerTest, WorkerAskEmpty, WorkerPop,
              WorkerPopNone, WorkerSubmit, WorkerReset
<1>5. ASSUME NEW c \in Closer, Shutdown(c) \/ ShutdownStep(c) PROVE UNCHANGED flVars
  BY <1>5 DEF Shutdown, ShutdownStep, ShutdownJoinable, ShutdownJoin
<1>6. CASE UNCHANGED vars  BY <1>2, <1>6 DEF vars
<1> QED  BY <1>2, <1>3, <1>4, <1>5, <1>6 DEF Next, Done

\* A program that has not logged yet.
LEMMA StructuresInit == Init => StructuresSound
<1> SUFFICES ASSUME Init PROVE StructuresSound  OBVIOUS
<1> USE DEF Init, FreeListInit, MpscQueueInit
<1>1. Linked /\ PushLinked  BY DEF Linked, PushLinked
<1>2. Chained
  <2>1. Len(fifo) = 0 /\ Len(Chain) = 1 /\ Chain[1] = Stub  BY DEF Chain
  <2> QED  BY <2>1 DEF Chained, MpscNode
<1>3. PushesSound  BY DEF PushesSound
<1>4. QueueSound  BY <1>2, <1>3 DEF QueueSound, Dummy
<1>5. \A r \in Record, k \in Place, t \in Thread : ~Holds(k, t, r)
  BY DEF Holds, InList, Pushes, Pushing, OwnedBy, InQueue, Keeps
<1>6. Filled = {}  BY DEF Filled
<1>7. Placed  BY <1>5, <1>6 DEF Placed, OnePlace, Supplied, Conserved
<1> QED  BY <1>1, <1>4, <1>7 DEF StructuresSound

\* The invariant of who keeps enqueue() and shutdown() apart.
LEMMA QuietInvInit == Init => QuietInv
BY EngineInitInv, StopInitInv, ControlInit, RunningInit, StructuresInit DEF QuietInv

\* Every step of an engine that keeps its two calls apart keeps it.
LEMMA QuietInvNext == ASSUME Quiet, QuietInv, [Next]_vars PROVE QuietInv'
<1> USE DEF QuietInv
<1>1. EngineInv'  BY EngineNextInv
<1>2. StopInv'  BY StopNextInv DEF EngineInv
<1>3. Control' /\ Running'  BY ControlNext, RunningNext
<1>4. ASSUME ~aba' PROVE StructuresSound'
  <2>1. StructuresSound  BY <1>4, AbaStays
  <2>2. Linked' /\ PushLinked'  BY <1>4, <2>1, FreeNext DEF StructuresSound
  <2>3. QueueSound'  BY <2>1, QueueNext DEF StructuresSound
  <2>4. Stays \/ Moves \/ Enters  BY <1>4, <2>1, PlacesStep DEF StructuresSound
  <2>5. Placed'  BY <2>1, <2>4, PlacedNext DEF StructuresSound
  <2> QED  BY <2>2, <2>3, <2>5 DEF StructuresSound
<1> QED  BY <1>1, <1>2, <1>3, <1>4

\* A set with one element at most.
LEMMA AtMostOne ==
    ASSUME NEW S, \A x, y \in S : x = y
    PROVE  Cardinality(S) = IF S = {} THEN 0 ELSE 1
<1>1. CASE S = {}  BY <1>1, FS_EmptySet
<1>2. CASE S # {}
  <2>1. PICK x : S = {x}  BY <1>2
  <2> QED  BY <2>1, FS_Singleton
<1> QED  BY <1>1, <1>2

\* The five terms of Holders, by place.
LEMMA HoldersByPlace ==
    ASSUME EngineInv, Control, StructuresSound, NEW r \in Record
    PROVE  /\ Cardinality({t \in Producer : r \in OwnedBy(t)}) =
                 IF \E t \in Thread : Holds("own", t, r) THEN 1 ELSE 0
           /\ Cardinality({t \in Thread : r \in InPush(t)}) =
                 IF \E t \in Thread : Holds("push", t, r) THEN 1 ELSE 0
           /\ Cardinality({i \in 1..Len(fifo) : fifo[i] = r}) =
                 IF Holds("queue", Worker, r) THEN 1 ELSE 0
           /\ Cardinality({i \in 1..Len(free_stack) : free_stack[i] = r}) =
                 IF Holds("free", Worker, r) THEN 1 ELSE 0
           /\ r \in OwnedByWorker <=> Holds("hand", Worker, r) \/ Holds("kept", Worker, r)
<1>0. OnePlace /\ Linked /\ QueueSound /\ {"own", "push"} \subseteq Place
  BY DEF StructuresSound, Placed, Place
<1>1. Cardinality({t \in Producer : r \in OwnedBy(t)}) =
         IF \E t \in Thread : Holds("own", t, r) THEN 1 ELSE 0
  <2> DEFINE S == {t \in Producer : r \in OwnedBy(t)}
  <2>1. \A t \in S : Holds("own", t, r)  BY DEF Holds
  <2>2. \A t, u \in S : t = u  BY <1>0, <2>1 DEF OnePlace
  <2>3. S # {} <=> \E t \in Thread : Holds("own", t, r)  BY DEF Holds
  <2> HIDE DEF S
  <2>4. Cardinality(S) = IF S = {} THEN 0 ELSE 1  BY <2>2, AtMostOne
  <2> QED  BY <2>3, <2>4 DEF S
<1>2. Cardinality({t \in Thread : r \in InPush(t)}) =
         IF \E t \in Thread : Holds("push", t, r) THEN 1 ELSE 0
  <2> DEFINE S == {t \in Thread : r \in InPush(t)}
  <2>1. \A t \in Thread : t \in S <=> Holds("push", t, r)  BY DEF Holds, Pushes, InPush
  <2>2. \A t, u \in S : t = u  BY <1>0, <2>1 DEF OnePlace
  <2>3. S # {} <=> \E t \in Thread : Holds("push", t, r)  BY <2>1
  <2> HIDE DEF S
  <2>4. Cardinality(S) = IF S = {} THEN 0 ELSE 1  BY <2>2, AtMostOne
  <2> QED  BY <2>3, <2>4 DEF S
<1>3. Cardinality({i \in 1..Len(fifo) : fifo[i] = r}) =
         IF Holds("queue", Worker, r) THEN 1 ELSE 0
  <2> DEFINE S == {i \in 1..Len(fifo) : fifo[i] = r}
  <2>1. \A i, j \in S : i = j
    <3>1. CASE c_pc = "reset_tail"
      <4>1. fifo = <<>>  BY <1>0, <3>1 DEF Control, WorkerBusy, QueueSound
      <4> QED  BY <4>1
    <3>2. CASE c_pc # "reset_tail"
      <4>1. MpscQueueTypeOK /\ Chained  BY <1>0, <3>2 DEF QueueSound, EngineInv, TypeOK
      <4>2. /\ Len(fifo) \in Nat /\ Len(Chain) = Len(fifo) + 1
            /\ \A i \in 1..Len(fifo) : Chain[i + 1] = fifo[i]
        BY <4>1, ChainShape
      <4> SUFFICES ASSUME NEW i \in S, NEW j \in S PROVE i = j  OBVIOUS
      <4>3. i + 1 \in 1..Len(Chain) /\ j + 1 \in 1..Len(Chain)  BY <4>2
      <4>4. i + 1 = j + 1  BY <4>1, <4>2, <4>3 DEF Chained
      <4> QED  BY <4>2, <4>4
    <3> QED  BY <3>1, <3>2
  <2>2. S # {} <=> Holds("queue", Worker, r)  BY DEF Holds, InQueue
  <2> HIDE DEF S
  <2>3. Cardinality(S) = IF S = {} THEN 0 ELSE 1  BY <2>1, AtMostOne
  <2> QED  BY <2>2, <2>3 DEF S
<1>4. Cardinality({i \in 1..Len(free_stack) : free_stack[i] = r}) =
         IF Holds("free", Worker, r) THEN 1 ELSE 0
  <2> DEFINE S == {i \in 1..Len(free_stack) : free_stack[i] = r}
  <2>1. \A i, j \in S : i = j  BY <1>0 DEF Linked
  <2>2. S # {} <=> Holds("free", Worker, r)  BY DEF Holds, InList
  <2> HIDE DEF S
  <2>3. Cardinality(S) = IF S = {} THEN 0 ELSE 1  BY <2>1, AtMostOne
  <2> QED  BY <2>2, <2>3 DEF S
<1>5. r \in OwnedByWorker <=> Holds("hand", Worker, r) \/ Holds("kept", Worker, r)
  BY DEF OwnedByWorker, Holds, Keeps, Control, WorkerBusy
<1> QED  BY <1>1, <1>2, <1>3, <1>4, <1>5

\* Where there is one place there is one holder.
LEMMA OnePlaceOneHolder ==
    ASSUME QuietInv PROVE OneHolder
<1> SUFFICES ASSUME ~aba, NEW r \in Filled PROVE Holders(r) = 1  BY DEF OneHolder
<1>1. EngineInv /\ Control /\ StructuresSound  BY DEF QuietInv
<1>2. r \in Record
  <2>1. pool \in 0..Pools  BY <1>1 DEF EngineInv, TypeOK
  <2> QED  BY <2>1, LogEngineAssumption DEF Filled, LogEngineAssumption, Pools
<1>3. PICK k \in Place, t \in Thread : Holds(k, t, r)
  BY <1>1 DEF StructuresSound, Placed, Conserved
<1>4. \A l \in Place, u \in Thread : Holds(l, u, r) => l = k
  BY <1>1, <1>2, <1>3 DEF StructuresSound, Placed, OnePlace
<1>5. k \in {"free", "queue", "hand", "kept"} => Holds(k, Worker, r)  BY <1>3 DEF Holds
<1> DEFINE A == \E u \in Thread : Holds("own", u, r)
           B == \E u \in Thread : Holds("push", u, r)
           C == Holds("queue", Worker, r)
           D == Holds("free", Worker, r)
           F == Holds("hand", Worker, r) \/ Holds("kept", Worker, r)
<1>6. /\ A <=> k = "own"
      /\ B <=> k = "push"
      /\ C <=> k = "queue"
      /\ D <=> k = "free"
      /\ F <=> k \in {"hand", "kept"}
  BY <1>3, <1>4, <1>5 DEF Place
<1>7. Holders(r) = (IF A THEN 1 ELSE 0) + (IF B THEN 1 ELSE 0) + (IF C THEN 1 ELSE 0)
                   + (IF D THEN 1 ELSE 0) + (IF F THEN 1 ELSE 0)
  BY <1>1, <1>2, HoldersByPlace DEF Holders
<1> HIDE DEF A, B, C, D, F
<1> QED  BY <1>6, <1>7 DEF Place

\* For any number of producers, as long as no thread works on the records of a freed pool and
\* no CAS of try_pop has succeeded on a stale successor: each record that
\* init_pool_and_queue has pushed is in exactly one place, provided that no enqueue()
\* overlaps a shutdown(), whether starts succeed or throw.
THEOREM OneHolderIfQuiet == Quiet = TRUE => (Spec /\ []NoFreedRecord => []OneHolder)
<1> SUFFICES ASSUME Quiet = TRUE PROVE Spec /\ []NoFreedRecord => []OneHolder
  OBVIOUS
<1>1. Quiet  OBVIOUS
<1>2. QuietInv /\ [Next]_vars => QuietInv'  BY <1>1, QuietInvNext
<1>3. QuietInv => OneHolder  BY OnePlaceOneHolder
<1> QED  BY <1>2, <1>3, QuietInvInit, PTL DEF Spec

-----------------------------------------------------------------------------
(* Freed records *)

\* A producer that is about to read a link reads one of a record that was handed out.
Reads ==
    \A t \in Producer : fl_pc[t] = "pop_read" => fl_h[t] \in Record /\ Handed(fl_h[t])

\* Where a producer stands in try_pop and the head it holds change by its own loads only.
LEMMA ReadsBegin ==
    ASSUME EngineInv, [Next]_vars, NEW t \in Producer, fl_pc'[t] = "pop_read"
    PROVE  \/ fl_pc[t] = "pop_read" /\ fl_h'[t] = fl_h[t]
           \/ fl_h'[t] = free_head /\ free_head # NULL
<1>0. FreeListTypeOK /\ t \in Thread  BY AtLoop
<1>1. CASE UNCHANGED flVars  BY <1>1 DEF flVars
<1>2. CASE Calls(t)
  BY <1>0, <1>2 DEF Calls, PopStep, PushStep, PopLoad, PopLoadNull, PopRead, PopRetry,
        PopRetryNull, PopCas, PushLink, PushRetry, PushCas, PushLoad, Return, flVars,
        FreeListTypeOK
<1>3. ASSUME NEW u \in Thread, u # t, Calls(u) PROVE fl_pc'[t] = fl_pc[t] /\ fl_h'[t] = fl_h[t]
  BY <1>0, <1>3, OthersKeepLocals
<1>4. ASSUME NEW u \in Producer, Enqueue(u) PROVE Calls(u) \/ UNCHANGED flVars
  <2>1. Fill(u) => Calls(u)  BY FilledRecord DEF Fill, Calls
  <2>2. Filling(u) \/ AcquireStep(u) \/ Drop(u) \/ Acquire(u) => Calls(u)
    BY DEF Filling, AcquireStep, Drop, Acquire, Calls
  <2> QED  BY <1>4, <2>1, <2>2
              DEF Enqueue, EnsureRunning, AllocPool, StartWorker, StartThrows, Store, Queue,
                  Count
<1>5. ASSUME WorkerStep PROVE UNCHANGED <<fl_pc[t], fl_h[t]>>
  <2>1. WorkerRecycle => Calls(Worker)
    <3>1. w_pc = "recycle" => pending_recycle \in Record
      BY AtLoop DEF WorkerEquipped, FreePtr
    <3> QED  BY <3>1 DEF WorkerRecycle, Calls, WGoto
  <2>2. Worker \in Thread /\ Worker # t  OBVIOUS
  <2> QED  BY <1>3, <1>5, <2>1, <2>2 DEF WorkerStep, WorkerTest, WorkerAskEmpty, WorkerPop,
              WorkerPopNone, WorkerSubmit, WorkerReset, flVars
<1>6. ASSUME NEW c \in Closer, Shutdown(c) \/ ShutdownStep(c) PROVE UNCHANGED flVars
  BY <1>6 DEF Shutdown, ShutdownStep, ShutdownJoinable, ShutdownJoin
<1>7. CASE UNCHANGED vars  BY <1>1, <1>7 DEF vars
<1> QED  BY <1>1, <1>2, <1>3, <1>4, <1>5, <1>6, <1>7 DEF Next, Done

\* What it loads is the head of the list, and what was handed out stays so.
LEMMA ReadsNext ==
    ASSUME EngineInv, StopInv, Control, StructuresSound, Reads, [Next]_vars PROVE Reads'
<1> SUFFICES ASSUME NEW t \in Producer, fl_pc'[t] = "pop_read"
             PROVE  fl_h'[t] \in Record /\ Handed(fl_h[t])'
  BY DEF Reads
<1>1. PICK r \in Record : r = fl_h'[t] /\ Handed(r)
  <2>1. CASE fl_pc[t] = "pop_read" /\ fl_h'[t] = fl_h[t]  BY <2>1 DEF Reads
  <2>2. CASE fl_h'[t] = free_head /\ free_head # NULL
    <3>1. InList(free_head) /\ free_head \in Record
      BY <2>2, AtLoop, HeadInList DEF StructuresSound, FreeListTypeOK, FreePtr
    <3>2. Holds("free", Worker, free_head) /\ "free" \in Place  BY <3>1 DEF Holds, Place
    <3> QED  BY <2>2, <3>1, <3>2 DEF StructuresSound, Placed, Supplied
  <2> QED  BY <2>1, <2>2, ReadsBegin
<1>2. Handed(r)'  BY <1>1, HandedKept
<1> QED  BY <1>1, <1>2 DEF Handed

\* Everything in use was handed out, and in the first pool that is the pool.
LEMMA FirstPoolOnly ==
    ASSUME EngineInv, StructuresSound, Reads, pool <= 1 PROVE NoFreedRecord
<1>1. ASSUME NEW r \in Record, Handed(r) PROVE r[1] = pool
  <2>1. pool \in Nat /\ r[1] <= pool /\ r[1] \in 1..Pools
    BY <1>1, RecordShape DEF Handed, EngineInv, TypeOK
  <2> QED  BY <2>1
<1>2. ASSUME NEW k \in Place, NEW t \in Thread, NEW r \in Record, Holds(k, t, r)
      PROVE  r[1] = pool
  BY <1>1, <1>2 DEF StructuresSound, Placed, Supplied
<1> USE DEF Place
<1>3. ASSUME NEW t \in Producer, NEW r \in OwnedBy(t) PROVE r[1] = pool
  <2>1. r \in Record /\ Holds("own", t, r)  BY AtCall DEF Equipped, OwnedBy, Holds
  <2> QED  BY <1>2, <2>1
<1>4. ASSUME NEW r \in OwnedByWorker PROVE r[1] = pool
  <2>1. r \in Record /\ (w_rec = r \/ Keeps(r))  BY AtLoop DEF OwnedByWorker, FreePtr, Keeps
  <2>2. Holds("hand", Worker, r) \/ Holds("kept", Worker, r)  BY <2>1 DEF Holds
  <2> QED  BY <1>2, <2>1, <2>2
<1>5. ASSUME NEW i \in 1..Len(fifo) PROVE fifo[i][1] = pool
  <2>1. fifo[i] \in Record /\ Holds("queue", Worker, fifo[i])
    BY AtLoop DEF MpscQueueTypeOK, Holds, InQueue
  <2> QED  BY <1>2, <2>1
<1>6. \A t \in Producer : fl_pc[t] = "pop_read" => fl_h[t][1] = pool  BY <1>1 DEF Reads
<1> QED  BY <1>3, <1>4, <1>5, <1>6 DEF NoFreedRecord

\* Until the second start has allocated its pool, or a CAS of try_pop has succeeded on a stale
\* successor, every link that try_pop reads and every record that is filled, queued or printed
\* belongs to the pool that is allocated: up to there the theorems about the engine that is
\* not overlapped hold without a reserve.
THEOREM NoFreedRecordInFirstPool ==
    Quiet = TRUE => (Spec => [](~aba /\ pool <= 1 => NoFreedRecord))
<1> SUFFICES ASSUME Quiet = TRUE PROVE Spec => [](~aba /\ pool <= 1 => NoFreedRecord)
  OBVIOUS
<1>1. Quiet  OBVIOUS
<1> DEFINE Inv == QuietInv /\ (~aba => Reads)
<1>2. Init => Inv
  <2>1. Init => Reads  BY DEF Init, FreeListInit, Reads
  <2> QED  BY <2>1, QuietInvInit
<1>3. Inv /\ [Next]_vars => Inv'
  <2> SUFFICES ASSUME Inv, [Next]_vars PROVE Inv'  OBVIOUS
  <2>1. QuietInv'  BY <1>1, QuietInvNext
  <2>2. ~aba' => Reads'  BY AbaStays, ReadsNext DEF QuietInv
  <2> QED  BY <2>1, <2>2
<1>4. Inv => (~aba /\ pool <= 1 => NoFreedRecord)  BY FirstPoolOnly DEF QuietInv
<1> HIDE DEF Inv
<1> QED  BY <1>2, <1>3, <1>4, PTL DEF Spec

-----------------------------------------------------------------------------
(* The counters *)

\* Calls that have not returned; those among them whose record is in the queue already.
InFlight == {t \in Producer : e_pc[t] # "idle"}
Linking == {t \in Producer : e_pc[t] = "count" \/ q_pc[t] = "link"}

\* Every call is accepted, dropped, failed or on its way, ...
Tally ==
    /\ written_ = Len(output)
    /\ IsFiniteSet(CallsMade) /\ IsFiniteSet(InFlight)
    /\ Cardinality(CallsMade) = enqueued_ + dropped_ + thrown + Cardinality(InFlight)

\* ... and every accepted one is printed, in the worker's hands or in the queue.
Balance ==
    /\ IsFiniteSet(Linking)
    /\ enqueued_ + Cardinality(Linking) =
          Len(output) + Len(fifo) + (IF w_rec = NULL THEN 0 ELSE 1)

\* A set that one element enters or leaves.
LEMMA OneMore ==
    ASSUME NEW S, NEW T, NEW x, IsFiniteSet(S), x \notin S, T = S \cup {x}
    PROVE  IsFiniteSet(T) /\ Cardinality(T) = Cardinality(S) + 1
BY FS_AddElement

\* The set that the element leaves.
LEMMA OneLess ==
    ASSUME NEW S, NEW T, NEW x, IsFiniteSet(S), x \in S, T = S \ {x}
    PROVE  IsFiniteSet(T) /\ Cardinality(T) = Cardinality(S) - 1
BY FS_RemoveElement

\* A printed message more.
LEMMA OutputGrows ==
    ASSUME EngineInv, WorkerSubmit
    PROVE  Len(output') = Len(output) + 1 /\ Len(output) \in Nat
<1>1. output \in Seq(Msg \cup {NoMsg})  BY AtLoop
<1>2. storage[w_rec] \in Msg \cup {NoMsg}
  BY AtLoop DEF WorkerSubmit, WGoto, WorkerEquipped
<1> QED  BY <1>1, <1>2 DEF WorkerSubmit

\* The other steps print nothing.
LEMMA OutputKept ==
    ASSUME [Next]_vars, ~WorkerSubmit
    PROVE  UNCHANGED <<output, written_>>
<1>1. ASSUME NEW t \in Producer, Enqueue(t) PROVE UNCHANGED <<output, written_>>
  BY <1>1 DEF Enqueue, EnsureRunning, AllocPool, Fill, Filling, StartWorker, StartThrows,
              AcquireStep, Drop, Acquire, Store, Queue, Count, besideEnqueue, workerVars,
              counters
<1>2. ASSUME WorkerStep PROVE UNCHANGED <<output, written_>>
  BY <1>2 DEF WorkerStep, WorkerTest, WorkerAskEmpty, WorkerPop, WorkerPopNone,
              WorkerRecycle, WorkerReset, besideLoop, counters
<1>3. ASSUME NEW c \in Closer, Shutdown(c) \/ ShutdownStep(c)
      PROVE  UNCHANGED <<output, written_>>
  BY <1>3 DEF Shutdown, ShutdownStep, ShutdownJoinable, ShutdownJoin, workerVars, counters
<1>4. CASE UNCHANGED vars  BY <1>4 DEF vars, workerVars, counters
<1> QED  BY <1>1, <1>2, <1>3, <1>4 DEF Next, Done

\* The steps in which a call neither begins nor ends.
LEMMA CallsKept ==
    ASSUME EngineInv, [Next]_vars,
           ~\E t \in Producer : EnsureRunning(t) \/ Drop(t) \/ Count(t) \/ StartThrows(t)
    PROVE  UNCHANGED <<InFlight, calls, dropped_, enqueued_, thrown>>
<1>1. ASSUME NEW t \in Producer, Enqueue(t)
      PROVE  UNCHANGED <<InFlight, calls, dropped_, enqueued_, thrown>>
  <2>1. PICK l \in {"fill", "filling", "acquire", "store", "queue", "count"} :
            e_pc[t] # "idle" /\ e_pc' = [e_pc EXCEPT ![t] = l]
    BY <1>1 DEF Enqueue, AllocPool, Fill, Filling, StartWorker, AcquireStep, Acquire, Store,
                Queue, Goto
  <2>2. UNCHANGED <<calls, dropped_, enqueued_, thrown>>
    BY <1>1 DEF Enqueue, AllocPool, Fill, Filling, StartWorker, AcquireStep, Acquire, Store,
                Queue, besideEnqueue, counters, lifecycle
  <2> QED  BY <2>1, <2>2, AtCall DEF InFlight
<1>2. CASE UNCHANGED <<e_pc, calls, dropped_, enqueued_, thrown>>  BY <1>2 DEF InFlight
<1>3. CASE WorkerStep  BY <1>2, <1>3, LoopAlone DEF enqueueVars, lifecycle
<1>4. ASSUME NEW c \in Closer, Shutdown(c) \/ ShutdownStep(c)
      PROVE  UNCHANGED <<InFlight, calls, dropped_, enqueued_, thrown>>
  BY <1>2, <1>4 DEF Shutdown, ShutdownStep, ShutdownJoinable, ShutdownJoin, enqueueVars,
                    counters
<1>5. CASE UNCHANGED vars  BY <1>2, <1>5 DEF vars, enqueueVars, counters, lifecycle
<1> QED  BY <1>1, <1>2, <1>3, <1>4, <1>5 DEF Next, Done

\* The calls that were made are the accepted, the dropped and those on their way.
LEMMA TallyNext ==
    ASSUME EngineInv, Tally, [Next]_vars PROVE Tally'
<1>1. written_' = Len(output')
  <2>1. CASE WorkerSubmit  BY <2>1, OutputGrows DEF WorkerSubmit, Tally
  <2>2. CASE ~WorkerSubmit  BY <2>2, OutputKept DEF Tally
  <2> QED  BY <2>1, <2>2
<1>2. /\ IsFiniteSet(CallsMade) /\ IsFiniteSet(InFlight)
      /\ Cardinality(CallsMade) \in Nat /\ Cardinality(InFlight) \in Nat
      /\ enqueued_ \in Nat /\ dropped_ \in Nat /\ thrown \in Nat
  BY FS_CardinalityType DEF Tally, EngineInv, TypeOK
<1>3. ASSUME NEW t \in Producer, EnsureRunning(t) PROVE Tally'
  <2>1. /\ e_pc[t] = "idle" /\ e_pc'[t] # "idle"
        /\ \A u \in Producer \ {t} : e_pc'[u] = e_pc[u]
        /\ calls' = [calls EXCEPT ![t] = @ + 1] /\ calls[t] < Logs
        /\ UNCHANGED <<dropped_, enqueued_, thrown>>
    BY <1>3, AtCall DEF EnsureRunning, Goto, counters
  <2>2. InFlight' = InFlight \cup {t} /\ t \notin InFlight  BY <2>1 DEF InFlight
  <2>3. /\ CallsMade' = CallsMade \cup {<<t, calls[t] + 1>>}
        /\ <<t, calls[t] + 1>> \notin CallsMade
    <3>1. calls \in [Producer -> 0..Logs]  BY <1>3, AtCall
    <3>2. <<t, calls[t] + 1>> \in Msg  BY <2>1, <3>1 DEF Msg
    <3>3. ASSUME NEW m \in Msg
          PROVE  m[2] <= calls'[m[1]] <=> m[2] <= calls[m[1]] \/ m = <<t, calls[t] + 1>>
      <4>1. m[1] \in Producer /\ m[2] \in 1..Logs /\ m = <<m[1], m[2]>>  BY DEF Msg
      <4>2. calls'[m[1]] = IF m[1] = t THEN calls[t] + 1 ELSE calls[m[1]]
        BY <2>1, <3>1, <4>1
      <4> QED  BY <3>1, <4>1, <4>2
    <3> QED  BY <3>1, <3>2, <3>3 DEF CallsMade
  <2>4. /\ IsFiniteSet(InFlight') /\ Cardinality(InFlight') = Cardinality(InFlight) + 1
        /\ IsFiniteSet(CallsMade') /\ Cardinality(CallsMade') = Cardinality(CallsMade) + 1
    BY <1>2, <2>2, <2>3, OneMore
  <2> QED  BY <1>1, <1>2, <2>1, <2>4 DEF Tally
<1>4. ASSUME NEW t \in Producer, Drop(t) \/ Count(t) \/ StartThrows(t) PROVE Tally'
  <2>1. /\ e_pc[t] # "idle" /\ e_pc'[t] = "idle" /\ calls' = calls
        /\ \A u \in Producer \ {t} : e_pc'[u] = e_pc[u]
        /\ enqueued_' + dropped_' + thrown' = (enqueued_ + dropped_ + thrown) + 1
    BY <1>2, <1>4, AtCall DEF Drop, Count, StartThrows, Goto, counters, lifecycle
  <2>2. InFlight' = InFlight \ {t} /\ t \in InFlight  BY <2>1 DEF InFlight
  <2>3. IsFiniteSet(InFlight') /\ Cardinality(InFlight') = Cardinality(InFlight) - 1
    BY <1>2, <2>2, OneLess
  <2>4. CallsMade' = CallsMade  BY <2>1 DEF CallsMade
  <2> QED  BY <1>1, <1>2, <2>1, <2>3, <2>4 DEF Tally
<1>5. CASE ~\E t \in Producer : EnsureRunning(t) \/ Drop(t) \/ Count(t) \/ StartThrows(t)
  <2>1. UNCHANGED <<InFlight, calls, dropped_, enqueued_, thrown>>  BY <1>5, CallsKept
  <2>2. CallsMade' = CallsMade  BY <2>1 DEF CallsMade
  <2> QED  BY <1>1, <2>1, <2>2 DEF Tally
<1> QED  BY <1>3, <1>4, <1>5

\* What was accepted is printed, in the worker's hands or queued.
LEMMA BalanceNext ==
    ASSUME EngineInv, Control, StructuresSound, Balance, [Next]_vars PROVE Balance'
<1>0. /\ IsFiniteSet(Linking) /\ Cardinality(Linking) \in Nat /\ Len(output) \in Nat
      /\ Len(fifo) \in Nat /\ enqueued_ \in Nat /\ fifo \in Seq(Record)
      /\ enqueued_ + Cardinality(Linking) =
            Len(output) + Len(fifo) + (IF w_rec = NULL THEN 0 ELSE 1)
  <2>1. output \in Seq(Msg \cup {NoMsg}) /\ fifo \in Seq(Record) /\ enqueued_ \in Nat
    BY DEF EngineInv, TypeOK, MpscQueueTypeOK
  <2> QED  BY <2>1, FS_CardinalityType DEF Balance
<1>1. ASSUME UNCHANGED <<Linking, enqueued_, output, fifo, w_rec>> PROVE Balance'
  BY <1>1 DEF Balance
<1>2. ASSUME NEW t \in Producer, Enqueue(t), ~Count(t), ~(Queue(t) /\ QSwap(t))
      PROVE  Balance'
  <2>1. Linking' = Linking
    <3>1. e_pc'[t] = "count" \/ q_pc'[t] = "link" <=> e_pc[t] = "count" \/ q_pc[t] = "link"
      <4>1. CASE Queue(t)
        BY <1>2, <4>1, AtCall DEF Queue, Goto, QClear, QLink, MpscQueueTypeOK
      <4>2. CASE ~Queue(t)
        <5>1. PICK l \in {"idle", "alloc", "fill", "filling", "acquire", "store", "queue"} :
                  e_pc[t] # "count" /\ e_pc' = [e_pc EXCEPT ![t] = l]
          BY <1>2, <4>2 DEF Enqueue, EnsureRunning, AllocPool, StartThrows, Fill, Filling,
                StartWorker, AcquireStep, Drop, Acquire, Store, Goto
        <5>2. q_pc' = q_pc
          BY <1>2, <4>2 DEF Enqueue, EnsureRunning, AllocPool, StartThrows, Fill, Filling,
                StartWorker, AcquireStep, Drop, Acquire, Store, queueVars
        <5> QED  BY <5>1, <5>2, AtCall
      <4> QED  BY <4>1, <4>2
    <3>2. \A u \in Producer \ {t} : e_pc'[u] = e_pc[u] /\ q_pc'[u] = q_pc[u]
      BY <1>2, EnqueueAlone DEF Alone
    <3> QED  BY <3>1, <3>2 DEF Linking
  <2>2. UNCHANGED <<enqueued_, output, fifo>>
    BY <1>2 DEF Enqueue, EnsureRunning, AllocPool, StartThrows, Fill, Filling, StartWorker,
                AcquireStep, Drop, Acquire, Store, Queue, QClear, QLink, queueVars, besideEnqueue,
                counters, workerVars
  <2>3. w_rec' = w_rec
    <3>1. CASE StartWorker(t)
      <4>1. worker_ = "joinable" \/ w_rec = NULL
        BY DEF EngineInv, TypeOK, Control, WorkerBusy
      <4> QED  BY <3>1, <4>1 DEF StartWorker, workerVars
    <3> QED  BY <1>2, <3>1 DEF Enqueue, EnsureRunning, AllocPool, StartThrows, Fill,
                Filling, AcquireStep,
                Drop, Acquire, Store, Queue, besideEnqueue, workerVars
  <2> QED  BY <1>1, <2>1, <2>2, <2>3
<1>3. ASSUME NEW t \in Producer, Queue(t), QSwap(t) PROVE Balance'
  <2>1. /\ e_pc[t] = "queue" /\ q_pc[t] = "swap" /\ q_pc'[t] = "link"
        /\ fifo' = Append(fifo, q_n[t]) /\ q_n[t] \in Record
        /\ UNCHANGED <<enqueued_, output, w_rec>>
    BY <1>3, AtCall DEF Queue, Goto, QSwap, Equipped, MpscQueueTypeOK, besideEnqueue,
                        counters, workerVars
  <2>2. \A u \in Producer \ {t} : e_pc'[u] = e_pc[u] /\ q_pc'[u] = q_pc[u]
    BY <1>3, EnqueueAlone DEF Alone, Enqueue
  <2>3. Linking' = Linking \cup {t} /\ t \notin Linking  BY <2>1, <2>2 DEF Linking
  <2>4. IsFiniteSet(Linking') /\ Cardinality(Linking') = Cardinality(Linking) + 1
    BY <1>0, <2>3, OneMore
  <2>5. Len(fifo') = Len(fifo) + 1  BY <1>0, <2>1
  <2>6. UNCHANGED <<enqueued_, output, w_rec>>  BY <2>1
  <2> QED  BY <1>0, <2>4, <2>5, <2>6 DEF Balance
<1>4. ASSUME NEW t \in Producer, Count(t) PROVE Balance'
  <2>1. /\ e_pc[t] = "count" /\ e_pc'[t] = "idle" /\ q_pc[t] = "idle"
        /\ enqueued_' = enqueued_ + 1 /\ UNCHANGED <<q_pc, output, w_rec, fifo>>
    BY <1>4, AtCall DEF Count, Goto, queueVars, workerVars, Control, Busy
  <2>2. \A u \in Producer \ {t} : e_pc'[u] = e_pc[u]
    BY <1>4, EnqueueAlone DEF Alone, Enqueue
  <2>3. Linking' = Linking \ {t} /\ t \in Linking
    <3>1. \A u \in Producer : e_pc'[u] = "count" \/ q_pc'[u] = "link"
                             <=> u # t /\ (e_pc[u] = "count" \/ q_pc[u] = "link")
      BY <2>1, <2>2
    <3> QED  BY <2>1, <3>1 DEF Linking
  <2>4. IsFiniteSet(Linking') /\ Cardinality(Linking') = Cardinality(Linking) - 1
    BY <1>0, <2>3, OneLess
  <2> QED  BY <1>0, <2>1, <2>4 DEF Balance
<1>5. CASE WorkerStep
  <2>1. Linking' = Linking /\ enqueued_' = enqueued_
    BY <1>5, LoopAlone DEF Linking, enqueueVars
  <2>2. CASE WorkerPop
    <3>1. /\ w_rec = NULL /\ w_rec' \in Record /\ output' = output
          /\ Len(fifo') = Len(fifo) - 1
      <4>1. c_pc # "reset_tail" /\ Advance /\ w_rec' = NextOfHead /\ w_rec = NULL
        BY <2>2 DEF WorkerPop, QPop, QPopSpun, WGoto, Control, WorkerBusy
      <4>2. Queued
        BY <4>1 DEF Queued, StructuresSound, QueueSound, EngineInv, TypeOK
      <4>3. Len(fifo') = Len(fifo) - 1 /\ NextOfHead \in Record
        BY <4>1, <4>2, AdvanceChain, NextIsFirst DEF Queued, Advance
      <4> QED  BY <2>2, <4>1, <4>3 DEF WorkerPop, besideLoop
    <3> QED  BY <1>0, <2>1, <3>1 DEF Balance
  <2>3. CASE WorkerSubmit
    <3>1. w_rec # NULL /\ w_rec' = NULL /\ fifo' = fifo
      BY <2>3, AtLoop DEF WorkerSubmit, WGoto, WorkerEquipped, queueVars
    <3> QED  BY <1>0, <2>1, <2>3, <3>1, OutputGrows DEF Balance
  <2>4. CASE WorkerReset
    <3>1. fifo = <<>>
      BY <2>4 DEF WorkerReset, WGoto, StructuresSound, QueueSound, Control, WorkerBusy
    <3> QED  BY <1>1, <2>1, <2>4, <3>1 DEF WorkerReset, QResetStub, QResetTail, besideLoop
  <2>5. CASE WorkerTest \/ WorkerAskEmpty \/ WorkerPopNone \/ WorkerRecycle
    BY <1>1, <2>1, <2>5 DEF WorkerTest, WorkerAskEmpty, WorkerPopNone, WorkerRecycle,
          loopLocals, queueVars, besideLoop, QEmptyNo, QEmptyBusy, QEmptyMiss, QEmptyYes,
          QPopMiss, QPopBusy, QPopEmpty, ConsumerGoes
  <2> QED  BY <1>5, <2>2, <2>3, <2>4, <2>5 DEF WorkerStep
<1>6. ASSUME NEW c \in Closer, Shutdown(c) \/ ShutdownStep(c) PROVE Balance'
  BY <1>1, <1>6 DEF Shutdown, ShutdownStep, ShutdownJoinable, ShutdownJoin, Linking,
                    queueVars, enqueueVars, workerVars, loopLocals, counters
<1>7. CASE UNCHANGED vars
  BY <1>1, <1>7 DEF vars, Linking, queueVars, enqueueVars, workerVars, counters
<1> QED  BY <1>2, <1>3, <1>4, <1>5, <1>6, <1>7 DEF Next, Done

\* The invariant of the counters, and what it means once everybody has stopped.
CountInvariant == Tally /\ (~aba => Balance)

\* Nothing is counted at the beginning, and nothing is in flight.
LEMMA CountInit == Init => CountInvariant
<1> SUFFICES ASSUME Init PROVE CountInvariant  OBVIOUS
<1>1. CallsMade = {} /\ InFlight = {} /\ Linking = {}
  BY DEF Init, MpscQueueInit, CallsMade, InFlight, Linking, Msg
<1>2. Len(output) = 0 /\ Len(fifo) = 0  BY DEF Init, MpscQueueInit
<1> QED  BY <1>1, <1>2, FS_EmptySet DEF Init, CountInvariant, Tally, Balance

\* Every step moves a message from one count to another, or makes a call.
LEMMA CountNext ==
    ASSUME QuietInv, CountInvariant, [Next]_vars PROVE CountInvariant'
BY TallyNext, BalanceNext, AbaStays DEF QuietInv, CountInvariant

\* An engine that has stopped has nothing in flight, and its counts agree.
LEMMA StoppedDrained ==
    ASSUME QuietInv, CountInvariant PROVE ShutdownDrains
<1> SUFFICES ASSUME ~aba, Stopped
             PROVE  /\ written_ + Len(fifo) = enqueued_ /\ Len(output) = written_
                    /\ enqueued_ + dropped_ + thrown = Cardinality(CallsMade)
                    /\ thrown = 0 => fifo = <<>>
  BY DEF ShutdownDrains
<1>1. InFlight = {} /\ Linking = {}
  BY DEF Stopped, InFlight, Linking, QuietInv, Control, Busy
<1>2. (thrown = 0 => fifo = <<>>) /\ w_rec = NULL
  BY DEF Stopped, QuietInv, StructuresSound, QueueSound, Control, WorkerBusy
<1>3. /\ Len(fifo) \in Nat /\ thrown \in Nat /\ Len(output) \in Nat
      /\ enqueued_ \in Nat /\ dropped_ \in Nat
      /\ Cardinality(InFlight) = 0 /\ Cardinality(Linking) = 0
  BY <1>1, AtLoop, FS_EmptySet DEF QuietInv, EngineInv, TypeOK, MpscQueueTypeOK
<1> QED  BY <1>2, <1>3 DEF CountInvariant, Tally, Balance

\* "After shutdown, worker has drained everything": whoever keeps enqueue() and shutdown()
\* apart finds all counters in agreement when the engine stops and, if no start has thrown,
\* the queue empty, for any number of producers, records and calls, as long as no thread
\* works on the records of a freed pool.
THEOREM ShutdownDrainsIfQuiet == Quiet = TRUE => (Spec /\ []NoFreedRecord => []ShutdownDrains)
<1> SUFFICES ASSUME Quiet = TRUE PROVE Spec /\ []NoFreedRecord => []ShutdownDrains
  OBVIOUS
<1>1. Quiet  OBVIOUS
<1>2. QuietInv /\ CountInvariant /\ [Next]_vars => QuietInv' /\ CountInvariant'
  BY <1>1, QuietInvNext, CountNext
<1>3. QuietInv /\ CountInvariant => ShutdownDrains  BY StoppedDrained
<1> QED  BY <1>2, <1>3, QuietInvInit, CountInit, PTL DEF Spec

-----------------------------------------------------------------------------
(* The service *)

\* The message of a call is in its record until the record is in the queue.
Stored ==
    \A t \in Producer : e_pc[t] = "queue" /\ q_pc[t] # "link" =>
        storage[e_rec[t]] = <<t, calls[t]>>

\* A record of producer t is not with the others, nor with the worker, nor queued.
LEMMA OwnedApart ==
    ASSUME StructuresSound, NEW t \in Producer, NEW r \in Record, r \in OwnedBy(t)
    PROVE  /\ \A u \in Producer \ {t} : r \notin OwnedBy(u)
           /\ w_rec # r /\ ~InQueue(r)
<1>1. Holds("own", t, r)  BY DEF Holds
<1>2. \A k \in Place, u \in Thread : Holds(k, u, r) => k = "own" /\ u = t
  BY <1>1 DEF StructuresSound, Placed, OnePlace, Place
<1> QED  BY <1>2 DEF Holds, Place

\* The record in the worker's hands is not queued.
LEMMA HandApart ==
    ASSUME StructuresSound, w_rec \in Record PROVE ~InQueue(w_rec)
<1>1. Holds("hand", Worker, w_rec)  BY DEF Holds
<1>2. InQueue(w_rec) => Holds("queue", Worker, w_rec)  BY DEF Holds
<1> QED  BY <1>1, <1>2 DEF StructuresSound, Placed, OnePlace, Place

\* Nobody else writes to it.
LEMMA StoredNext ==
    ASSUME EngineInv, Control, StructuresSound, Stored, [Next]_vars PROVE Stored'
<1>0. \A t \in Producer : e_pc[t] = "queue" => e_rec[t] \in Record  BY AtCall DEF Equipped
<1>1. CASE UNCHANGED <<e_pc, q_pc, e_rec, calls, storage>>  BY <1>1 DEF Stored
<1>2. ASSUME NEW t \in Producer, Enqueue(t) PROVE Stored'
  <2>1. ASSUME NEW u \in Producer, u # t, e_pc'[u] = "queue", q_pc'[u] # "link"
        PROVE  storage'[e_rec'[u]] = <<u, calls'[u]>>
    <3>1. /\ e_pc[u] = "queue" /\ q_pc[u] # "link" /\ e_rec'[u] = e_rec[u]
          /\ calls'[u] = calls[u]
      BY <1>2, <2>1, EnqueueAlone DEF Alone
    <3>2. storage'[e_rec[u]] = storage[e_rec[u]]
      <4>1. CASE Store(t)
        <5>1. e_rec[t] \in Record /\ e_rec[t] \in OwnedBy(t)
          BY <4>1, AtCall DEF Store, Goto, Equipped, OwnedBy, Control, Busy
        <5>2. e_rec[u] \in Record /\ e_rec[u] \in OwnedBy(u)
          BY <1>0, <3>1 DEF OwnedBy
        <5>3. e_rec[u] # e_rec[t]  BY <2>1, <5>1, <5>2, OwnedApart
        <5> QED  BY <4>1, <5>2, <5>3, AtCall DEF Store
      <4>2. CASE ~Store(t)
        BY <1>2, <4>2 DEF Enqueue, EnsureRunning, AllocPool, StartThrows, Fill, Filling,
              StartWorker, AcquireStep, Drop, Acquire, Queue, Count, besideEnqueue
      <4> QED  BY <4>1, <4>2
    <3> QED  BY <3>1, <3>2 DEF Stored
  <2>2. ASSUME e_pc'[t] = "queue", q_pc'[t] # "link"
        PROVE  storage'[e_rec'[t]] = <<t, calls'[t]>>
    <3>1. CASE Store(t)
      BY <3>1, AtCall DEF Store, Goto, Equipped
    <3>2. CASE Queue(t)
      <4>1. e_pc[t] = "queue" /\ q_pc[t] # "link" /\ UNCHANGED <<e_rec, calls, storage>>
        BY <2>2, <3>2, AtCall DEF Queue, Goto, QClear, QSwap, QLink, MpscQueueTypeOK,
                                  besideEnqueue
      <4> QED  BY <4>1 DEF Stored
    <3>3. CASE ~Store(t) /\ ~Queue(t)
      BY <1>2, <2>2, <3>3, AtCall
         DEF Enqueue, EnsureRunning, AllocPool, StartThrows, Fill, Filling, StartWorker,
             AcquireStep, Drop,
             Acquire, Count, Goto
    <3> QED  BY <3>1, <3>2, <3>3
  <2> QED  BY <2>1, <2>2 DEF Stored
<1>3. CASE WorkerStep
  <2>1. UNCHANGED <<e_pc, q_pc, e_rec, calls>>  BY <1>3, LoopAlone DEF enqueueVars
  <2>2. CASE WorkerSubmit
    <3>1. ASSUME NEW t \in Producer, e_pc[t] = "queue", q_pc[t] # "link"
          PROVE  storage'[e_rec[t]] = storage[e_rec[t]]
      <4>1. e_rec[t] \in Record /\ e_rec[t] \in OwnedBy(t)  BY <1>0, <3>1 DEF OwnedBy
      <4>2. e_rec[t] # w_rec  BY <4>1, OwnedApart
      <4> QED  BY <2>2, <4>1, <4>2, AtLoop DEF WorkerSubmit
    <3> QED  BY <2>1, <3>1 DEF Stored
  <2>3. CASE ~WorkerSubmit
    BY <1>1, <1>3, <2>1, <2>3 DEF WorkerStep, WorkerTest, WorkerAskEmpty, WorkerPop,
          WorkerPopNone, WorkerRecycle, WorkerReset, besideLoop
  <2> QED  BY <2>2, <2>3
<1>4. ASSUME NEW c \in Closer, Shutdown(c) \/ ShutdownStep(c) PROVE Stored'
  BY <1>1, <1>4 DEF Shutdown, ShutdownStep, ShutdownJoinable, ShutdownJoin, queueVars,
                    enqueueVars
<1>5. CASE UNCHANGED vars  BY <1>1, <1>5 DEF vars, queueVars, enqueueVars
<1> QED  BY <1>2, <1>3, <1>4, <1>5 DEF Next, Done

\* Facts about sequences.
LEMMA ConsSeq ==
    ASSUME NEW S, NEW x \in S, NEW s \in Seq(S)
    PROVE  /\ <<x>> \o s \in Seq(S) /\ <<x>> \o s # <<>>
           /\ Head(<<x>> \o s) = x /\ Tail(<<x>> \o s) = s
  OBVIOUS

\* Appending to the second of two sequences is appending to both.
LEMMA ConcatAppend ==
    ASSUME NEW S, NEW s \in Seq(S), NEW h \in Seq(S), NEW x \in S
    PROVE  h \o Append(s, x) = Append(h \o s, x) /\ <<>> \o s = s
  OBVIOUS

\* The messages in the records of a sequence.
Messages(g, f) == [i \in 1..Len(f) |-> g[f[i]]]

\* Messages follow their records: one more at the end, the first one gone.
LEMMA MessagesSeq ==
    ASSUME NEW M, NEW g \in [Record -> M], NEW f \in Seq(Record)
    PROVE  /\ Messages(g, f) \in Seq(M)
           /\ \A r \in Record : Messages(g, Append(f, r)) = Append(Messages(g, f), g[r])
           /\ f # <<>> => Messages(g, f) = <<g[f[1]]>> \o Messages(g, Tail(f))
<1>1. Messages(g, f) \in Seq(M) /\ Len(Messages(g, f)) = Len(f) /\ Len(f) \in Nat
  BY DEF Messages
<1>2. ASSUME NEW r \in Record
      PROVE  Messages(g, Append(f, r)) = Append(Messages(g, f), g[r])
  BY <1>1 DEF Messages
<1>3. ASSUME f # <<>> PROVE Messages(g, f) = <<g[f[1]]>> \o Messages(g, Tail(f))
  BY <1>1, <1>3 DEF Messages
<1> QED  BY <1>1, <1>2, <1>3

\* What the worker has in its hands and has yet to print.
Hands == IF w_rec # NULL THEN <<storage[w_rec]>> ELSE <<>>

\* What the service has pending is in the worker's hands and in the queue, ...
LEMMA PendingIs == Control => PendingMsgs = Hands \o Messages(storage, fifo)
BY DEF Control, WorkerBusy, PendingMsgs, Hands, Messages

\* ... before a step and behind it.
LEMMA PendingIsNext == Control' => PendingMsgs' = Hands' \o Messages(storage', fifo')
BY DEF Control, WorkerBusy, PendingMsgs, Hands, Messages

\* A step that neither moves nor writes the records on their way to the output.
LEMMA PendingKept ==
    ASSUME EngineInv, Control, Control', UNCHANGED <<fifo, w_rec>>,
           \A r \in Record : w_rec = r \/ InQueue(r) => storage'[r] = storage[r]
    PROVE  PendingMsgs' = PendingMsgs
<1>1. Hands' = Hands
  <2>1. w_rec # NULL => w_rec \in Record  BY AtLoop DEF FreePtr
  <2> QED  BY <2>1 DEF Hands
<1>2. Messages(storage', fifo') = Messages(storage, fifo)
  <2>1. \A i \in 1..Len(fifo) : fifo[i] \in Record /\ InQueue(fifo[i])
    BY AtLoop DEF MpscQueueTypeOK, InQueue
  <2>2. \A i \in 1..Len(fifo) : storage'[fifo[i]] = storage[fifo[i]]  BY <2>1
  <2> QED  BY <2>2 DEF Messages
<1> QED  BY <1>1, <1>2, PendingIs, PendingIsNext

\* What each producer has sent.
SentByAll == [t \in Producer |-> SentBy(t)]

\* A step of enqueue() leaves what the others have sent alone.
LEMMA OthersSent ==
    ASSUME EngineInv, NEW t \in Producer, Enqueue(t), NEW u \in Producer \ {t}
    PROVE  SentBy(u)' = SentBy(u)
<1>1. e_pc'[u] = e_pc[u] /\ q_pc'[u] = q_pc[u] /\ calls'[u] = calls[u]
  BY EnqueueAlone DEF Alone
<1> QED  BY <1>1 DEF SentBy

\* A call is on its way until it is dropped, accepted or fails.
LEMMA SentKept ==
    ASSUME EngineInv, Control, NEW t \in Producer, Enqueue(t), ~Drop(t), ~StartThrows(t),
           ~(Queue(t) /\ QSwap(t))
    PROVE  SentByAll' = SentByAll
<1>0. Busy(t)  BY DEF Control
<1>1. SentBy(t)' = SentBy(t)
  <2>1. CASE EnsureRunning(t)
    <3>1. /\ e_pc[t] = "idle" /\ e_pc'[t] \in {"acquire", "alloc"} /\ calls'[t] = calls[t] + 1
          /\ q_pc'[t] = "idle" /\ calls[t] \in Nat
      BY <1>0, <2>1, AtCall, NoTouch DEF EnsureRunning, Goto, Busy
    <3> QED  BY <3>1 DEF SentBy
  <2>2. CASE Queue(t)
    <3>1. e_pc[t] = "queue" /\ calls' = calls  BY <2>2 DEF Queue, Goto, besideEnqueue
    <3>2. CASE QClear(t, e_rec[t])
      <4>1. q_pc'[t] # "link" /\ q_pc[t] # "link" /\ e_pc'[t] = "queue"
        BY <2>2, <3>2, AtCall DEF Queue, Goto, QClear, QLink, MpscQueueTypeOK
      <4> QED  BY <3>1, <4>1 DEF SentBy
    <3>3. CASE QLink(t)
      <4>1. q_pc[t] = "link" /\ e_pc'[t] = "count"
        BY <2>2, <3>3, AtCall DEF Queue, Goto, QClear, QSwap, QLink
      <4> QED  BY <3>1, <4>1 DEF SentBy
    <3> QED  BY <2>2, <3>2, <3>3 DEF Queue
  <2>3. CASE Count(t)
    BY <2>3, AtCall DEF Count, Goto, SentBy
  <2>4. CASE AllocPool(t) \/ Fill(t) \/ Filling(t) \/ StartWorker(t) \/ AcquireStep(t)
             \/ Acquire(t) \/ Store(t)
    <3>1. PICK l \in {"fill", "filling", "acquire", "store", "queue"} :
              e_pc[t] \notin {"idle", "count"} /\ e_pc' = [e_pc EXCEPT ![t] = l]
      BY <2>4 DEF AllocPool, Fill, Filling, StartWorker, AcquireStep, Acquire, Store, Goto
    <3>2. UNCHANGED <<q_pc, calls>>
      BY <2>4 DEF AllocPool, Fill, Filling, StartWorker, AcquireStep, Acquire, Store,
                  besideEnqueue, queueVars
    <3> QED  BY <3>1, <3>2, AtCall DEF SentBy
  <2> QED  BY <2>1, <2>2, <2>3, <2>4 DEF Enqueue
<1>2. \A u \in Producer : SentBy(u)' = SentBy(u)  BY <1>1, OthersSent
<1> QED  BY <1>2 DEF SentByAll

\* With one or the other it is sent.
LEMMA SentMore ==
    ASSUME EngineInv, Control, NEW t \in Producer,
           Drop(t) \/ StartThrows(t) \/ (Queue(t) /\ QSwap(t))
    PROVE  /\ SentByAll' = [SentByAll EXCEPT ![t] = @ + 1]
           /\ SentByAll[t] = calls[t] - 1 /\ SentByAll[t] < Logs /\ calls[t] \in Nat
<1>0. Busy(t)  BY DEF Control
<1>1. calls'[t] = calls[t] /\ calls[t] \in 0..Logs
  BY AtCall DEF Drop, StartThrows, Queue, besideEnqueue
<1>2. SentBy(t) = calls[t] - 1
  BY <1>0 DEF Drop, StartThrows, Queue, Goto, QSwap, Busy, SentBy
<1>3. SentBy(t)' = calls[t]
  BY <1>1, AtCall DEF Drop, StartThrows, Queue, Goto, QSwap, MpscQueueTypeOK, SentBy
<1>4. Logs \in Nat /\ calls[t] - 1 < Logs /\ calls[t] - 1 + 1 = calls[t]
  BY <1>1, LogEngineAssumption DEF LogEngineAssumption
<1>5. Enqueue(t)  BY DEF Enqueue
<1>6. \A u \in Producer \ {t} : SentBy(u)' = SentBy(u)  BY <1>5, OthersSent
<1>7. \A u \in Producer : SentBy(u)' = IF u = t THEN SentBy(u) + 1 ELSE SentBy(u)
  BY <1>2, <1>3, <1>4, <1>6
<1>8. SentByAll' = [u \in Producer |-> IF u = t THEN SentBy(u) + 1 ELSE SentBy(u)]
  BY <1>7 DEF SentByAll
<1>9. DOMAIN SentByAll = Producer /\ \A u \in Producer : SentByAll[u] = SentBy(u)
  BY DEF SentByAll
<1>10. \A u \in Producer : [SentByAll EXCEPT ![t] = @ + 1][u]
                             = IF u = t THEN SentBy(u) + 1 ELSE SentBy(u)
  BY <1>9
<1>11. SentByAll' = [SentByAll EXCEPT ![t] = @ + 1]  BY <1>8, <1>9, <1>10
<1> QED  BY <1>1, <1>2, <1>4, <1>9, <1>11

\* A swap of tail_ accepts the message.
LEMMA SwapAccepts ==
    ASSUME EngineInv, Control, Control', Stored, NEW t \in Producer, Queue(t), QSwap(t)
    PROVE  Service!Accept(t)
<1> DEFINE m == <<t, calls[t]>>
           M == Msg \cup {NoMsg}
<1>1. /\ e_pc[t] = "queue" /\ q_n[t] = e_rec[t] /\ e_rec[t] \in Record
      /\ storage[e_rec[t]] = m /\ fifo' = Append(fifo, e_rec[t])
      /\ UNCHANGED <<storage, w_rec, dropped_, thrown, output>>
  BY AtCall DEF Queue, Goto, QSwap, Equipped, Control, Busy, Stored, besideEnqueue, counters,
                lifecycle, workerVars
<1>2. storage \in [Record -> M] /\ fifo \in Seq(Record) /\ (w_rec # NULL => w_rec \in Record)
  BY AtLoop DEF MpscQueueTypeOK, FreePtr
<1>3. m \in M  BY <1>1, <1>2
<1> HIDE DEF m, M
<1>4. Messages(storage', fifo') = Append(Messages(storage, fifo), m)
      /\ Messages(storage, fifo) \in Seq(M)
  BY <1>1, <1>2, MessagesSeq
<1>5. Hands' = Hands /\ Hands \in Seq(M)  BY <1>1, <1>2 DEF Hands
<1>6. PendingMsgs' = Append(PendingMsgs, m)
  <2>1. Hands \o Append(Messages(storage, fifo), m)
          = Append(Hands \o Messages(storage, fifo), m)
    BY <1>3, <1>4, <1>5, ConcatAppend
  <2> QED  BY <1>4, <1>5, <2>1, PendingIs, PendingIsNext
<1>7. /\ SentByAll' = [SentByAll EXCEPT ![t] = @ + 1] /\ SentByAll[t] < Logs
      /\ m = <<t, SentByAll[t] + 1>>
  BY SentMore DEF m
<1> QED  BY <1>1, <1>6, <1>7 DEF Service!Accept, Service!Sent, SentByAll

\* A submit writes the first message.
LEMMA SubmitWrites ==
    ASSUME EngineInv, Control, Control', StructuresSound, WorkerSubmit
    PROVE  Service!Write
<1> DEFINE x == storage[w_rec]
           M == Msg \cup {NoMsg}
           q == Messages(storage, fifo)
<1>1. /\ w_rec \in Record /\ w_rec' = NULL /\ fifo' = fifo /\ output' = Append(output, x)
      /\ storage \in [Record -> M] /\ fifo \in Seq(Record)
      /\ \A r \in Record \ {w_rec} : storage'[r] = storage[r]
  BY AtLoop DEF WorkerSubmit, WGoto, WorkerEquipped, queueVars, MpscQueueTypeOK
<1>2. x \in M /\ q \in Seq(M)  BY <1>1, MessagesSeq
<1>3. Messages(storage', fifo') = q
  <2>1. \A i \in 1..Len(fifo) : fifo[i] \in Record \ {w_rec}
    BY <1>1, HandApart DEF InQueue
  <2>2. \A i \in 1..Len(fifo) : storage'[fifo[i]] = storage[fifo[i]]  BY <1>1, <2>1
  <2> QED  BY <1>1, <2>2 DEF Messages
<1>4. Hands = <<x>> /\ Hands' = <<>>
  BY <1>1, LogEngineAssumption DEF LogEngineAssumption, Hands
<1> HIDE DEF x, M, q
<1>5. PendingMsgs = <<x>> \o q  BY <1>4, PendingIs DEF q
<1>6. PendingMsgs' = q
  <2>1. <<>> \o q = q  BY <1>2, ConcatAppend
  <2> QED  BY <1>3, <1>4, <2>1, PendingIsNext
<1>7. PendingMsgs # <<>> /\ Head(PendingMsgs) = x /\ PendingMsgs' = Tail(PendingMsgs)
  BY <1>2, <1>5, <1>6, ConsSeq
<1>8. SentByAll' = SentByAll /\ dropped_' = dropped_ /\ thrown' = thrown
  BY LoopAlone DEF WorkerStep, SentByAll, SentBy, enqueueVars, lifecycle
<1> QED  BY <1>1, <1>7, <1>8 DEF Service!Write, SentByAll

\* A pop moves the first message from the queue to the worker's hands.
LEMMA PopMoves ==
    ASSUME EngineInv, Control, Control', StructuresSound, WorkerPop
    PROVE  PendingMsgs' = PendingMsgs
<1> DEFINE M == Msg \cup {NoMsg}
           q == Messages(storage, fifo)
<1>1. /\ c_pc # "reset_tail" /\ Advance /\ w_rec' = NextOfHead /\ w_rec = NULL
      /\ storage' = storage
  BY DEF WorkerPop, QPop, QPopSpun, WGoto, Control, WorkerBusy, besideLoop
<1>2. Queued
  BY <1>1 DEF Queued, StructuresSound, QueueSound, EngineInv, TypeOK
<1>3. fifo # <<>> /\ fifo' = Tail(fifo) /\ w_rec' = fifo[1] /\ fifo[1] \in Record
  BY <1>1, <1>2, AdvanceChain, NextIsFirst DEF Queued, Advance
<1>4. storage \in [Record -> M] /\ fifo \in Seq(Record)
  BY AtLoop DEF MpscQueueTypeOK
<1>5. q \in Seq(M) /\ q = <<storage[fifo[1]]>> \o Messages(storage, Tail(fifo))
  BY <1>3, <1>4, MessagesSeq
<1>6. Hands = <<>> /\ Hands' = <<storage[fifo[1]]>>
  BY <1>1, <1>3, LogEngineAssumption DEF LogEngineAssumption, Hands
<1> HIDE DEF M, q
<1>7. PendingMsgs = q
  <2>1. <<>> \o q = q  BY <1>5, ConcatAppend
  <2> QED  BY <1>6, <2>1, PendingIs DEF q
<1>8. PendingMsgs' = <<storage[fifo[1]]>> \o Messages(storage, Tail(fifo))
  BY <1>1, <1>3, <1>6, PendingIsNext
<1> QED  BY <1>5, <1>7, <1>8

\* The other steps of enqueue() are nothing to the service.
LEMMA EnqueueUnseen ==
    ASSUME EngineInv, Control, Control', StructuresSound, NEW t \in Producer, Enqueue(t),
           ~(Queue(t) /\ QSwap(t))
    PROVE  PendingMsgs' = PendingMsgs
<1>1. fifo' = fifo
  BY DEF Enqueue, EnsureRunning, AllocPool, StartThrows, Fill, Filling, StartWorker,
         AcquireStep, Drop,
         Acquire, Store, Queue, Count, QClear, QLink, queueVars
<1>2. w_rec' = w_rec
  <2>1. CASE StartWorker(t)
    <3>1. worker_ = "joinable" \/ w_rec = NULL
      BY DEF EngineInv, TypeOK, Control, WorkerBusy
    <3> QED  BY <2>1, <3>1 DEF StartWorker, workerVars
  <2> QED  BY <2>1 DEF Enqueue, EnsureRunning, AllocPool, StartThrows, Fill, Filling,
              AcquireStep, Drop,
              Acquire, Store, Queue, Count, besideEnqueue, workerVars
<1>3. ASSUME NEW r \in Record, w_rec = r \/ InQueue(r) PROVE storage'[r] = storage[r]
  <2>1. CASE Store(t)
    <3>1. e_rec[t] \in Record /\ e_rec[t] \in OwnedBy(t)
      BY <2>1, AtCall DEF Store, Goto, Equipped, OwnedBy, Control, Busy
    <3>2. r # e_rec[t]  BY <1>3, <3>1, OwnedApart
    <3> QED  BY <2>1, <3>2, AtCall DEF Store
  <2> QED  BY <2>1 DEF Enqueue, EnsureRunning, AllocPool, StartThrows, Fill, Filling, StartWorker,
              AcquireStep, Drop, Acquire, Queue, Count, besideEnqueue
<1> QED  BY <1>1, <1>2, <1>3, PendingKept

\* What the service sees of the engine.
seen == <<SentByAll, PendingMsgs, dropped_ + thrown, output>>

\* Every step accepts, drops or prints a message, or is nothing to the service.
LEMMA ServiceStep ==
    ASSUME EngineInv, Control, Control', StructuresSound, Stored, [Next]_vars
    PROVE  Service!Next \/ UNCHANGED seen
<1>1. ASSUME NEW t \in Producer, Enqueue(t) PROVE Service!Next \/ UNCHANGED seen
  <2>1. CASE Queue(t) /\ QSwap(t)  BY <2>1, SwapAccepts DEF Service!Next
  <2>2. CASE Drop(t) \/ StartThrows(t)
    <3>1. PendingMsgs' = PendingMsgs
      <4>1. ~(Queue(t) /\ QSwap(t))  BY <2>2 DEF Drop, StartThrows, Queue, Goto
      <4> QED  BY <1>1, <4>1, EnqueueUnseen
    <3>2. SentByAll' = [SentByAll EXCEPT ![t] = @ + 1] /\ SentByAll[t] < Logs
      BY <2>2, SentMore
    <3>3. (dropped_ + thrown)' = (dropped_ + thrown) + 1 /\ output' = output
      <4>1. dropped_ \in Nat /\ thrown \in Nat  BY DEF EngineInv, TypeOK
      <4> QED  BY <2>2, <4>1 DEF Drop, StartThrows, workerVars, counters, lifecycle
    <3> QED  BY <3>1, <3>2, <3>3 DEF Service!Next, Service!Drop, Service!Sent, SentByAll
  <2>3. CASE ~(Queue(t) /\ QSwap(t)) /\ ~Drop(t) /\ ~StartThrows(t)
    <3>1. PendingMsgs' = PendingMsgs /\ SentByAll' = SentByAll
      BY <1>1, <2>3, EnqueueUnseen, SentKept
    <3>2. UNCHANGED <<dropped_, thrown, output>>
      BY <1>1, <2>3 DEF Enqueue, EnsureRunning, AllocPool, Fill, Filling, StartWorker,
         AcquireStep, Acquire, Store, Queue, Count, besideEnqueue, counters, lifecycle,
         workerVars
    <3> QED  BY <3>1, <3>2 DEF seen
  <2> QED  BY <2>1, <2>2, <2>3
<1>2. CASE WorkerStep
  <2>1. SentByAll' = SentByAll /\ dropped_' = dropped_ /\ thrown' = thrown
    BY <1>2, LoopAlone DEF SentByAll, SentBy, enqueueVars, lifecycle
  <2>2. CASE WorkerSubmit  BY <2>2, SubmitWrites DEF Service!Next
  <2>3. CASE WorkerPop
    BY <2>1, <2>3, PopMoves DEF seen, WorkerPop, besideLoop
  <2>4. CASE WorkerTest \/ WorkerAskEmpty \/ WorkerPopNone \/ WorkerRecycle \/ WorkerReset
    <3>1. UNCHANGED <<output, storage, w_rec>>
      BY <2>4 DEF WorkerTest, WorkerAskEmpty, WorkerPopNone, WorkerRecycle, WorkerReset,
                  besideLoop, loopLocals
    <3>2. fifo' = fifo
      <4>1. CASE WorkerReset
        <5>1. fifo = <<>>
          BY <4>1 DEF WorkerReset, WGoto, StructuresSound, QueueSound, Control, WorkerBusy
        <5> QED  BY <4>1, <5>1 DEF WorkerReset, QResetStub, QResetTail
      <4> QED  BY <2>4, <4>1 DEF WorkerTest, WorkerAskEmpty, WorkerPopNone, WorkerRecycle,
                  queueVars, QEmptyNo, QEmptyBusy, QEmptyMiss, QEmptyYes, QPopMiss,
                  QPopBusy, QPopEmpty, ConsumerGoes
    <3>3. PendingMsgs' = PendingMsgs  BY <3>1, <3>2, PendingKept
    <3> QED  BY <2>1, <3>1, <3>3 DEF seen
  <2> QED  BY <1>2, <2>2, <2>3, <2>4 DEF WorkerStep
<1>3. CASE UNCHANGED <<e_pc, q_pc, calls, dropped_, thrown, output, storage, fifo, w_rec>>
  <2>1. PendingMsgs' = PendingMsgs  BY <1>3, PendingKept
  <2>2. SentByAll' = SentByAll  BY <1>3 DEF SentByAll, SentBy
  <2> QED  BY <1>3, <2>1, <2>2 DEF seen
<1>4. ASSUME NEW c \in Closer, Shutdown(c) \/ ShutdownStep(c) PROVE UNCHANGED seen
  <2>1. UNCHANGED <<e_pc, q_pc, calls, dropped_, thrown, output, storage, fifo, w_rec>>
    BY <1>4 DEF Shutdown, ShutdownStep, ShutdownJoinable, ShutdownJoin, queueVars,
                enqueueVars, workerVars, loopLocals, counters
  <2>2. PendingMsgs' = PendingMsgs  BY <2>1, PendingKept
  <2>3. SentByAll' = SentByAll  BY <2>1 DEF SentByAll, SentBy
  <2> QED  BY <2>1, <2>2, <2>3 DEF seen
<1>5. CASE UNCHANGED vars
  BY <1>3, <1>5 DEF vars, queueVars, enqueueVars, workerVars, counters, lifecycle
<1> QED  BY <1>1, <1>2, <1>4, <1>5 DEF Next, Done

\* At first nothing is sent.
LEMMA ServiceInit == Init => Service!Init
<1> SUFFICES ASSUME Init PROVE Service!Init  OBVIOUS
<1>1. [t \in Producer |-> SentBy(t)] = [t \in Producer |-> 0]  BY DEF Init, SentBy
<1>2. PendingMsgs = <<>>
  <2>1. Len(fifo) = 0  BY DEF Init, MpscQueueInit
  <2>2. Messages(storage, fifo) = <<>>  BY <2>1 DEF Messages
  <2>3. Hands = <<>>  BY DEF Init, Hands
  <2>4. <<>> \o <<>> = <<>>  OBVIOUS
  <2> QED  BY <2>2, <2>3, <2>4, PendingIs, ControlInit
<1> QED  BY <1>1, <1>2 DEF Init, Service!Init

\* The engine implements the service: whoever keeps enqueue() and shutdown() apart has, as long
\* as no CAS of the free list succeeds on a stale successor and no thread works on the records
\* of a freed pool, each message accepted or dropped once, in the order its producer logged
\* it, and the accepted ones printed unchanged, once each, in the order they were accepted.
THEOREM RefinesServiceIfQuiet ==
    Quiet = TRUE => (Spec /\ []~aba /\ []NoFreedRecord => ImplementsService)
<1> SUFFICES ASSUME Quiet = TRUE
             PROVE  Spec /\ []~aba /\ []NoFreedRecord => ImplementsService
  OBVIOUS
<1>1. Quiet  OBVIOUS
<1> DEFINE Inv == QuietInv /\ (~aba => Stored)
<1>2. Init => Inv /\ Service!Init
  <2>1. Init => Stored  BY DEF Init, Stored
  <2> QED  BY <2>1, QuietInvInit, ServiceInit
<1>3. Inv /\ [Next]_vars => Inv'
  <2> SUFFICES ASSUME Inv, [Next]_vars PROVE Inv'  OBVIOUS
  <2>1. QuietInv'  BY <1>1, QuietInvNext
  <2>2. ~aba' => Stored'  BY AbaStays, StoredNext DEF QuietInv
  <2> QED  BY <2>1, <2>2
<1>4. Inv /\ Inv' /\ ~aba /\ [Next]_vars
        => [Service!Next]_<<[t \in Producer |-> SentBy(t)], PendingMsgs, dropped_ + thrown,
                            output>>
  <2> SUFFICES ASSUME Inv, Inv', ~aba, [Next]_vars PROVE Service!Next \/ UNCHANGED seen
    BY DEF seen, SentByAll
  <2> QED  BY ServiceStep DEF QuietInv
<1> HIDE DEF Inv
<1> QED  BY <1>2, <1>3, <1>4, PTL DEF Spec, ImplementsService, Service!Spec

-----------------------------------------------------------------------------
(* One producer *)

OneProducer == \A p, q \in Producer : p = q

\* A producer within try_pop() holds a record of the list and, once it has read it, its
\* successor.
PopperKnows ==
    \A t \in Producer : Popping(t) =>
        /\ InList(fl_h[t])
        /\ fl_pc[t] = "pop_cas" => fl_next[t] = free_next[fl_h[t]]

\* The calls of the one producer and the pushes of the worker keep it so.
LEMMA KnowsCall ==
    ASSUME EngineInv, StructuresSound, PopperKnows, OneProducer, ~aba, NEW t \in Thread,
           Calls(t), t \in Producer \/ PushStep(t) \/ PushCas(t)
                     \/ \E n \in Record : PushLoad(t, n)
    PROVE  ~aba' /\ PopperKnows'
<1>0. FreeListTypeOK /\ OnePlace /\ Linked /\ PushLinked
  BY AtLoop DEF StructuresSound, Placed
<1> USE DEF Popping
<1>1. ~aba'
  <2>1. CASE PopCas(t)
    <3>1. t \in Producer \/ fl_pc[t] # "pop_cas"
      BY DEF PushStep, PushLink, PushRetry, PushCas, PushLoad
    <3> QED  BY <2>1, <3>1 DEF PopCas, StaleNext, PopperKnows
  <2> QED  BY <2>1 DEF Calls, PopLoad, PopLoadNull, PopStep, PopRead, PopRetry, PopRetryNull,
              PushStep, PushLink, PushRetry, PushCas, PushLoad, flVars
<1>2. ASSUME NEW u \in Producer, u # t, Popping(u)'
      PROVE  InList(fl_h[u])' /\ (fl_pc'[u] = "pop_cas" => fl_next'[u] = free_next'[fl_h'[u]])
  <2>1. /\ fl_pc'[u] = fl_pc[u] /\ fl_h'[u] = fl_h[u] /\ fl_next'[u] = fl_next[u]
        /\ u \in Thread
    BY <1>0, <1>2, OthersKeepLocals
  <2>2. fl_h[u] \in Record /\ InList(fl_h[u])
    BY <1>0, <1>2, <2>1 DEF PopperKnows, FreeListTypeOK, FreePtr
  <2>3. PushStep(t) \/ PushCas(t) \/ \E n \in Record : PushLoad(t, n)
    BY <1>2 DEF OneProducer
  <2>4. InList(fl_h[u])'
    <3>1. \A r \in Record : InList(r) => InList(r)'  BY <1>0, <1>1, <2>3, FreeCall
    <3>2. PICK r \in Record : r = fl_h[u]  BY <2>2
    <3> QED  BY <2>1, <2>2, <3>1, <3>2
  <2>5. free_next'[fl_h[u]] = free_next[fl_h[u]]
    <3>1. CASE PushLink(t)
      <4>1. Holds("push", t, fl_n[t]) /\ fl_n[t] \in Record
        BY <1>0, <3>1 DEF PushLink, Holds, Pushes, Pushing, FreeListTypeOK, FreePtr
      <4>2. Holds("free", Worker, fl_h[u])  BY <2>2 DEF Holds
      <4>3. fl_n[t] # fl_h[u]  BY <1>0, <2>2, <4>1, <4>2 DEF OnePlace, Place
      <4> QED  BY <1>0, <2>2, <3>1, <4>3 DEF PushLink, FreeListTypeOK
    <3> QED  BY <2>3, <3>1 DEF PushStep, PushRetry, PushCas, PushLoad
  <2> QED  BY <1>2, <2>1, <2>4, <2>5 DEF PopperKnows
<1>3. ASSUME t \in Producer, Popping(t)'
      PROVE  InList(fl_h[t])' /\ (fl_pc'[t] = "pop_cas" => fl_next'[t] = free_next'[fl_h'[t]])
  <2>1. CASE PopLoad(t) \/ PopRetry(t)
    <3>1. fl_h'[t] = free_head /\ fl_pc'[t] = "pop_read" /\ free_stack' = free_stack
          /\ free_head # NULL
      BY <1>0, <2>1 DEF PopLoad, PopRetry, FreeListTypeOK
    <3>2. InList(free_head)  BY <1>0, <3>1, HeadInList
    <3> QED  BY <3>1, <3>2 DEF InList
  <2>2. CASE PopRead(t)
    <3>1. /\ fl_h'[t] = fl_h[t] /\ fl_next'[t] = free_next[fl_h[t]] /\ Popping(t)
          /\ UNCHANGED <<free_stack, free_next>>
      BY <1>0, <2>2 DEF PopRead, FreeListTypeOK
    <3> QED  BY <1>3, <3>1 DEF InList, PopperKnows
  <2>3. CASE PopLoadNull(t)
    BY <1>3, <2>3 DEF PopLoadNull, flVars
  <2> QED  BY <1>0, <1>3, <2>1, <2>2, <2>3
           DEF Calls, PopStep, PopRetryNull, PopCas, PushStep, PushLink, PushRetry, PushCas,
               PushLoad, Return, FreeListTypeOK
<1> QED  BY <1>1, <1>2, <1>3 DEF PopperKnows

\* With one producer every step leaves the popper with what it knows.
LEMMA KnowsNext ==
    ASSUME EngineInv, Control, StructuresSound, PopperKnows, OneProducer, ~aba, [Next]_vars
    PROVE  ~aba' /\ PopperKnows'
<1>1. CASE UNCHANGED flVars  BY <1>1 DEF flVars, PopperKnows, Popping, InList
<1>2. ASSUME NEW t \in Producer, Enqueue(t) PROVE Calls(t) \/ UNCHANGED flVars
  <2>1. Fill(t) => Calls(t)  BY FilledRecord DEF Fill, Calls
  <2>2. Filling(t) \/ AcquireStep(t) \/ Drop(t) \/ Acquire(t) => Calls(t)
    BY DEF Filling, AcquireStep, Drop, Acquire, Calls
  <2> QED  BY <1>2, <2>1, <2>2
              DEF Enqueue, EnsureRunning, AllocPool, StartWorker, StartThrows, Store, Queue,
                  Count
<1>3. ASSUME NEW t \in Producer, Enqueue(t) PROVE ~aba' /\ PopperKnows'
  BY <1>1, <1>2, <1>3, KnowsCall
<1>4. ASSUME WorkerStep PROVE ~aba' /\ PopperKnows'
  <2>1. CASE WorkerRecycle
    <3>1. PushStep(Worker) \/ PushCas(Worker) \/ \E n \in Record : PushLoad(Worker, n)
      <4>1. w_pc = "recycle" => pending_recycle \in Record
        BY AtLoop DEF WorkerEquipped, FreePtr
      <4> QED  BY <2>1, <4>1 DEF WorkerRecycle, WGoto
    <3>2. Calls(Worker)  BY <3>1 DEF Calls
    <3> QED  BY <3>1, <3>2, KnowsCall
  <2> QED  BY <1>1, <1>4, <2>1 DEF WorkerStep, WorkerTest, WorkerAskEmpty, WorkerPop,
              WorkerPopNone, WorkerSubmit, WorkerReset
<1>5. ASSUME NEW c \in Closer, Shutdown(c) \/ ShutdownStep(c) PROVE UNCHANGED flVars
  BY <1>5 DEF Shutdown, ShutdownStep, ShutdownJoinable, ShutdownJoin
<1>6. CASE UNCHANGED vars  BY <1>1, <1>6 DEF vars
<1> QED  BY <1>1, <1>3, <1>4, <1>5, <1>6 DEF Next, Done

\* One logging thread cannot run into the ABA of its free list, ...
LEMMA NoAbaWithOneProducer ==
    ASSUME Quiet = TRUE, OneProducer PROVE Spec => []~aba
<1>1. Quiet  OBVIOUS
<1> DEFINE Inv == QuietInv /\ ~aba /\ PopperKnows
<1>2. Init => Inv
  <2>1. Init => ~aba /\ PopperKnows  BY DEF Init, FreeListInit, PopperKnows, Popping
  <2> QED  BY <2>1, QuietInvInit
<1>3. Inv /\ [Next]_vars => Inv'
  <2> SUFFICES ASSUME Inv, [Next]_vars PROVE Inv'  OBVIOUS
  <2>1. QuietInv'  BY <1>1, QuietInvNext
  <2>2. ~aba' /\ PopperKnows'  BY KnowsNext DEF QuietInv
  <2> QED  BY <2>1, <2>2
<1>4. Inv => ~aba  OBVIOUS
<1> HIDE DEF Inv
<1> QED  BY <1>2, <1>3, <1>4, PTL DEF Spec

\* ... so that with it only a freed pool keeps the engine from implementing the service.
THEOREM RefinesServiceWithOneProducer ==
    ASSUME Quiet = TRUE, OneProducer PROVE Spec /\ []NoFreedRecord => ImplementsService
<1>1. Spec => []~aba  BY NoAbaWithOneProducer
<1>2. Spec /\ []~aba /\ []NoFreedRecord => ImplementsService  BY RefinesServiceIfQuiet
<1> QED  BY <1>1, <1>2, PTL
=============================================================================
