-------------------------- MODULE RecordQueueProofs --------------------------
(***************************************************************************)
(* Proofs about the queue and its recycling protocol under any number of   *)
(* producers and records: the links spell the queue, a record is in one    *)
(* place only, the dummy is never free, records are popped in the order of *)
(* their exchanges, and a spinning consumer waits for somebody.            *)
(***************************************************************************)
EXTENDS RecordQueue, SequenceTheorems, TLAPS

(* The inductive invariant *)

\* What a producer inside push() has in its hands.
PushesSound ==
    /\ \A t \in Thread : q_pc[t] \in {"swap", "link"} => q_n[t] \in Record
    /\ \A t \in Thread : q_pc[t] = "swap" => next[q_n[t]] = NULL
    /\ \A t \in Thread : q_pc[t] = "link" =>
          \E i \in 1..Len(fifo) : q_prev[t] = Chain[i] /\ q_n[t] = Chain[i + 1]
    /\ \A t, u \in Thread :
          (q_pc[t] = "link" /\ q_pc[u] = "link" /\ q_n[t] = q_n[u]) => t = u

\* The dummy is the record kept back, or the stub.
DummyKept ==
    IF c_pc = "reset_tail" \/ phase = "recycle"
    THEN head_ = Stub /\ (c_pc = "reset_tail" => next[Stub] = NULL)
    ELSE head_ = IF pending_recycle = NULL THEN Stub ELSE pending_recycle

\* Once the loop is left, the queue is empty and nobody pushes.
QuietOutside ==
    /\ phase \in {"drain", "reset", "recycle"} =>
          fifo = <<>> /\ \A t \in Thread : ~Enqueuing(t)
    /\ c_pc = "reset_tail" => phase = "reset"
    /\ c_pc = "pop_spin" => fifo # <<>>
    /\ c_pc \in {"pop_tail", "pop_spin"} => phase \in {"body", "drain"}

QueueInv ==
    /\ TypeOK
    /\ QueueSound
    /\ Separate
    /\ PushesSound
    /\ DummyKept
    /\ QuietOutside

-----------------------------------------------------------------------------
\* Type correctness, from the fact that a push holds a record.
LEMMA TypeStep ==
    ASSUME TypeOK, PushesSound, [Next]_vars
    PROVE  TypeOK'
<1> USE LogRecordAssumption DEF TypeOK, MpscQueueTypeOK, FreePtr, MpscPtr, MpscNode
<1>1. ASSUME NEW t \in Thread, Acquire(t) PROVE TypeOK'
  BY <1>1 DEF Acquire, QClear
<1>2. ASSUME NEW t \in Thread, Exchange(t) PROVE TypeOK'
  <2>1. q_n[t] \in Record
    BY <1>2 DEF Exchange, QSwap, PushesSound
  <2>2. fifo' \in Seq(Record)
    BY <1>2, <2>1 DEF Exchange, QSwap
  <2> QED
    BY <1>2, <2>1, <2>2 DEF Exchange, QSwap
<1>3. ASSUME NEW t \in Thread, Link(t) PROVE TypeOK'
  BY <1>3 DEF Link, QLink, PushesSound
<1>4. CASE Enter
  BY <1>4 DEF Enter, queueVars
<1>5. CASE AskEmpty
  BY <1>5 DEF AskEmpty, QEmptyNo, QEmptyBusy, QEmptyMiss, QEmptyYes, ConsumerGoes
<1>6. CASE PopSome
  <2>1. NextOfHead \in Record /\ Advance
    BY <1>6 DEF PopSome, QPop, QPopSpun, Advance, NextOfHead
  <2>2. fifo' \in Seq(Record)
    BY <2>1 DEF Advance
  <2> QED
    BY <1>6, <2>1, <2>2 DEF PopSome, Advance
<1>7. CASE PopNone
  <2>1. \E c \in {"pop_tail", "pop_spin", "idle"} : c_pc' = c
    BY <1>7 DEF PopNone, QPopMiss, QPopBusy, QPopEmpty, ConsumerGoes
  <2>2. phase' \in {"loop", "body", "drain", "reset"}
    BY <1>7 DEF PopNone
  <2>3. UNCHANGED <<tail_, head_, next, q_pc, q_n, q_prev, fifo, free, pending_recycle>>
    BY <1>7 DEF PopNone, QPopMiss, QPopBusy, QPopEmpty, ConsumerGoes
  <2> QED
    BY <2>1, <2>2, <2>3
<1>8. CASE Reset
  <2>1. CASE QResetStub /\ UNCHANGED phase
    BY <2>1, <1>8 DEF Reset, QResetStub
  <2>2. CASE QResetTail /\ phase' = "recycle"
    BY <2>2, <1>8 DEF Reset, QResetTail
  <2> QED
    BY <1>8, <2>1, <2>2 DEF Reset
<1>9. CASE Recycle
  BY <1>9 DEF Recycle, queueVars
<1>10. CASE UNCHANGED vars
  BY <1>10 DEF vars
<1> QED
  BY <1>1, <1>2, <1>3, <1>4, <1>5, <1>6, <1>7, <1>8, <1>9, <1>10
     DEF Next, Producer, Worker

\* The nodes of the chain by position.
LEMMA ChainShape ==
    ASSUME TypeOK
    PROVE  /\ Len(fifo) \in Nat
           /\ Len(Chain) = Len(fifo) + 1
           /\ Chain[1] = head_
           /\ \A i \in 2..Len(fifo) + 1 : Chain[i] = fifo[i - 1]
           /\ \A i \in 1..Len(fifo) : Chain[i + 1] = fifo[i] /\ fifo[i] \in Record
           /\ \A i \in 1..Len(fifo) + 1 : Chain[i] \in MpscNode
<1>1. fifo \in Seq(Record) /\ head_ \in MpscNode
  BY DEF TypeOK, MpscQueueTypeOK
<1>2. /\ Len(fifo) \in Nat
      /\ Len(Chain) = Len(fifo) + 1
      /\ Chain[1] = head_
      /\ \A i \in 2..Len(fifo) + 1 : Chain[i] = fifo[i - 1]
  BY <1>1 DEF Chain
<1>3. \A i \in 1..Len(fifo) : Chain[i + 1] = fifo[i] /\ fifo[i] \in Record
  BY <1>1, <1>2
<1> QED
  BY <1>1, <1>2, <1>3 DEF MpscNode

\* The record owned by a push is not a node of the chain.
LEMMA OwnedOutside ==
    ASSUME QueueInv, NEW t \in Thread, q_pc[t] = "swap"
    PROVE  /\ q_n[t] \in Record
           /\ ~InQueue(q_n[t])
           /\ q_n[t] # head_
           /\ \A i \in 1..Len(fifo) + 1 : Chain[i] # q_n[t]
<1>1. q_n[t] \in Record /\ q_n[t] \in Owned
  BY DEF QueueInv, PushesSound, Owned
<1>2. ~InQueue(q_n[t]) /\ q_n[t] # pending_recycle
  BY <1>1 DEF QueueInv, Separate
<1>3. q_n[t] # head_
  BY <1>1, <1>2, LogRecordAssumption DEF QueueInv, DummyKept
<1>4. \A i \in 1..Len(fifo) + 1 : Chain[i] # q_n[t]
  <2> TAKE i \in 1..Len(fifo) + 1
  <2>1. TypeOK
    BY DEF QueueInv
  <2>2. CASE i = 1
    BY <2>1, <2>2, <1>3, ChainShape
  <2>3. CASE i # 1
    <3>1. i - 1 \in 1..Len(fifo) /\ Chain[i] = fifo[i - 1]
      BY <2>1, <2>3, ChainShape
    <3> QED
      BY <3>1, <1>2 DEF InQueue
  <2> QED
    BY <2>2, <2>3
<1> QED
  BY <1>1, <1>2, <1>3, <1>4

-----------------------------------------------------------------------------
(* One lemma per kind of step *)

\* A producer takes a free record and clears its link.
LEMMA AcquireStep ==
    ASSUME QueueInv, TypeOK', NEW t \in Thread, Acquire(t)
    PROVE  QueueInv'
<1>1. PICK n \in free : QClear(t, n) /\ free' = free \ {n}
  BY DEF Acquire
<1>2. /\ UNCHANGED <<tail_, head_, q_prev, c_pc, fifo, pending_recycle, phase>>
      /\ phase \in {"loop", "body"} /\ q_pc[t] = "idle"
      /\ q_pc' = [q_pc EXCEPT ![t] = "swap"] /\ q_n' = [q_n EXCEPT ![t] = n]
      /\ next' = [next EXCEPT ![n] = NULL]
  BY <1>1 DEF Acquire, QClear
<1>3. TypeOK /\ c_pc # "reset_tail" /\ Chained
  BY <1>2 DEF QueueInv, QuietOutside, QueueSound
<1>4. n \in Record /\ n \notin Owned /\ ~InQueue(n) /\ n # pending_recycle
  BY DEF QueueInv, Separate, TypeOK
<1>5. n # head_
  BY <1>2, <1>3, <1>4, LogRecordAssumption DEF QueueInv, DummyKept
<1>6. Chain' = Chain
  BY <1>2 DEF Chain
<1>7. \A i \in 1..Len(fifo) + 1 : Chain[i] # n /\ next'[Chain[i]] = next[Chain[i]]
  <2> TAKE i \in 1..Len(fifo) + 1
  <2>1. Chain[i] # n
    <3>1. CASE i = 1
      BY <3>1, <1>3, <1>5, ChainShape
    <3>2. CASE i # 1
      <4>1. i - 1 \in 1..Len(fifo) /\ Chain[i] = fifo[i - 1]
        BY <1>3, <3>2, ChainShape
      <4> QED
        BY <4>1, <1>4 DEF InQueue
    <3> QED
      BY <3>1, <3>2
  <2>2. Chain[i] \in MpscNode
    BY <1>3, ChainShape
  <2> QED
    BY <1>2, <1>3, <2>1, <2>2 DEF TypeOK, MpscQueueTypeOK
<1>8. \A p, m : Unlinked(p, m)' <=> Unlinked(p, m)
  BY <1>2, <1>3 DEF Unlinked, TypeOK, MpscQueueTypeOK
<1>9. Chained'
  <2>1. tail_ = Chain[Len(fifo) + 1] /\ Len(Chain) = Len(fifo) + 1 /\ Len(fifo) \in Nat
    BY <1>3, ChainShape DEF Chained
  <2>2. next'[tail_] = NULL
    BY <2>1, <1>7, <1>3 DEF Chained
  <2>3. \A i \in 1..Len(fifo) : next'[Chain[i]] = next[Chain[i]]
    BY <2>1, <1>7
  <2> QED
    BY <2>1, <2>2, <2>3, <1>2, <1>3, <1>6, <1>8 DEF Chained
<1>10. Owned' = Owned \cup {n}
  BY <1>2, <1>3 DEF Owned, TypeOK, MpscQueueTypeOK
<1>11. \A m : InQueue(m)' <=> InQueue(m)
  BY <1>2 DEF InQueue
<1>12. Separate'
  <2>1. \A u, v \in Thread :
           (q_pc'[u] = "swap" /\ q_pc'[v] = "swap" /\ q_n'[u] = q_n'[v]) => u = v
    BY <1>2, <1>3, <1>4 DEF QueueInv, Separate, Owned, TypeOK, MpscQueueTypeOK
  <2> QED
    BY <2>1, <1>1, <1>2, <1>4, <1>10, <1>11 DEF QueueInv, Separate
<1>13. PushesSound'
  <2>1. \A u \in Thread : q_pc'[u] \in {"swap", "link"} => q_n'[u] \in Record
    BY <1>2, <1>3, <1>4 DEF QueueInv, PushesSound, TypeOK, MpscQueueTypeOK
  <2>2. \A u \in Thread : q_pc'[u] = "swap" => next'[q_n'[u]] = NULL
    BY <1>2, <1>3, <1>4 DEF QueueInv, PushesSound, TypeOK, MpscQueueTypeOK, MpscNode
  <2>3. \A u \in Thread : q_pc'[u] = "link" =>
           u # t /\ q_pc[u] = "link" /\ q_n'[u] = q_n[u] /\ q_prev'[u] = q_prev[u]
    BY <1>2, <1>3 DEF TypeOK, MpscQueueTypeOK
  <2> QED
    BY <2>1, <2>2, <2>3, <1>2, <1>6 DEF QueueInv, PushesSound
<1>14. DummyKept' /\ QuietOutside'
  BY <1>2, <1>3 DEF QueueInv, DummyKept, QuietOutside
<1> QED
  BY <1>2, <1>9, <1>12, <1>13, <1>14 DEF QueueInv, QueueSound

\* A producer swings the head to its record, which is not yet linked.
LEMMA ExchangeStep ==
    ASSUME QueueInv, TypeOK', NEW t \in Thread, Exchange(t)
    PROVE  QueueInv'
<1> DEFINE n == q_n[t]
           L == Len(fifo)
<1>1. /\ UNCHANGED <<head_, next, q_n, c_pc, free, pending_recycle, phase>>
      /\ q_pc[t] = "swap" /\ q_pc' = [q_pc EXCEPT ![t] = "link"]
      /\ q_prev' = [q_prev EXCEPT ![t] = tail_]
      /\ tail_' = n /\ fifo' = Append(fifo, n)
  BY DEF Exchange, QSwap
<1>2. /\ n \in Record /\ ~InQueue(n) /\ n # head_
      /\ \A i \in 1..L + 1 : Chain[i] # n
  BY <1>1, OwnedOutside
<1>3. TypeOK /\ phase \notin {"drain", "reset", "recycle"} /\ c_pc # "reset_tail" /\ Chained
  BY <1>1 DEF QueueInv, QuietOutside, QueueSound, Enqueuing
<1>4. /\ L \in Nat /\ Len(fifo') = L + 1
      /\ \A i \in 1..L + 1 : Chain'[i] = Chain[i]
      /\ Chain'[L + 2] = n /\ Len(Chain') = L + 2
      /\ \A i \in 1..L : fifo'[i] = fifo[i]
      /\ fifo'[L + 1] = n
  <2>1. fifo \in Seq(Record) /\ L \in Nat
    BY <1>3 DEF TypeOK, MpscQueueTypeOK
  <2>2. /\ Len(fifo') = L + 1 /\ fifo'[L + 1] = n
        /\ \A i \in 1..L : fifo'[i] = fifo[i]
    BY <2>1, <1>1, <1>2
  <2>3. /\ Len(Chain) = L + 1 /\ Chain[1] = head_
        /\ \A i \in 2..L + 1 : Chain[i] = fifo[i - 1]
    BY <1>3, ChainShape
  <2>4. /\ Len(Chain') = L + 2 /\ Chain'[1] = head_
        /\ \A i \in 2..L + 2 : Chain'[i] = fifo'[i - 1]
    <3>1. fifo' \in Seq(Record) /\ head_' = head_
      BY <2>1, <1>1, <1>2
    <3> QED
      BY <3>1, <2>1, <2>2 DEF Chain
  <2>5. ASSUME NEW i \in 1..L + 1 PROVE Chain'[i] = Chain[i]
    <3>1. CASE i = 1
      BY <3>1, <2>3, <2>4
    <3>2. CASE i # 1
      <4>1. i - 1 \in 1..L /\ i \in 2..L + 1 /\ i \in 2..L + 2
        BY <3>2, <2>1
      <4> QED
        BY <4>1, <2>2, <2>3, <2>4
    <3> QED
      BY <3>1, <3>2
  <2>6. Chain'[L + 2] = n
    <3>1. L + 2 \in 2..L + 2 /\ (L + 2) - 1 = L + 1
      BY <2>1
    <3> QED
      BY <3>1, <2>2, <2>4
  <2> QED
    BY <2>1, <2>2, <2>4, <2>5, <2>6
<1>5. tail_ = Chain[L + 1] /\ next[tail_] = NULL /\ Len(Chain) = L + 1
  BY <1>3, ChainShape DEF Chained
<1> DEFINE Un(p, m) ==
        \E u \in Thread : q_pc'[u] = "link" /\ q_prev'[u] = p /\ q_n'[u] = m
<1>6. \A p, m : m # n => (Un(p, m) <=> Unlinked(p, m))
  BY <1>1, <1>3 DEF Unlinked, TypeOK, MpscQueueTypeOK
<1>7. Un(tail_, n)
  BY <1>1, <1>3 DEF TypeOK, MpscQueueTypeOK
<1>8. next[n] = NULL
  BY <1>1 DEF QueueInv, PushesSound
<1>9. Chained'
  <2>1. tail_' = Chain'[Len(Chain')] /\ next'[tail_'] = NULL
    BY <1>1, <1>4, <1>8
  <2>2. ASSUME NEW i \in 1..L + 1
        PROVE  \/ next'[Chain'[i]] = Chain'[i + 1] /\ ~Un(Chain'[i], Chain'[i + 1])
               \/ next'[Chain'[i]] = NULL /\ Un(Chain'[i], Chain'[i + 1])
    <3>1. CASE i = L + 1
      <4>1. Chain'[i] = tail_ /\ Chain'[i + 1] = n
        BY <3>1, <1>4, <1>5
      <4> QED
        BY <4>1, <1>1, <1>5, <1>7
    <3>2. CASE i # L + 1
      <4>1. i \in 1..L /\ i + 1 \in 1..L + 1
        BY <3>2, <1>4
      <4>2. Chain'[i] = Chain[i] /\ Chain'[i + 1] = Chain[i + 1] /\ Chain[i + 1] # n
        BY <4>1, <1>2, <1>4
      <4> QED
        <5>1. \/ next[Chain[i]] = Chain[i + 1] /\ ~Unlinked(Chain[i], Chain[i + 1])
              \/ next[Chain[i]] = NULL /\ Unlinked(Chain[i], Chain[i + 1])
          BY <4>1, <1>3 DEF Chained
        <5>2. Un(Chain[i], Chain[i + 1]) <=> Unlinked(Chain[i], Chain[i + 1])
          BY <4>2, <1>6
        <5> HIDE DEF Un
        <5> QED
          BY <5>1, <5>2, <4>2, <1>1
    <3> QED
      BY <3>1, <3>2
  <2>3. ASSUME NEW i \in 1..L + 2, NEW j \in 1..L + 2, Chain'[i] = Chain'[j]
        PROVE  i = j
    <3>1. CASE i = L + 2 /\ j = L + 2
      BY <3>1
    <3>2. CASE i # L + 2 /\ j # L + 2
      <4>1. i \in 1..L + 1 /\ j \in 1..L + 1
        BY <3>2, <1>4
      <4> QED
        BY <4>1, <2>3, <1>3, <1>4, <1>5 DEF Chained
    <3>3. CASE (i = L + 2 /\ j # L + 2) \/ (i # L + 2 /\ j = L + 2)
      <4>1. (i \in 1..L + 1 /\ j = L + 2) \/ (j \in 1..L + 1 /\ i = L + 2)
        BY <3>3, <1>4
      <4> QED
        BY <4>1, <2>3, <1>2, <1>4
    <3> QED
      BY <3>1, <3>2, <3>3
  <2> QED
    BY <2>1, <2>2, <2>3, <1>4 DEF Chained, Unlinked
<1>10. \A m : InQueue(m)' <=> (InQueue(m) \/ m = n)
  <2> SUFFICES ASSUME NEW m PROVE InQueue(m)' <=> (InQueue(m) \/ m = n)
    OBVIOUS
  <2>1. ASSUME InQueue(m)' PROVE InQueue(m) \/ m = n
    BY <2>1, <1>4 DEF InQueue
  <2>2. ASSUME InQueue(m) PROVE InQueue(m)'
    BY <2>2, <1>4 DEF InQueue
  <2>3. ASSUME m = n PROVE InQueue(m)'
    BY <2>3, <1>4 DEF InQueue
  <2> QED
    BY <2>1, <2>2, <2>3
<1>11. Owned' = Owned \ {n}
  BY <1>1, <1>3 DEF Owned, TypeOK, MpscQueueTypeOK, QueueInv, Separate
<1>12. n \in Owned
  BY <1>1 DEF Owned
<1>13. Separate'
  <2>1. \A u, v \in Thread :
           (q_pc'[u] = "swap" /\ q_pc'[v] = "swap" /\ q_n'[u] = q_n'[v]) => u = v
    BY <1>1, <1>3 DEF QueueInv, Separate, TypeOK, MpscQueueTypeOK
  <2>2. n # pending_recycle /\ n \notin free
    BY <1>12, <1>2 DEF QueueInv, Separate
  <2> QED
    BY <2>1, <2>2, <1>1, <1>2, <1>10, <1>11 DEF QueueInv, Separate
<1>14. PushesSound'
  <2>1. \A u \in Thread : q_pc'[u] = "swap" => q_pc[u] = "swap"
    BY <1>1, <1>3 DEF TypeOK, MpscQueueTypeOK
  <2>2. \A u \in Thread : q_pc'[u] \in {"swap", "link"} => q_pc[u] \in {"swap", "link"}
    BY <1>1, <1>3 DEF TypeOK, MpscQueueTypeOK
  <2>3. \A u \in Thread \ {t} : q_pc'[u] = q_pc[u] /\ q_prev'[u] = q_prev[u]
    BY <1>1, <1>3 DEF TypeOK, MpscQueueTypeOK
  <2>4. ASSUME NEW u \in Thread, q_pc'[u] = "link"
        PROVE \E i \in 1..L + 1 : q_prev'[u] = Chain'[i] /\ q_n'[u] = Chain'[i + 1]
    <3>1. CASE u = t
      <4>1. L + 1 \in 1..L + 1 /\ q_prev'[u] = tail_ /\ q_n'[u] = n /\ (L + 1) + 1 = L + 2
        BY <3>1, <1>1, <1>3, <1>4 DEF TypeOK, MpscQueueTypeOK
      <4> QED
        BY <4>1, <1>4, <1>5
    <3>2. CASE u # t
      <4>1. PICK i \in 1..L : q_prev[u] = Chain[i] /\ q_n[u] = Chain[i + 1]
        BY <3>2, <2>3, <2>4 DEF QueueInv, PushesSound
      <4>2. i \in 1..L + 1 /\ i + 1 \in 1..L + 1
        BY <1>4
      <4> QED
        BY <4>1, <4>2, <3>2, <2>3, <1>1, <1>4
    <3> QED
      BY <3>1, <3>2
  <2>5. ASSUME NEW u \in Thread \ {t}, q_pc[u] = "link" PROVE q_n[u] # n
    <3>1. PICK i \in 1..L : q_n[u] = Chain[i + 1]
      BY <2>5 DEF QueueInv, PushesSound
    <3>2. i + 1 \in 1..L + 1
      BY <1>4
    <3> QED
      BY <3>1, <3>2, <1>2
  <2>6. \A u, v \in Thread :
           (q_pc'[u] = "link" /\ q_pc'[v] = "link" /\ q_n'[u] = q_n'[v]) => u = v
    BY <2>3, <2>5, <1>1 DEF QueueInv, PushesSound
  <2> QED
    BY <2>1, <2>2, <2>4, <2>6, <1>1, <1>4 DEF QueueInv, PushesSound
<1>15. fifo' # <<>>
  BY <1>4
<1>16. DummyKept' /\ QuietOutside'
  BY <1>1, <1>3, <1>15 DEF QueueInv, DummyKept, QuietOutside
<1> QED
  BY <1>1, <1>9, <1>13, <1>14, <1>16 DEF QueueInv, QueueSound

\* A producer links its record to the one that was the head.
LEMMA LinkStep ==
    ASSUME QueueInv, TypeOK', NEW t \in Thread, Link(t)
    PROVE  QueueInv'
<1> DEFINE n == q_n[t]
           L == Len(fifo)
           Un(p, m) ==
              \E u \in Thread : q_pc'[u] = "link" /\ q_prev'[u] = p /\ q_n'[u] = m
<1>1. /\ UNCHANGED <<tail_, head_, fifo, c_pc, free, pending_recycle, phase>>
      /\ q_pc[t] = "link" /\ q_pc' = [q_pc EXCEPT ![t] = "idle"]
      /\ q_n' = [q_n EXCEPT ![t] = NULL]
      /\ q_prev' = [q_prev EXCEPT ![t] = NULL]
      /\ next' = [next EXCEPT ![q_prev[t]] = n]
  BY DEF Link, QLink
<1>2. TypeOK /\ phase \notin {"drain", "reset", "recycle"} /\ c_pc # "reset_tail" /\ Chained
  BY <1>1 DEF QueueInv, QuietOutside, QueueSound, Enqueuing
<1>3. PICK k \in 1..L : q_prev[t] = Chain[k] /\ n = Chain[k + 1]
  BY <1>1 DEF QueueInv, PushesSound
<1>4. /\ L \in Nat /\ Len(Chain) = L + 1
      /\ \A i \in 1..L + 1 : Chain[i] \in MpscNode
      /\ tail_ = Chain[L + 1]
      /\ \A i, j \in 1..L + 1 : Chain[i] = Chain[j] => i = j
  BY <1>2, ChainShape DEF Chained
<1>5. Chain' = Chain
  BY <1>1 DEF Chain
<1>6. k \in 1..L + 1 /\ k + 1 \in 1..L + 1 /\ k # L + 1
  BY <1>4
<1>7. \A m \in MpscNode : next'[m] = IF m = Chain[k] THEN n ELSE next[m]
  BY <1>1, <1>2, <1>3, <1>4, <1>6 DEF TypeOK, MpscQueueTypeOK
<1>8. \A u \in Thread \ {t} : /\ q_pc'[u] = q_pc[u] /\ q_n'[u] = q_n[u]
                              /\ q_prev'[u] = q_prev[u]
  BY <1>1, <1>2 DEF TypeOK, MpscQueueTypeOK
<1>9. q_pc'[t] = "idle"
  BY <1>1, <1>2 DEF TypeOK, MpscQueueTypeOK
<1>10. \A p : ~Un(p, n)
  BY <1>1, <1>8, <1>9 DEF QueueInv, PushesSound
<1>11. \A p, m : m # n => (Un(p, m) <=> Unlinked(p, m))
  BY <1>8, <1>9, <1>1 DEF Unlinked
<1>12. Chained'
  <2>1. next'[tail_] = NULL
    BY <1>2, <1>4, <1>6, <1>7 DEF Chained
  <2>2. ASSUME NEW i \in 1..L
        PROVE  \/ next'[Chain[i]] = Chain[i + 1] /\ ~Un(Chain[i], Chain[i + 1])
               \/ next'[Chain[i]] = NULL /\ Un(Chain[i], Chain[i + 1])
    <3>1. i \in 1..L + 1 /\ i + 1 \in 1..L + 1
      BY <1>4
    <3>2. CASE i = k
      BY <3>1, <3>2, <1>3, <1>4, <1>7, <1>10
    <3>3. CASE i # k
      <4>1. Chain[i] # Chain[k] /\ Chain[i + 1] # n
        BY <3>1, <3>3, <1>3, <1>4, <1>6
      <4>2. next'[Chain[i]] = next[Chain[i]]
        BY <4>1, <3>1, <1>4, <1>7
      <4>3. Un(Chain[i], Chain[i + 1]) <=> Unlinked(Chain[i], Chain[i + 1])
        BY <4>1, <1>11
      <4>4. \/ next[Chain[i]] = Chain[i + 1] /\ ~Unlinked(Chain[i], Chain[i + 1])
            \/ next[Chain[i]] = NULL /\ Unlinked(Chain[i], Chain[i + 1])
        BY <1>2 DEF Chained
      <4> HIDE DEF Un
      <4> QED
        BY <4>2, <4>3, <4>4
    <3> QED
      BY <3>2, <3>3
  <2>3. tail_' = Chain'[Len(Chain')] /\ next'[tail_'] = NULL
    BY <2>1, <1>1, <1>4, <1>5
  <2>4. \A i \in 1..Len(fifo') :
           \/ next'[Chain'[i]] = Chain'[i + 1] /\ ~Un(Chain'[i], Chain'[i + 1])
           \/ next'[Chain'[i]] = NULL /\ Un(Chain'[i], Chain'[i + 1])
    BY <2>2, <1>1, <1>5
  <2>5. \A i, j \in 1..Len(Chain') : Chain'[i] = Chain'[j] => i = j
    BY <1>4, <1>5
  <2> QED
    BY <2>3, <2>4, <2>5 DEF Chained, Unlinked
<1>13. \A m : InQueue(m)' <=> InQueue(m)
  BY <1>1 DEF InQueue
<1>14. Owned' = Owned
  BY <1>1, <1>8, <1>9 DEF Owned
<1>15. Separate'
  <2>1. \A u, v \in Thread :
           (q_pc'[u] = "swap" /\ q_pc'[v] = "swap" /\ q_n'[u] = q_n'[v]) => u = v
    BY <1>8, <1>9 DEF QueueInv, Separate
  <2> QED
    BY <2>1, <1>1, <1>13, <1>14 DEF QueueInv, Separate
<1>16. PushesSound'
  <2>1. \A u \in Thread : q_pc'[u] \in {"swap", "link"} =>
           u # t /\ q_pc[u] = q_pc'[u] /\ q_n'[u] = q_n[u] /\ q_prev'[u] = q_prev[u]
    BY <1>8, <1>9
  <2>2. ASSUME NEW u \in Thread, q_pc'[u] = "swap" PROVE next'[q_n'[u]] = NULL
    <3>1. q_pc[u] = "swap" /\ q_n'[u] = q_n[u]
      BY <2>1, <2>2
    <3>2. q_n[u] \in MpscNode /\ q_n[u] # Chain[k]
      BY <3>1, <1>6, OwnedOutside DEF MpscNode
    <3> QED
      BY <3>1, <3>2, <1>7 DEF QueueInv, PushesSound
  <2>3. \A u \in Thread : q_pc'[u] = "link" =>
           \E i \in 1..L : q_prev'[u] = Chain[i] /\ q_n'[u] = Chain[i + 1]
    BY <2>1 DEF QueueInv, PushesSound
  <2> QED
    BY <2>1, <2>2, <2>3, <1>1, <1>5 DEF QueueInv, PushesSound
<1>17. DummyKept' /\ QuietOutside'
  BY <1>1, <1>2 DEF QueueInv, DummyKept, QuietOutside
<1> QED
  BY <1>1, <1>12, <1>15, <1>16, <1>17 DEF QueueInv, QueueSound

\* A dummy with a successor: the queue is not empty and its first record is
\* that successor.
LEMMA NextIsFirst ==
    ASSUME QueueInv, c_pc # "reset_tail", NextOfHead # NULL
    PROVE  /\ fifo # <<>> /\ NextOfHead = Head(fifo) /\ NextOfHead = fifo[1]
           /\ NextOfHead \in Record /\ Len(fifo) \in Nat \ {0}
           /\ ~Unlinked(head_, fifo[1])
<1>1. TypeOK /\ Chained
  BY DEF QueueInv, QueueSound
<1>2. /\ Len(fifo) \in Nat /\ Len(Chain) = Len(fifo) + 1
      /\ Chain[1] = head_ /\ fifo \in Seq(Record)
  BY <1>1, ChainShape DEF TypeOK, MpscQueueTypeOK
<1>3. Len(fifo) # 0
  BY <1>1, <1>2 DEF Chained, NextOfHead
<1>4. 1 \in 1..Len(fifo) /\ Chain[1 + 1] = fifo[1] /\ fifo[1] \in Record
  <2>1. 1 \in 1..Len(fifo)
    BY <1>2, <1>3
  <2> QED
    BY <2>1, <1>1, ChainShape
<1>5. next[Chain[1]] = Chain[1 + 1] /\ ~Unlinked(Chain[1], Chain[1 + 1])
  BY <1>1, <1>2, <1>4 DEF Chained, NextOfHead
<1> QED
  BY <1>2, <1>3, <1>4, <1>5 DEF NextOfHead

\* The worker takes the first record, which becomes the dummy.
LEMMA PopSomeStep ==
    ASSUME QueueInv, TypeOK', PopSome
    PROVE  QueueInv'
<1> DEFINE m == fifo[1]
           L == Len(fifo)
<1>1. /\ Advance /\ phase \in {"body", "drain"} /\ pending_recycle' = NextOfHead
      /\ free' = free \cup ({pending_recycle} \ {NULL})
      /\ phase' = IF phase = "body" THEN "loop" ELSE "drain"
      /\ c_pc # "reset_tail"
  BY DEF PopSome, QPop, QPopSpun
<1>2. /\ fifo # <<>> /\ NextOfHead = m /\ m \in Record /\ L \in Nat \ {0}
      /\ ~Unlinked(head_, m)
  BY <1>1, NextIsFirst DEF Advance
<1>3. TypeOK /\ Chained /\ phase = "body"
  BY <1>1, <1>2 DEF QueueInv, QueueSound, QuietOutside
<1>4. /\ UNCHANGED <<tail_, next, q_pc, q_n, q_prev>>
      /\ head_' = m /\ fifo' = Tail(fifo) /\ c_pc' = "idle"
      /\ pending_recycle' = m /\ phase' = "loop"
  BY <1>1, <1>2, <1>3 DEF Advance
<1>5. /\ Len(fifo') = L - 1
      /\ \A i \in 1..L - 1 : fifo'[i] = fifo[i + 1]
  BY <1>2, <1>3, <1>4 DEF TypeOK, MpscQueueTypeOK
<1>6. /\ Len(Chain) = L + 1 /\ Chain[1] = head_ /\ Len(Chain') = L
      /\ \A i \in 1..L : Chain'[i] = Chain[i + 1]
  <2>1. /\ Len(Chain) = L + 1 /\ Chain[1] = head_
        /\ \A i \in 1..L : Chain[i + 1] = fifo[i]
    BY <1>3, ChainShape
  <2>2. fifo' \in Seq(Record) /\ head_' = m
    BY <1>3, <1>4, <1>2 DEF TypeOK, MpscQueueTypeOK
  <2>3. /\ Len(Chain') = L /\ Chain'[1] = m
        /\ \A i \in 2..L : Chain'[i] = fifo'[i - 1]
    BY <2>2, <1>2, <1>5 DEF Chain
  <2>4. ASSUME NEW i \in 1..L PROVE Chain'[i] = Chain[i + 1]
    <3>1. CASE i = 1
      BY <3>1, <2>1, <2>3
    <3>2. CASE i # 1
      <4>1. i \in 2..L /\ i - 1 \in 1..L - 1 /\ (i - 1) + 1 = i
        BY <3>2, <1>2
      <4> QED
        BY <4>1, <2>1, <2>3, <1>5
    <3> QED
      BY <3>1, <3>2
  <2> QED
    BY <2>1, <2>3, <2>4
<1>7. \A p, x : Unlinked(p, x)' <=> Unlinked(p, x)
  BY <1>4 DEF Unlinked
<1>8. Chained'
  <2>1. tail_' = Chain'[Len(Chain')] /\ next'[tail_'] = NULL
    <3>1. L \in 1..L
      BY <1>2
    <3> QED
      BY <3>1, <1>3, <1>4, <1>6 DEF Chained
  <2>2. ASSUME NEW i \in 1..Len(fifo')
        PROVE  \/ next[Chain'[i]] = Chain'[i + 1] /\ ~Unlinked(Chain[i + 1], Chain[i + 2])
               \/ next[Chain'[i]] = NULL /\ Unlinked(Chain[i + 1], Chain[i + 2])
    <3>1. i \in 1..L /\ i + 1 \in 1..L /\ (i + 1) + 1 = i + 2
      BY <1>2, <1>5
    <3> QED
      BY <3>1, <1>3, <1>6 DEF Chained
  <2>3. \A i \in 1..Len(fifo') : Chain'[i] = Chain[i + 1] /\ Chain'[i + 1] = Chain[i + 2]
    <3> TAKE i \in 1..Len(fifo')
    <3>1. i \in 1..L /\ i + 1 \in 1..L /\ (i + 1) + 1 = i + 2
      BY <1>2, <1>5
    <3> QED
      BY <3>1, <1>6
  <2>4. ASSUME NEW i \in 1..Len(Chain'), NEW j \in 1..Len(Chain'), Chain'[i] = Chain'[j]
        PROVE  i = j
    <3>1. i \in 1..L /\ j \in 1..L /\ i + 1 \in 1..L + 1 /\ j + 1 \in 1..L + 1
      BY <1>2, <1>6
    <3>2. Chain[i + 1] = Chain[j + 1]
      BY <2>4, <3>1, <1>6
    <3>3. i + 1 = j + 1
      BY <3>1, <3>2, <1>3, <1>6 DEF Chained
    <3> QED
      BY <3>1, <3>3
  <2>5. \A i \in 1..Len(fifo') :
           \/ next'[Chain'[i]] = Chain'[i + 1]
              /\ ~\E u \in Thread : q_pc'[u] = "link" /\ q_prev'[u] = Chain'[i]
                                     /\ q_n'[u] = Chain'[i + 1]
           \/ next'[Chain'[i]] = NULL
              /\ \E u \in Thread : q_pc'[u] = "link" /\ q_prev'[u] = Chain'[i]
                                    /\ q_n'[u] = Chain'[i + 1]
    BY <2>2, <2>3, <1>4 DEF Unlinked
  <2> QED
    BY <2>1, <2>4, <2>5 DEF Chained, Unlinked
<1>9. \A x : InQueue(x)' <=> (InQueue(x) /\ x # m)
  <2> SUFFICES ASSUME NEW x PROVE InQueue(x)' <=> (InQueue(x) /\ x # m)
    OBVIOUS
  <2>0. \A i, j \in 1..L : fifo[i] = fifo[j] => i = j
    <3> TAKE i, j \in 1..L
    <3>1. i + 1 \in 1..L + 1 /\ j + 1 \in 1..L + 1
      BY <1>2
    <3>2. Chain[i + 1] = fifo[i] /\ Chain[j + 1] = fifo[j]
      BY <1>3, ChainShape
    <3> QED
      BY <3>1, <3>2, <1>3, <1>6 DEF Chained
  <2>1. ASSUME InQueue(x)' PROVE InQueue(x) /\ x # m
    <3>1. PICK i \in 1..L - 1 : fifo'[i] = x
      BY <2>1, <1>5 DEF InQueue
    <3>2. i + 1 \in 1..L /\ 1 \in 1..L /\ fifo[i + 1] = x /\ i + 1 # 1
      BY <3>1, <1>2, <1>5
    <3> QED
      BY <3>2, <2>0 DEF InQueue
  <2>2. ASSUME InQueue(x), x # m PROVE InQueue(x)'
    <3>1. PICK i \in 1..L : fifo[i] = x
      BY <2>2 DEF InQueue
    <3>2. i - 1 \in 1..L - 1 /\ fifo'[i - 1] = x
      BY <3>1, <2>2, <1>2, <1>5
    <3> QED
      BY <3>2, <1>5 DEF InQueue
  <2> QED
    BY <2>1, <2>2
<1>10. InQueue(m)
  BY <1>2 DEF InQueue
<1>11. Owned' = Owned
  BY <1>4 DEF Owned
<1>12. m \notin free /\ m \notin Owned /\ m # pending_recycle
  BY <1>10, <1>2 DEF QueueInv, Separate
<1>13. NULL \notin Record /\ \A x \in Owned : x # pending_recycle /\ x \notin free
  BY LogRecordAssumption DEF QueueInv, Separate
<1>14. Separate'
  BY <1>1, <1>2, <1>4, <1>9, <1>10, <1>11, <1>12, <1>13 DEF QueueInv, Separate
<1>15. PushesSound'
  <2>1. ASSUME NEW u \in Thread, q_pc[u] = "link"
        PROVE \E i \in 1..L - 1 : q_prev[u] = Chain'[i] /\ q_n[u] = Chain'[i + 1]
    <3>1. PICK i \in 1..L : q_prev[u] = Chain[i] /\ q_n[u] = Chain[i + 1]
      BY <2>1 DEF QueueInv, PushesSound
    <3>2. i # 1
      <4>1. 1 \in 1..L /\ Chain[2] = m
        BY <1>2, <1>3, ChainShape
      <4> QED
        BY <4>1, <3>1, <2>1, <1>2, <1>6 DEF Unlinked
    <3>3. i - 1 \in 1..L - 1 /\ i - 1 \in 1..L /\ i \in 1..L /\ (i - 1) + 1 = i
      BY <3>2, <1>2
    <3>4. Chain'[i - 1] = Chain[i] /\ Chain'[(i - 1) + 1] = Chain[i + 1]
      BY <3>3, <1>6
    <3> QED
      BY <3>1, <3>3, <3>4
  <2> QED
    BY <2>1, <1>4, <1>5 DEF QueueInv, PushesSound
<1>16. DummyKept' /\ QuietOutside'
  BY <1>2, <1>4, LogRecordAssumption DEF DummyKept, QuietOutside
<1> QED
  BY <1>4, <1>8, <1>14, <1>15, <1>16 DEF QueueInv, QueueSound

\* What depends on the links, the history and the pushes alone.
LEMMA QueueFrame ==
    ASSUME UNCHANGED <<tail_, head_, next, q_pc, q_n, q_prev, fifo>>
    PROVE  (Chained' <=> Chained) /\ (PushesSound' <=> PushesSound)
<1>1. Chain' = Chain
  BY DEF Chain
<1>2. \A i \in 1..Len(fifo) :
          Unlinked(Chain[i], Chain[i + 1])' <=> Unlinked(Chain[i], Chain[i + 1])
  BY <1>1 DEF Unlinked
<1>3. Chained' <=> Chained
  BY <1>1, <1>2 DEF Chained
<1>4. PushesSound' <=> PushesSound
  BY <1>1 DEF PushesSound
<1> QED
  BY <1>3, <1>4

\* A step that moves no record keeps them apart.
LEMMA PlaceFrame ==
    ASSUME UNCHANGED <<q_pc, q_n, fifo, free, pending_recycle>>
    PROVE  Separate' <=> Separate
<1>1. Owned' = Owned
  BY DEF Owned
<1>2. ASSUME NEW n PROVE (\E i \in 1..Len(fifo') : fifo'[i] = n) <=> InQueue(n)
  BY DEF InQueue
<1>3. \A n \in Record : InQueue(n)' <=> InQueue(n)
  BY DEF InQueue
<1>4. \A n \in free : InQueue(n)' <=> InQueue(n)
  BY DEF InQueue
<1>5. \A n \in Owned : InQueue(n)' <=> InQueue(n)
  BY DEF InQueue
<1>6. InQueue(pending_recycle)' <=> InQueue(pending_recycle)
  BY DEF InQueue
<1> QED
  BY <1>1, <1>3, <1>4, <1>5, <1>6 DEF Separate

\* Steps of the worker that leave the queue, its links and its pushes alone.
LEMMA LookStep ==
    ASSUME QueueInv, TypeOK', Enter \/ AskEmpty \/ PopNone
    PROVE  QueueInv'
<1>1. UNCHANGED <<tail_, head_, next, q_pc, q_n, q_prev, fifo, free, pending_recycle>>
  BY DEF Enter, queueVars, AskEmpty, QEmptyNo, QEmptyBusy, QEmptyMiss, QEmptyYes,
     PopNone, QPopMiss, QPopBusy, QPopEmpty, ConsumerGoes
<1>2. c_pc # "reset_tail" /\ c_pc' # "reset_tail" /\ phase \notin {"reset", "recycle"}
  BY DEF Enter, queueVars, AskEmpty, QEmptyNo, QEmptyBusy, QEmptyMiss, QEmptyYes,
     PopNone, QPopMiss, QPopBusy, QPopEmpty, ConsumerGoes
<1>3. TypeOK /\ Chained
  BY <1>2 DEF QueueInv, QueueSound
<1>4. Chained' /\ Separate' /\ PushesSound'
  BY <1>1, <1>3, QueueFrame, PlaceFrame DEF QueueInv
<1>5. phase' # "recycle"
  BY DEF Enter, AskEmpty, PopNone, QueueInv, TypeOK
<1>6. DummyKept'
  BY <1>1, <1>2, <1>5 DEF QueueInv, DummyKept
<1>7. tail_ = head_ => fifo = <<>>
  <2>1. /\ Len(fifo) \in Nat /\ Len(Chain) = Len(fifo) + 1 /\ Chain[1] = head_
        /\ fifo \in Seq(Record)
    BY <1>3, ChainShape DEF TypeOK, MpscQueueTypeOK
  <2>2. 1 \in 1..Len(Chain) /\ Len(Chain) \in 1..Len(Chain)
    BY <2>1
  <2>3. tail_ = head_ => Len(Chain) = 1
    BY <2>1, <2>2, <1>3 DEF Chained
  <2> QED
    BY <2>1, <2>3
<1>8. tail_ # head_ => fifo # <<>>
  <2>1. fifo = <<>> => Len(Chain) = 1 /\ Chain[1] = head_
    BY <1>3, ChainShape
  <2> QED
    BY <2>1, <1>3 DEF Chained
<1>9. QuietOutside'
  <2>1. CASE Enter
    BY <2>1, <1>1, <1>2 DEF Enter, queueVars, QueueInv, QuietOutside
  <2>2. CASE AskEmpty
    <3>1. CASE phase' = "drain"
      <4>1. QEmptyYes /\ \A t \in Thread : ~Enqueuing(t)
        BY <2>2, <3>1 DEF AskEmpty
      <4> QED
        BY <4>1, <3>1, <1>1, <1>7, <2>2 DEF QEmptyYes, ConsumerGoes, QuietOutside, Enqueuing
    <3>2. CASE phase' # "drain"
      <4>1. phase' \in {"loop", "body"} /\ c_pc' \in {"idle", "empty_tail"}
        BY <2>2, <3>2 DEF AskEmpty, QEmptyNo, QEmptyBusy, QEmptyMiss, QEmptyYes,
           ConsumerGoes
      <4> QED
        BY <4>1 DEF QuietOutside
    <3> QED
      BY <3>1, <3>2
  <2>3. CASE PopNone
    <3>1. phase \in {"body", "drain"}
      BY <2>3 DEF PopNone
    <3>2. CASE QPopEmpty
      <4>1. c_pc' = "idle" /\ tail_ = head_ /\ phase' \in {"loop", "reset"}
            /\ (phase' = "reset" => phase = "drain")
        BY <2>3, <3>1, <3>2 DEF PopNone, QPopEmpty, ConsumerGoes, QPopMiss, QPopBusy
      <4> QED
        BY <4>1, <1>1, <1>7 DEF QueueInv, QuietOutside, Enqueuing
    <3>3. CASE QPopMiss /\ UNCHANGED phase
      BY <3>1, <3>3, <1>1 DEF QPopMiss, ConsumerGoes, QueueInv, QuietOutside, Enqueuing
    <3>4. CASE QPopBusy /\ UNCHANGED phase
      BY <3>1, <3>4, <1>1, <1>8 DEF QPopBusy, ConsumerGoes, QueueInv, QuietOutside, Enqueuing
    <3> QED
      BY <2>3, <3>2, <3>3, <3>4 DEF PopNone
  <2> QED
    BY <2>1, <2>2, <2>3
<1> QED
  BY <1>4, <1>6, <1>9 DEF QueueInv, QueueSound

\* The worker empties the queue, or gives its last record back.
LEMMA ResetStep ==
    ASSUME QueueInv, TypeOK', Reset \/ Recycle
    PROVE  QueueInv'
<1> USE LogRecordAssumption
<1>1. /\ phase \in {"reset", "recycle"} /\ fifo = <<>>
      /\ \A t \in Thread : q_pc[t] = "idle"
  BY DEF Reset, Recycle, QueueInv, QuietOutside, Enqueuing, TypeOK, MpscQueueTypeOK
<1>2. /\ UNCHANGED <<q_pc, q_n, q_prev>> /\ fifo' = <<>>
  BY <1>1 DEF Reset, QResetStub, QResetTail, Recycle, queueVars
<1>3. TypeOK /\ Owned = {} /\ Owned' = {} /\ Len(fifo) = 0 /\ Len(fifo') = 0
  BY <1>1, <1>2 DEF Owned, QueueInv
<1>4. PushesSound'
  BY <1>1, <1>2 DEF PushesSound
<1>5. CASE QResetStub /\ Reset
  <2>1. UNCHANGED <<free, pending_recycle, phase>> /\ c_pc' = "reset_tail"
        /\ next'[Stub] = NULL /\ head_' = Stub /\ phase = "reset" /\ c_pc = "idle"
    BY <1>5, <1>3 DEF Reset, QResetStub, QResetTail, TypeOK, MpscQueueTypeOK, MpscNode
  <2>2. Separate'
    BY <2>1, <1>1, <1>2, <1>3 DEF QueueInv, Separate, InQueue
  <2> QED
    BY <2>1, <2>2, <1>1, <1>2, <1>4
       DEF QueueInv, QueueSound, DummyKept, QuietOutside, Enqueuing
<1>6. CASE QResetTail /\ Reset
  <2>1. /\ UNCHANGED <<free, pending_recycle, head_, next>> /\ c_pc = "reset_tail"
        /\ c_pc' = "idle" /\ tail_' = Stub /\ phase' = "recycle" /\ phase = "reset"
    BY <1>6 DEF Reset, QResetStub, QResetTail
  <2>2. head_ = Stub /\ next[Stub] = NULL
    BY <2>1 DEF QueueInv, DummyKept
  <2>3. Separate'
    BY <2>1, <1>1, <1>2, <1>3 DEF QueueInv, Separate, InQueue
  <2>4. Chain' = <<Stub>> /\ Len(Chain') = 1 /\ Chain'[1] = Stub
    BY <1>2, <2>1, <2>2 DEF Chain
  <2>5. Chained'
    BY <2>1, <2>2, <2>4, <1>3 DEF Chained
  <2> QED
    BY <2>1, <2>2, <2>3, <2>5, <1>1, <1>2, <1>4
       DEF QueueInv, QueueSound, DummyKept, QuietOutside, Enqueuing
<1>7. CASE Recycle
  <2>1. /\ UNCHANGED <<tail_, head_, next, c_pc>>
        /\ pending_recycle' = NULL /\ phase' = "loop" /\ phase = "recycle"
        /\ free' = free \cup ({pending_recycle} \ {NULL})
    BY <1>7 DEF Recycle, queueVars
  <2>2. c_pc # "reset_tail" /\ head_ = Stub /\ Chained
    BY <2>1 DEF QueueInv, QuietOutside, DummyKept, QueueSound
  <2>3. \A n : ~(\E i \in 1..Len(fifo') : fifo'[i] = n) /\ ~(\E i \in 1..Len(fifo) : fifo[i] = n)
    BY <1>3
  <2>4. free' = Record /\ pending_recycle' = NULL
    <3>1. \A n \in Record : n \in free \/ n = pending_recycle
      BY <2>3, <1>3 DEF QueueInv, Separate, InQueue
    <3>2. free \subseteq Record /\ pending_recycle \in Record \cup {NULL}
      BY <1>3 DEF TypeOK, FreePtr
    <3> QED
      BY <3>1, <3>2, <2>1
  <2>5. Separate'
    BY <2>3, <2>4, <1>1, <1>2, <1>3 DEF Separate, InQueue
  <2>6. Chained'
    BY <2>1, <2>2, <1>1, <1>2, QueueFrame
  <2> QED
    BY <2>1, <2>2, <2>5, <2>6, <1>1, <1>2, <1>4
       DEF QueueInv, QueueSound, DummyKept, QuietOutside, Enqueuing
<1> QED
  BY <1>5, <1>6, <1>7 DEF Reset

\* Every step keeps the invariant.
LEMMA QueueStep == QueueInv /\ [Next]_vars => QueueInv'
<1> SUFFICES ASSUME QueueInv, [Next]_vars PROVE QueueInv'
  OBVIOUS
<1>1. TypeOK'
  BY TypeStep DEF QueueInv
<1>2. CASE UNCHANGED vars
  <2>1. (Chained' <=> Chained) /\ (PushesSound' <=> PushesSound)
    BY <1>2, QueueFrame DEF vars
  <2>2. Separate' <=> Separate
    BY <1>2, PlaceFrame DEF vars
  <2>3. DummyKept' /\ QuietOutside'
    BY <1>2 DEF vars, QueueInv, DummyKept, QuietOutside, Enqueuing
  <2> QED
    BY <1>1, <1>2, <2>1, <2>2, <2>3 DEF vars, QueueInv, QueueSound
<1> QED
  BY <1>1, <1>2, AcquireStep, ExchangeStep, LinkStep, PopSomeStep, LookStep, ResetStep
     DEF Next, Producer, Worker

\* An empty queue has it.
LEMMA QueueInit == Init => QueueInv
<1> SUFFICES ASSUME Init PROVE QueueInv
  OBVIOUS
<1> USE LogRecordAssumption DEF Init, MpscQueueInit
<1>1. TypeOK
  <2>1. fifo \in Seq(Record)
    OBVIOUS
  <2> QED
    BY <2>1 DEF TypeOK, MpscQueueTypeOK, MpscNode, FreePtr, MpscPtr
<1>2. Len(fifo) = 0 /\ Chain = <<Stub>> /\ Len(Chain) = 1 /\ Chain[1] = Stub
  BY DEF Chain
<1>3. Chained
  BY <1>2 DEF Chained, MpscNode
<1>4. Separate
  BY <1>2 DEF Separate, Owned, InQueue
<1> QED
  BY <1>1, <1>3, <1>4 DEF QueueInv, QueueSound, PushesSound, DummyKept, QuietOutside, Enqueuing

-----------------------------------------------------------------------------
(* The theorems *)

\* The inductive invariant holds in every reachable state.
LEMMA Inductive == Spec => []QueueInv
  BY QueueInit, QueueStep, PTL DEF Spec

\* The type invariant.
THEOREM TypeCorrect == Spec => []TypeOK
<1>1. QueueInv => TypeOK
  BY DEF QueueInv
<1> QED
  BY <1>1, Inductive, PTL

\* The links of MpscQueue spell the records in the order of the exchanges,
\* but for the stores that pushes in progress owe.
THEOREM QueueIsSound == Spec => []QueueSound
<1>1. QueueInv => QueueSound
  BY DEF QueueInv
<1> QED
  BY <1>1, Inductive, PTL

\* A record is in one place only.
THEOREM RecordsSeparate == Spec => []Separate
<1>1. QueueInv => Separate
  BY DEF QueueInv
<1> QED
  BY <1>1, Inductive, PTL

\* pending_recycle and reset() keep the dummy off the free list.
THEOREM DummyIsNotFree == Spec => []DummyNotFree
<1>1. QueueInv => DummyNotFree
  BY LogRecordAssumption DEF QueueInv, DummyKept, Separate, DummyNotFree, TypeOK
<1> QED
  BY <1>1, Inductive, PTL

\* The spin of pop() has a producer to wait for.
THEOREM SpinHasAProducer == Spec => []SpinsForAProducer
<1>1. QueueInv => SpinsForAProducer
  <2> SUFFICES ASSUME QueueInv, c_pc = "pop_spin", next[head_] = NULL
               PROVE \E t \in Thread : q_pc[t] = "link" /\ q_prev[t] = head_
    BY DEF SpinsForAProducer, NextOfHead
  <2>1. TypeOK /\ Chained /\ fifo # <<>>
    BY DEF QueueInv, QueueSound, QuietOutside
  <2>2. 1 \in 1..Len(fifo) /\ Chain[1] = head_ /\ Chain[1 + 1] = fifo[1] /\ fifo[1] \in Record
    <3>1. Len(fifo) \in Nat /\ Len(fifo) # 0
      BY <2>1 DEF TypeOK, MpscQueueTypeOK
    <3>2. 1 \in 1..Len(fifo)
      BY <3>1
    <3> QED
      BY <3>2, <2>1, ChainShape
  <2>3. Unlinked(Chain[1], Chain[1 + 1])
    BY <2>1, <2>2, LogRecordAssumption DEF Chained
  <2> QED
    BY <2>2, <2>3 DEF Unlinked
<1> QED
  BY <1>1, Inductive, PTL

\* pop() returns records in the order of their exchanges.
THEOREM PopsInOrder == Spec => PopInOrder
<1>1. QueueInv => [PopSome => fifo # <<>> /\ NextOfHead = Head(fifo)]_vars
  <2> SUFFICES ASSUME QueueInv, PopSome PROVE fifo # <<>> /\ NextOfHead = Head(fifo)
    OBVIOUS
  <2>1. c_pc # "reset_tail" /\ NextOfHead # NULL
    BY DEF PopSome, QPop, QPopSpun, Advance
  <2> QED
    BY <2>1, NextIsFirst
<1> QED
  BY <1>1, Inductive, PTL DEF PopInOrder

\* nullptr of pop() and true of empty() are told only of an empty queue, and
\* reset() discards nothing.
THEOREM DiscardsNothing == Spec => NothingDiscarded
<1>1. QueueInv => [QPopEmpty \/ QEmptyYes \/ QResetTail => fifo = <<>>]_vars
  <2> SUFFICES ASSUME QueueInv, QPopEmpty \/ QEmptyYes \/ QResetTail PROVE fifo = <<>>
    OBVIOUS
  <2>1. CASE QResetTail
    BY <2>1 DEF QResetTail, QueueInv, QuietOutside
  <2>2. CASE QPopEmpty \/ QEmptyYes
    <3>1. tail_ = head_ /\ c_pc # "reset_tail"
      BY <2>2 DEF QPopEmpty, QEmptyYes, ConsumerGoes
    <3>2. TypeOK /\ Chained
      BY <3>1 DEF QueueInv, QueueSound
    <3>3. /\ Len(fifo) \in Nat /\ Len(Chain) = Len(fifo) + 1 /\ Chain[1] = head_
          /\ fifo \in Seq(Record)
      BY <3>2, ChainShape DEF TypeOK, MpscQueueTypeOK
    <3>4. 1 \in 1..Len(Chain) /\ Len(Chain) \in 1..Len(Chain)
      BY <3>3
    <3>5. Len(Chain) = 1
      BY <3>1, <3>2, <3>3, <3>4 DEF Chained
    <3>6. Len(fifo) + 1 = 1
      BY <3>3, <3>5
    <3>7. fifo # <<>> => Len(fifo) \in Nat \ {0}
      BY <3>3, EmptySeq
    <3> QED
      BY <3>3, <3>6, <3>7
  <2> QED
    BY <2>1, <2>2
<1> QED
  BY <1>1, Inductive, PTL DEF NothingDiscarded
=============================================================================
