---------------------------- MODULE LockFreeProofs ----------------------------
(***************************************************************************)
(* What the two structures of core/lockfree_queue.hpp do, whoever calls    *)
(* them: lemmas about FreeList and MpscQueue that the proofs of the engine *)
(* cite.  Those of the pool and of the queue alone carry invariants of     *)
(* their own callers through each step, and do not need them.              *)
(***************************************************************************)
EXTENDS FreeList, MpscQueue, SequenceTheorems, TLAPS

(* FreeList *)

\* What a push is about to swing the head to continues with the head it expects.
PushLinked ==
    \A t \in Thread : fl_pc[t] = "push_cas" => free_next[fl_n[t]] = fl_h[t]

\* A list without its first record is the list from the second one on.
LEMMA TailOfList ==
    ASSUME NEW s \in Seq(Record), s # <<>>
    PROVE  /\ Tail(s) \in Seq(Record)
           /\ Len(Tail(s)) = Len(s) - 1
           /\ \A i \in 1..Len(Tail(s)) : Tail(s)[i] = s[i + 1]
           /\ Len(s) \in Nat \ {0}
           /\ s[1] \in Record
  OBVIOUS

\* A record in front of a list.
LEMMA ConsOfList ==
    ASSUME NEW s \in Seq(Record), NEW n \in Record
    PROVE  /\ <<n>> \o s \in Seq(Record)
           /\ Len(<<n>> \o s) = Len(s) + 1
           /\ (<<n>> \o s)[1] = n
           /\ \A i \in 2..Len(s) + 1 : (<<n>> \o s)[i] = s[i - 1]
           /\ Len(s) \in Nat
  OBVIOUS

\* A CAS whose successor is not stale takes the first record off the list.
LEMMA PopLinked ==
    ASSUME FreeListTypeOK, Linked, NEW t \in Thread, PopCas(t), ~aba'
    PROVE  /\ Linked' /\ fl_h[t] \in Record /\ InList(fl_h[t])
           /\ \A n \in Record : InList(n)' <=> (InList(n) /\ n # fl_h[t])
<1>1. ~aba /\ fl_next[t] = free_next[fl_h[t]]
  BY DEF PopCas, StaleNext
<1>2. free_stack \in Seq(Record) /\ free_head \in FreePtr /\ fl_h[t] # NULL
  BY DEF FreeListTypeOK, PopCas, Popping
<1>3. free_stack # <<>> /\ free_head = free_stack[1] /\ fl_h[t] = free_stack[1]
  BY <1>2 DEF Linked, PopCas
<1>4. free_stack' = Tail(free_stack) /\ free_next' = free_next
  BY <1>1, <1>3 DEF PopCas
<1> DEFINE s == free_stack
<1>5. /\ s' \in Seq(Record)
      /\ Len(s') = Len(s) - 1
      /\ \A i \in 1..Len(s') : s'[i] = s[i + 1]
      /\ Len(s) \in Nat \ {0}
  BY <1>2, <1>3, <1>4, TailOfList
<1>6. free_head' = free_next[s[1]]
  BY <1>1, <1>3 DEF PopCas
<1>7. free_head' = IF s' = <<>> THEN NULL ELSE s'[1]
  <2>1. CASE Len(s) = 1
    BY <2>1, <1>5, <1>6 DEF Linked
  <2>2. CASE Len(s) # 1
    <3>1. 1 \in 1..Len(s) /\ 1 \in 1..Len(s') /\ s' # <<>>
      BY <2>2, <1>5
    <3>2. free_next[s[1]] = s[2] /\ s'[1] = s[2]
      BY <3>1, <2>2, <1>5 DEF Linked
    <3> QED
      BY <3>1, <3>2, <1>6
  <2> QED
    BY <2>1, <2>2
<1>8. \A i \in 1..Len(s') :
         free_next'[s'[i]] = IF i = Len(s') THEN NULL ELSE s'[i + 1]
  <2> TAKE i \in 1..Len(s')
  <2>1. i + 1 \in 1..Len(s) /\ s'[i] = s[i + 1]
    BY <1>5
  <2>2. free_next[s[i + 1]] = IF i + 1 = Len(s) THEN NULL ELSE s[(i + 1) + 1]
    BY <2>1 DEF Linked
  <2>3. ASSUME i = Len(s') PROVE free_next[s[i + 1]] = NULL
    BY <2>3, <2>1, <2>2, <1>5
  <2>4. ASSUME i # Len(s') PROVE free_next[s[i + 1]] = s'[i + 1]
    BY <2>4, <2>1, <2>2, <1>5
  <2> QED
    BY <2>1, <2>3, <2>4, <1>4
<1>9. \A i, j \in 1..Len(s') : s'[i] = s'[j] => i = j
  <2> TAKE i, j \in 1..Len(s')
  <2>1. i + 1 \in 1..Len(s) /\ j + 1 \in 1..Len(s)
    BY <1>5
  <2> QED
    BY <2>1, <1>5 DEF Linked
<1>10. \A n \in Record : InList(n)' <=> (InList(n) /\ n # s[1])
  <2> TAKE n \in Record
  <2>1. ASSUME InList(n)' PROVE InList(n) /\ n # s[1]
    <3>1. PICK i \in 1..Len(s') : s'[i] = n
      BY <2>1 DEF InList
    <3>2. i + 1 \in 1..Len(s) /\ 1 \in 1..Len(s) /\ s[i + 1] = n /\ i + 1 # 1
      BY <3>1, <1>5
    <3> QED
      BY <3>2 DEF InList, Linked
  <2>2. ASSUME InList(n), n # s[1] PROVE InList(n)'
    <3>1. PICK i \in 1..Len(s) : s[i] = n
      BY <2>2 DEF InList
    <3>2. i - 1 \in 1..Len(s') /\ s'[i - 1] = n
      BY <3>1, <2>2, <1>5
    <3> QED
      BY <3>2 DEF InList
  <2> QED
    BY <2>1, <2>2
<1>11. fl_h[t] \in Record /\ InList(fl_h[t])
  <2>1. 1 \in 1..Len(s)  BY <1>5
  <2> QED  BY <2>1, <1>2, <1>3 DEF InList, FreePtr
<1> QED
  BY <1>3, <1>7, <1>8, <1>9, <1>10, <1>11 DEF Linked

\* A CAS of push puts its record in front of the list.
LEMMA PushLinkedStep ==
    ASSUME FreeListTypeOK, Linked, ~aba, NEW t \in Thread, PushCas(t),
           free_next[fl_n[t]] = fl_h[t], ~InList(fl_n[t])
    PROVE  /\ Linked'
           /\ \A n \in Record : InList(n)' <=> (InList(n) \/ n = fl_n[t])
<1> DEFINE s == free_stack
           m == fl_n[t]
<1>1. s \in Seq(Record) /\ m \in Record
  BY DEF FreeListTypeOK, PushCas, Pushing, FreePtr
<1>2. s' = <<m>> \o s /\ free_next' = free_next /\ free_head' = m
  BY DEF PushCas
<1>3. /\ Len(s') = Len(s) + 1
      /\ s'[1] = m
      /\ \A i \in 2..Len(s) + 1 : s'[i] = s[i - 1]
      /\ Len(s) \in Nat
  BY <1>1, <1>2, ConsOfList
<1>4. free_head' = IF s' = <<>> THEN NULL ELSE s'[1]
  BY <1>2, <1>3
<1>5. free_next[m] = IF s = <<>> THEN NULL ELSE s[1]
  BY DEF Linked, PushCas
<1>6. \A i \in 1..Len(s') :
         free_next'[s'[i]] = IF i = Len(s') THEN NULL ELSE s'[i + 1]
  <2> TAKE i \in 1..Len(s')
  <2>1. CASE i = 1
    <3>1. CASE s = <<>>
      BY <3>1, <2>1, <1>2, <1>3, <1>5
    <3>2. CASE s # <<>>
      <4>1. Len(s) # 0 /\ 2 \in 2..Len(s) + 1
        BY <3>2, <1>1, <1>3
      <4> QED
        BY <4>1, <3>2, <2>1, <1>2, <1>3, <1>5
    <3> QED
      BY <3>1, <3>2
  <2>2. CASE i # 1
    <3>1. i - 1 \in 1..Len(s) /\ i \in 2..Len(s) + 1
      BY <2>2, <1>3
    <3>2. free_next[s[i - 1]] = IF i - 1 = Len(s) THEN NULL ELSE s[(i - 1) + 1]
      BY <3>1 DEF Linked
    <3>3. CASE i - 1 = Len(s)
      BY <3>1, <3>2, <3>3, <1>2, <1>3
    <3>4. CASE i - 1 # Len(s)
      <4>1. i + 1 \in 2..Len(s) + 1 /\ s'[i + 1] = s[i]
        BY <3>1, <3>4, <1>3
      <4> QED
        BY <4>1, <3>1, <3>2, <3>4, <1>2, <1>3
    <3> QED
      BY <3>3, <3>4
  <2> QED
    BY <2>1, <2>2
<1>7. \A i \in 1..Len(s) : s[i] # m
  BY DEF InList
<1>8. \A i, j \in 1..Len(s') : s'[i] = s'[j] => i = j
  <2> TAKE i, j \in 1..Len(s')
  <2>1. CASE i = 1 \/ j = 1
    BY <2>1, <1>3, <1>7
  <2>2. CASE i # 1 /\ j # 1
    <3>1. i - 1 \in 1..Len(s) /\ j - 1 \in 1..Len(s)
      BY <2>2, <1>3
    <3> QED
      BY <3>1, <2>2, <1>3 DEF Linked
  <2> QED
    BY <2>1, <2>2
<1>9. \A n \in Record : InList(n)' <=> (InList(n) \/ n = m)
  <2> TAKE n \in Record
  <2>1. ASSUME InList(n)' PROVE InList(n) \/ n = m
    BY <2>1, <1>3 DEF InList
  <2>2. ASSUME n = m PROVE InList(n)'
    <3>1. 1 \in 1..Len(s')
      BY <1>3
    <3> QED
      BY <3>1, <2>2, <1>3 DEF InList
  <2>3. ASSUME InList(n) PROVE InList(n)'
    <3>1. PICK i \in 1..Len(s) : s[i] = n
      BY <2>3 DEF InList
    <3>2. i + 1 \in 1..Len(s') /\ s'[i + 1] = n
      BY <3>1, <1>3
    <3> QED
      BY <3>2 DEF InList
  <2> QED
    BY <2>1, <2>2, <2>3
<1> QED
  BY <1>4, <1>6, <1>8, <1>9 DEF Linked
\* A push that links its record touches no link of the list.
LEMMA LinkKept ==
    ASSUME FreeListTypeOK, Linked, NEW t \in Thread, PushStep(t), ~InList(fl_n[t])
    PROVE  Linked' /\ \A n \in Record : InList(n)' <=> InList(n)
<1>1. UNCHANGED <<free_head, free_stack, aba, fl_n>> /\ fl_n[t] \in Record
  BY DEF PushStep, PushLink, PushRetry, FreeListTypeOK, FreePtr, Pushing
<1>2. \A r \in Record : r # fl_n[t] => free_next'[r] = free_next[r]
  BY DEF PushStep, PushLink, PushRetry, FreeListTypeOK
<1>3. ASSUME NEW i \in 1..Len(free_stack)
      PROVE  free_next'[free_stack[i]] = free_next[free_stack[i]]
  <2>1. free_stack[i] \in Record /\ free_stack[i] # fl_n[t]
    BY DEF InList, FreeListTypeOK
  <2> QED  BY <2>1, <1>2
<1> QED  BY <1>1, <1>3 DEF Linked, InList

\* The head of a list that is not empty is in the list.
LEMMA HeadInList ==
    ASSUME FreeListTypeOK, Linked, free_head # NULL
    PROVE  free_stack # <<>> /\ free_head = free_stack[1] /\ InList(free_head)
<1>1. free_stack # <<>> /\ free_head = free_stack[1] /\ free_stack \in Seq(Record)
  BY DEF Linked, FreeListTypeOK
<1>2. 1 \in 1..Len(free_stack)
  BY <1>1
<1> QED
  BY <1>1, <1>2 DEF InList

\* A step of a call of t.
Calls(t) ==
    \/ PopLoad(t) \/ PopLoadNull(t) \/ PopStep(t) \/ PopRetryNull(t) \/ PopCas(t)
    \/ PushStep(t) \/ PushCas(t) \/ \E n \in Record : PushLoad(t, n)

\* It leaves the locals of the other threads alone.
LEMMA OthersKeepLocals ==
    ASSUME FreeListTypeOK, NEW t \in Thread, Calls(t), NEW u \in Thread, u # t
    PROVE  /\ fl_pc'[u] = fl_pc[u] /\ fl_h'[u] = fl_h[u]
           /\ fl_next'[u] = fl_next[u] /\ fl_n'[u] = fl_n[u]
BY DEF Calls, FreeListTypeOK, PopStep, PushStep, PopLoad, PopLoadNull, flVars, PopRead,
       PopRetry, PopRetryNull, PopCas, PushLink, PushRetry, PushCas, PushLoad, Return

\* A step that neither links nor takes effect leaves the list alone.
LEMMA ListKept ==
    ASSUME Linked, NEW t \in Thread,
           \/ PopLoad(t) \/ PopLoadNull(t) \/ PopStep(t) \/ PopRetryNull(t)
           \/ \E n \in Record : PushLoad(t, n)
    PROVE  /\ Linked' /\ (\A n \in Record : InList(n)' <=> InList(n))
           /\ UNCHANGED <<free_head, free_next, free_stack, aba>>
<1>1. UNCHANGED <<free_head, free_next, free_stack, aba>>
  BY DEF PopStep, PopLoad, PopLoadNull, flVars, PopRead, PopRetry, PopRetryNull, PushLoad
<1> QED  BY <1>1 DEF Linked, InList

\* Two pushes do not share a record, so neither undoes the link of the other.
LEMMA PushLinkedKept ==
    ASSUME FreeListTypeOK, PushLinked, NEW t \in Thread, Calls(t),
           Pushing(t) => \A u \in Thread \ {t} : Pushing(u) => fl_n[u] # fl_n[t]
    PROVE  PushLinked'
<1>1. SUFFICES ASSUME NEW u \in Thread, fl_pc'[u] = "push_cas"
               PROVE  free_next'[fl_n'[u]] = fl_h'[u]
  BY DEF PushLinked
<1>2. CASE u = t
  <2>1. PushLink(t)
    BY <1>1, <1>2 DEF Calls, FreeListTypeOK, PopStep, PushStep, PopLoad, PopLoadNull,
          flVars, PopRead, PopRetry, PopRetryNull, PopCas, PushRetry, PushCas, PushLoad, Return
  <2>2. fl_n[t] \in Record  BY <2>1 DEF PushLink, FreeListTypeOK, FreePtr, Pushing
  <2> QED  BY <1>2, <2>1, <2>2 DEF PushLink, FreeListTypeOK
<1>3. CASE u # t
  <2>1. /\ fl_pc[u] = "push_cas" /\ fl_h'[u] = fl_h[u] /\ fl_n'[u] = fl_n[u]
        /\ fl_n[u] \in Record /\ Pushing(u)
    BY <1>1, <1>3, OthersKeepLocals DEF FreeListTypeOK, FreePtr, Pushing
  <2>2. free_next'[fl_n[u]] = free_next[fl_n[u]]
    <3>1. CASE PushLink(t)
      <4>1. fl_n[u] # fl_n[t]  BY <3>1, <2>1, <1>3 DEF PushLink, Pushing
      <4> QED  BY <3>1, <4>1, <2>1 DEF PushLink, FreeListTypeOK
    <3>2. CASE ~PushLink(t)
      BY <3>2 DEF Calls, PopStep, PushStep, PopLoad, PopLoadNull,
          flVars, PopRead, PopRetry, PopRetryNull, PopCas, PushRetry, PushCas, PushLoad
    <3> QED  BY <3>1, <3>2
  <2> QED  BY <2>1, <2>2 DEF PushLinked
<1> QED  BY <1>2, <1>3

-----------------------------------------------------------------------------
(* MpscQueue *)

\* What a producer inside push() has in its hands.
PushesSound ==
    /\ \A t \in Thread : q_pc[t] \in {"swap", "link"} => q_n[t] \in Record
    /\ \A t \in Thread : q_pc[t] = "swap" => next[q_n[t]] = NULL
    /\ \A t \in Thread : q_pc[t] = "link" =>
          \E i \in 1..Len(fifo) : q_prev[t] = Chain[i] /\ q_n[t] = Chain[i + 1]
    /\ \A t, u \in Thread :
          (q_pc[t] = "link" /\ q_pc[u] = "link" /\ q_n[t] = q_n[u]) => t = u

\* The links spell the queue and the pushes are sound.
Queued == MpscQueueTypeOK /\ Chained /\ PushesSound

\* A node that is neither the dummy nor in the queue.
Outside(n) == n # head_ /\ ~InQueue(n)

\* The nodes of the chain by position.
LEMMA ChainShape ==
    ASSUME MpscQueueTypeOK
    PROVE  /\ Len(fifo) \in Nat
           /\ Len(Chain) = Len(fifo) + 1
           /\ Chain[1] = head_
           /\ \A i \in 2..Len(fifo) + 1 : Chain[i] = fifo[i - 1]
           /\ \A i \in 1..Len(fifo) : Chain[i + 1] = fifo[i] /\ fifo[i] \in Record
           /\ \A i \in 1..Len(fifo) + 1 : Chain[i] \in MpscNode
<1>1. fifo \in Seq(Record) /\ head_ \in MpscNode
  BY DEF MpscQueueTypeOK
<1>2. /\ Len(fifo) \in Nat
      /\ Len(Chain) = Len(fifo) + 1
      /\ Chain[1] = head_
      /\ \A i \in 2..Len(fifo) + 1 : Chain[i] = fifo[i - 1]
  BY <1>1 DEF Chain
<1>3. \A i \in 1..Len(fifo) : Chain[i + 1] = fifo[i] /\ fifo[i] \in Record
  BY <1>1, <1>2
<1>4. ASSUME NEW i \in 1..Len(fifo) + 1 PROVE Chain[i] \in MpscNode
  <2>1. CASE i = 1
    BY <2>1, <1>1, <1>2
  <2>2. CASE i # 1
    <3>1. i \in 2..Len(fifo) + 1 /\ i - 1 \in 1..Len(fifo)
      BY <2>2, <1>2
    <3> QED
      BY <3>1, <1>2, <1>3 DEF MpscNode
  <2> QED
    BY <2>1, <2>2
<1> QED
  BY <1>2, <1>3, <1>4

\* Such a node is not a node of the chain.
LEMMA OutsideChain ==
    ASSUME MpscQueueTypeOK, NEW n, Outside(n), NEW i \in 1..Len(fifo) + 1
    PROVE  Chain[i] # n
<1>1. CASE i = 1
  BY <1>1, ChainShape DEF Outside
<1>2. CASE i # 1
  <2>1. i - 1 \in 1..Len(fifo) /\ Chain[i] = fifo[i - 1]
    BY <1>2, ChainShape
  <2> QED
    BY <2>1 DEF InQueue, Outside
<1> QED
  BY <1>1, <1>2

\* What depends on the links, the history and the pushes alone.
LEMMA ChainFrame ==
    ASSUME UNCHANGED <<tail_, head_, next, q_pc, q_n, q_prev, fifo>>
    PROVE  /\ Chained' <=> Chained
           /\ PushesSound' <=> PushesSound
           /\ \A n : InQueue(n)' <=> InQueue(n)
<1>1. Chain' = Chain
  BY DEF Chain
<1>2. \A i \in 1..Len(fifo) :
          Unlinked(Chain[i], Chain[i + 1])' <=> Unlinked(Chain[i], Chain[i + 1])
  BY <1>1 DEF Unlinked
<1>3. Chained' <=> Chained
  BY <1>1, <1>2 DEF Chained
<1>4. PushesSound' <=> PushesSound
  BY <1>1 DEF PushesSound
<1> QED
  BY <1>3, <1>4 DEF InQueue

\* The dummy is the last node of the chain just when the queue is empty.
LEMMA EmptyChain ==
    ASSUME MpscQueueTypeOK, Chained
    PROVE  tail_ = head_ <=> fifo = <<>>
<1>1. /\ Len(fifo) \in Nat /\ Len(Chain) = Len(fifo) + 1 /\ Chain[1] = head_
      /\ fifo \in Seq(Record)
  BY ChainShape DEF MpscQueueTypeOK
<1>2. 1 \in 1..Len(Chain) /\ Len(Chain) \in 1..Len(Chain)
  BY <1>1
<1>3. tail_ = head_ => Len(Chain) = 1
  BY <1>1, <1>2 DEF Chained
<1>4. fifo = <<>> => Len(Chain) = 1 /\ Chain[1] = head_
  BY <1>1
<1> QED
  BY <1>1, <1>3, <1>4 DEF Chained

\* push() clears the link of a node that is outside the chain.
LEMMA ClearChain ==
    ASSUME Queued, NEW t \in Thread, NEW n \in Record, QClear(t, n), Outside(n)
    PROVE  Chained' /\ PushesSound' /\ \A m : InQueue(m)' <=> InQueue(m)
<1> USE DEF Queued
<1>1. /\ UNCHANGED <<tail_, head_, q_prev, c_pc, fifo>>
      /\ q_pc[t] = "idle"
      /\ q_pc' = [q_pc EXCEPT ![t] = "swap"] /\ q_n' = [q_n EXCEPT ![t] = n]
      /\ next' = [next EXCEPT ![n] = NULL]
  BY DEF QClear
<1>2. Chain' = Chain
  BY <1>1 DEF Chain
<1>3. \A i \in 1..Len(fifo) + 1 : next'[Chain[i]] = next[Chain[i]]
  <2> TAKE i \in 1..Len(fifo) + 1
  <2>1. Chain[i] # n /\ Chain[i] \in MpscNode
    BY OutsideChain, ChainShape
  <2> QED
    BY <1>1, <2>1 DEF MpscQueueTypeOK
<1>4. \A p, m : Unlinked(p, m)' <=> Unlinked(p, m)
  BY <1>1 DEF Unlinked, MpscQueueTypeOK
<1>5. Chained'
  <2>1. tail_ = Chain[Len(fifo) + 1] /\ Len(Chain) = Len(fifo) + 1 /\ Len(fifo) \in Nat
    BY ChainShape DEF Chained
  <2>2. next'[tail_] = NULL
    BY <2>1, <1>3 DEF Chained
  <2>3. \A i \in 1..Len(fifo) : next'[Chain[i]] = next[Chain[i]]
    BY <2>1, <1>3
  <2> QED
    BY <2>1, <2>2, <2>3, <1>1, <1>2, <1>4 DEF Chained
<1>6. PushesSound'
  <2>1. \A u \in Thread : q_pc'[u] \in {"swap", "link"} => q_n'[u] \in Record
    BY <1>1 DEF PushesSound, MpscQueueTypeOK
  <2>2. \A u \in Thread : q_pc'[u] = "swap" => next'[q_n'[u]] = NULL
    BY <1>1 DEF PushesSound, MpscQueueTypeOK, MpscNode
  <2>3. \A u \in Thread : q_pc'[u] = "link" =>
           u # t /\ q_pc[u] = "link" /\ q_n'[u] = q_n[u] /\ q_prev'[u] = q_prev[u]
    BY <1>1 DEF MpscQueueTypeOK
  <2> QED
    BY <2>1, <2>2, <2>3, <1>1, <1>2 DEF PushesSound
<1> QED
  BY <1>1, <1>5, <1>6 DEF InQueue

\* The exchange puts the record at the end of the chain; its link is still owed.
LEMMA SwapChain ==
    ASSUME Queued, NEW t \in Thread, QSwap(t), Outside(q_n[t])
    PROVE  Chained' /\ PushesSound' /\ \A m : InQueue(m)' <=> (InQueue(m) \/ m = q_n[t])
<1> USE DEF Queued
<1> DEFINE n == q_n[t]
           L == Len(fifo)
           Un(p, m) ==
              \E u \in Thread : q_pc'[u] = "link" /\ q_prev'[u] = p /\ q_n'[u] = m
<1>1. /\ UNCHANGED <<head_, next, q_n, c_pc>>
      /\ q_pc[t] = "swap" /\ q_pc' = [q_pc EXCEPT ![t] = "link"]
      /\ q_prev' = [q_prev EXCEPT ![t] = tail_]
      /\ tail_' = n /\ fifo' = Append(fifo, n)
  BY DEF QSwap
<1>2. n \in Record /\ ~InQueue(n) /\ \A i \in 1..L + 1 : Chain[i] # n
  BY <1>1, OutsideChain DEF PushesSound, Outside
<1>3. /\ fifo' \in Seq(Record) /\ L \in Nat /\ Len(fifo') = L + 1 /\ fifo'[L + 1] = n
      /\ \A i \in 1..L : fifo'[i] = fifo[i]
  BY <1>1, <1>2 DEF MpscQueueTypeOK
<1>4. /\ \A i \in 1..L + 1 : Chain'[i] = Chain[i]
      /\ Chain'[L + 2] = n /\ Len(Chain') = L + 2
  <2>1. /\ Len(Chain) = L + 1 /\ Chain[1] = head_
        /\ \A i \in 2..L + 1 : Chain[i] = fifo[i - 1]
    BY ChainShape
  <2>2. /\ Len(Chain') = L + 2 /\ Chain'[1] = head_
        /\ \A i \in 2..L + 2 : Chain'[i] = fifo'[i - 1]
    BY <1>1, <1>3 DEF Chain
  <2>3. ASSUME NEW i \in 1..L + 1 PROVE Chain'[i] = Chain[i]
    <3>1. CASE i = 1
      BY <3>1, <2>1, <2>2
    <3>2. CASE i # 1
      <4>1. i - 1 \in 1..L /\ i \in 2..L + 1 /\ i \in 2..L + 2
        BY <3>2, <1>3
      <4> QED
        BY <4>1, <1>3, <2>1, <2>2
    <3> QED
      BY <3>1, <3>2
  <2>4. L + 2 \in 2..L + 2 /\ (L + 2) - 1 = L + 1
    BY <1>3
  <2> QED
    BY <1>3, <2>2, <2>3, <2>4
<1>5. tail_ = Chain[L + 1] /\ next[tail_] = NULL /\ Len(Chain) = L + 1
  BY ChainShape DEF Chained
<1>6. \A p, m : m # n => (Un(p, m) <=> Unlinked(p, m))
  BY <1>1 DEF Unlinked, MpscQueueTypeOK
<1>7. Un(tail_, n)
  BY <1>1 DEF MpscQueueTypeOK
<1>8. next[n] = NULL
  BY <1>1 DEF PushesSound
<1>9. Chained'
  <2>1. tail_' = Chain'[Len(Chain')] /\ next'[tail_'] = NULL
    BY <1>1, <1>4, <1>8
  <2>2. ASSUME NEW i \in 1..L + 1
        PROVE  \/ next'[Chain'[i]] = Chain'[i + 1] /\ ~Un(Chain'[i], Chain'[i + 1])
               \/ next'[Chain'[i]] = NULL /\ Un(Chain'[i], Chain'[i + 1])
    <3>1. CASE i = L + 1
      <4>1. Chain'[i] = tail_ /\ Chain'[i + 1] = n
        BY <3>1, <1>3, <1>4, <1>5
      <4> QED
        BY <4>1, <1>1, <1>5, <1>7
    <3>2. CASE i # L + 1
      <4>1. i \in 1..L /\ i + 1 \in 1..L + 1
        BY <3>2, <1>3
      <4>2. Chain'[i] = Chain[i] /\ Chain'[i + 1] = Chain[i + 1] /\ Chain[i + 1] # n
        BY <4>1, <1>2, <1>4
      <4>3. \/ next[Chain[i]] = Chain[i + 1] /\ ~Unlinked(Chain[i], Chain[i + 1])
            \/ next[Chain[i]] = NULL /\ Unlinked(Chain[i], Chain[i + 1])
        BY <4>1 DEF Chained
      <4>4. Un(Chain[i], Chain[i + 1]) <=> Unlinked(Chain[i], Chain[i + 1])
        BY <4>2, <1>6
      <4> HIDE DEF Un
      <4> QED
        BY <4>2, <4>3, <4>4, <1>1
    <3> QED
      BY <3>1, <3>2
  <2>3. ASSUME NEW i \in 1..L + 2, NEW j \in 1..L + 2, Chain'[i] = Chain'[j]
        PROVE  i = j
    <3>1. CASE i = L + 2 /\ j = L + 2
      BY <3>1
    <3>2. CASE i # L + 2 /\ j # L + 2
      <4>1. i \in 1..L + 1 /\ j \in 1..L + 1
        BY <3>2, <1>3
      <4> QED
        BY <4>1, <2>3, <1>4, <1>5 DEF Chained
    <3>3. CASE (i = L + 2 /\ j # L + 2) \/ (i # L + 2 /\ j = L + 2)
      <4>1. (i \in 1..L + 1 /\ j = L + 2) \/ (j \in 1..L + 1 /\ i = L + 2)
        BY <3>3, <1>3
      <4> QED
        BY <4>1, <2>3, <1>2, <1>4
    <3> QED
      BY <3>1, <3>2, <3>3
  <2> QED
    BY <2>1, <2>2, <2>3, <1>3, <1>4 DEF Chained, Unlinked
<1>10. \A m : InQueue(m)' <=> (InQueue(m) \/ m = n)
  <2> SUFFICES ASSUME NEW m PROVE InQueue(m)' <=> (InQueue(m) \/ m = n)
    OBVIOUS
  <2>1. ASSUME InQueue(m)' PROVE InQueue(m) \/ m = n
    BY <2>1, <1>3 DEF InQueue
  <2>2. ASSUME InQueue(m) PROVE InQueue(m)'
    BY <2>2, <1>3 DEF InQueue
  <2>3. ASSUME m = n PROVE InQueue(m)'
    BY <2>3, <1>3 DEF InQueue
  <2> QED
    BY <2>1, <2>2, <2>3
<1>11. PushesSound'
  <2>1. \A u \in Thread : q_pc'[u] = "swap" => q_pc[u] = "swap"
    BY <1>1 DEF MpscQueueTypeOK
  <2>2. \A u \in Thread : q_pc'[u] \in {"swap", "link"} => q_pc[u] \in {"swap", "link"}
    BY <1>1 DEF MpscQueueTypeOK
  <2>3. \A u \in Thread \ {t} : q_pc'[u] = q_pc[u] /\ q_prev'[u] = q_prev[u]
    BY <1>1 DEF MpscQueueTypeOK
  <2>4. ASSUME NEW u \in Thread, q_pc'[u] = "link"
        PROVE \E i \in 1..L + 1 : q_prev'[u] = Chain'[i] /\ q_n'[u] = Chain'[i + 1]
    <3>1. CASE u = t
      <4>1. L + 1 \in 1..L + 1 /\ q_prev'[u] = tail_ /\ q_n'[u] = n /\ (L + 1) + 1 = L + 2
        BY <3>1, <1>1, <1>3 DEF MpscQueueTypeOK
      <4> QED
        BY <4>1, <1>4, <1>5
    <3>2. CASE u # t
      <4>1. PICK i \in 1..L : q_prev[u] = Chain[i] /\ q_n[u] = Chain[i + 1]
        BY <3>2, <2>3, <2>4 DEF PushesSound
      <4>2. i \in 1..L + 1 /\ i + 1 \in 1..L + 1
        BY <1>3
      <4> QED
        BY <4>1, <4>2, <3>2, <2>3, <1>1, <1>4
    <3> QED
      BY <3>1, <3>2
  <2>5. ASSUME NEW u \in Thread \ {t}, q_pc[u] = "link" PROVE q_n[u] # n
    <3>1. PICK i \in 1..L : q_n[u] = Chain[i + 1]
      BY <2>5 DEF PushesSound
    <3>2. i + 1 \in 1..L + 1
      BY <1>3
    <3> QED
      BY <3>1, <3>2, <1>2
  <2>6. \A u, v \in Thread :
           (q_pc'[u] = "link" /\ q_pc'[v] = "link" /\ q_n'[u] = q_n'[v]) => u = v
    BY <2>3, <2>5, <1>1 DEF PushesSound
  <2> QED
    BY <2>1, <2>2, <2>4, <2>6, <1>1, <1>3 DEF PushesSound
<1> QED
  BY <1>9, <1>10, <1>11

\* The store of push() settles the link that it owes.
LEMMA LinkChain ==
    ASSUME Queued, NEW t \in Thread, QLink(t),
           \A u \in Thread : q_pc[u] = "swap" => Outside(q_n[u])
    PROVE  Chained' /\ PushesSound' /\ \A m : InQueue(m)' <=> InQueue(m)
<1> USE DEF Queued
<1> DEFINE n == q_n[t]
           L == Len(fifo)
           Un(p, m) ==
              \E u \in Thread : q_pc'[u] = "link" /\ q_prev'[u] = p /\ q_n'[u] = m
<1>1. /\ UNCHANGED <<tail_, head_, fifo, c_pc>>
      /\ q_pc[t] = "link" /\ q_pc' = [q_pc EXCEPT ![t] = "idle"]
      /\ q_n' = [q_n EXCEPT ![t] = NULL]
      /\ q_prev' = [q_prev EXCEPT ![t] = NULL]
      /\ next' = [next EXCEPT ![q_prev[t]] = n]
  BY DEF QLink
<1>2. PICK k \in 1..L : q_prev[t] = Chain[k] /\ n = Chain[k + 1]
  BY <1>1 DEF PushesSound
<1>3. /\ L \in Nat /\ Len(Chain) = L + 1
      /\ \A i \in 1..L + 1 : Chain[i] \in MpscNode
      /\ tail_ = Chain[L + 1]
      /\ \A i, j \in 1..L + 1 : Chain[i] = Chain[j] => i = j
  BY ChainShape DEF Chained
<1>4. Chain' = Chain
  BY <1>1 DEF Chain
<1>5. k \in 1..L + 1 /\ k + 1 \in 1..L + 1 /\ k # L + 1
  BY <1>3
<1>6. \A m \in MpscNode : next'[m] = IF m = Chain[k] THEN n ELSE next[m]
  BY <1>1, <1>2, <1>3, <1>5 DEF MpscQueueTypeOK
<1>7. \A u \in Thread \ {t} : /\ q_pc'[u] = q_pc[u] /\ q_n'[u] = q_n[u]
                              /\ q_prev'[u] = q_prev[u]
  BY <1>1 DEF MpscQueueTypeOK
<1>8. q_pc'[t] = "idle"
  BY <1>1 DEF MpscQueueTypeOK
<1>9. \A p : ~Un(p, n)
  BY <1>1, <1>7, <1>8 DEF PushesSound
<1>10. \A p, m : m # n => (Un(p, m) <=> Unlinked(p, m))
  BY <1>1, <1>7, <1>8 DEF Unlinked
<1>11. Chained'
  <2>1. next'[tail_] = NULL
    BY <1>3, <1>5, <1>6 DEF Chained
  <2>2. ASSUME NEW i \in 1..L
        PROVE  \/ next'[Chain[i]] = Chain[i + 1] /\ ~Un(Chain[i], Chain[i + 1])
               \/ next'[Chain[i]] = NULL /\ Un(Chain[i], Chain[i + 1])
    <3>1. i \in 1..L + 1 /\ i + 1 \in 1..L + 1
      BY <1>3
    <3>2. CASE i = k
      BY <3>1, <3>2, <1>2, <1>3, <1>6, <1>9
    <3>3. CASE i # k
      <4>1. Chain[i] # Chain[k] /\ Chain[i + 1] # n
        BY <3>1, <3>3, <1>2, <1>3, <1>5
      <4>2. next'[Chain[i]] = next[Chain[i]]
        BY <4>1, <3>1, <1>3, <1>6
      <4>3. Un(Chain[i], Chain[i + 1]) <=> Unlinked(Chain[i], Chain[i + 1])
        BY <4>1, <1>10
      <4>4. \/ next[Chain[i]] = Chain[i + 1] /\ ~Unlinked(Chain[i], Chain[i + 1])
            \/ next[Chain[i]] = NULL /\ Unlinked(Chain[i], Chain[i + 1])
        BY DEF Chained
      <4> HIDE DEF Un
      <4> QED
        BY <4>2, <4>3, <4>4
    <3> QED
      BY <3>2, <3>3
  <2>3. tail_' = Chain'[Len(Chain')] /\ next'[tail_'] = NULL
    BY <2>1, <1>1, <1>3, <1>4
  <2>4. \A i \in 1..Len(fifo') :
           \/ next'[Chain'[i]] = Chain'[i + 1] /\ ~Un(Chain'[i], Chain'[i + 1])
           \/ next'[Chain'[i]] = NULL /\ Un(Chain'[i], Chain'[i + 1])
    BY <2>2, <1>1, <1>4
  <2>5. \A i, j \in 1..Len(Chain') : Chain'[i] = Chain'[j] => i = j
    BY <1>3, <1>4
  <2> QED
    BY <2>3, <2>4, <2>5 DEF Chained, Unlinked
<1>12. PushesSound'
  <2>1. \A u \in Thread : q_pc'[u] \in {"swap", "link"} =>
           u # t /\ q_pc[u] = q_pc'[u] /\ q_n'[u] = q_n[u] /\ q_prev'[u] = q_prev[u]
    BY <1>7, <1>8
  <2>2. ASSUME NEW u \in Thread, q_pc'[u] = "swap" PROVE next'[q_n'[u]] = NULL
    <3>1. q_pc[u] = "swap" /\ q_n'[u] = q_n[u]
      BY <2>1, <2>2
    <3>2. q_n[u] \in MpscNode /\ q_n[u] # Chain[k]
      BY <3>1, <1>5, OutsideChain DEF MpscNode, PushesSound
    <3> QED
      BY <3>1, <3>2, <1>6 DEF PushesSound
  <2>3. \A u \in Thread : q_pc'[u] = "link" =>
           \E i \in 1..L : q_prev'[u] = Chain[i] /\ q_n'[u] = Chain[i + 1]
    BY <2>1 DEF PushesSound
  <2> QED
    BY <2>1, <2>2, <2>3, <1>1, <1>4 DEF PushesSound
<1> QED
  BY <1>1, <1>11, <1>12 DEF InQueue

\* A dummy with a successor: the queue is not empty and its first record is
\* that successor.
LEMMA NextIsFirst ==
    ASSUME MpscQueueTypeOK, Chained, NextOfHead # NULL
    PROVE  /\ fifo # <<>> /\ NextOfHead = Head(fifo) /\ NextOfHead = fifo[1]
           /\ NextOfHead \in Record /\ Len(fifo) \in Nat \ {0}
           /\ ~Unlinked(head_, fifo[1])
<1>1. /\ Len(fifo) \in Nat /\ Len(Chain) = Len(fifo) + 1
      /\ Chain[1] = head_ /\ fifo \in Seq(Record)
  BY ChainShape DEF MpscQueueTypeOK
<1>2. Len(fifo) # 0
  BY <1>1 DEF Chained, NextOfHead
<1>3. 1 \in 1..Len(fifo) /\ Chain[1 + 1] = fifo[1] /\ fifo[1] \in Record
  <2>1. 1 \in 1..Len(fifo)
    BY <1>1, <1>2
  <2> QED
    BY <2>1, ChainShape
<1>4. next[Chain[1]] = Chain[1 + 1] /\ ~Unlinked(Chain[1], Chain[1 + 1])
  BY <1>1, <1>3 DEF Chained, NextOfHead
<1> QED
  BY <1>1, <1>2, <1>3, <1>4 DEF NextOfHead

\* A pop makes the first record of the queue the dummy.
LEMMA AdvanceChain ==
    ASSUME Queued, Advance
    PROVE  /\ Chained' /\ PushesSound' /\ head_' = fifo[1] /\ fifo[1] \in Record
           /\ fifo # <<>> /\ fifo' = Tail(fifo) /\ Len(fifo') = Len(fifo) - 1
           /\ InQueue(fifo[1])
           /\ \A x : InQueue(x)' <=> (InQueue(x) /\ x # fifo[1])
<1> USE DEF Queued
<1> DEFINE m == fifo[1]
           L == Len(fifo)
<1>1. /\ fifo # <<>> /\ NextOfHead = m /\ m \in Record /\ L \in Nat \ {0}
      /\ ~Unlinked(head_, m)
  BY NextIsFirst DEF Advance
<1>2. /\ UNCHANGED <<tail_, next, q_pc, q_n, q_prev>>
      /\ head_' = m /\ fifo' = Tail(fifo)
  BY <1>1 DEF Advance
<1>3. /\ fifo' \in Seq(Record) /\ Len(fifo') = L - 1
      /\ \A i \in 1..L - 1 : fifo'[i] = fifo[i + 1]
  BY <1>1, <1>2 DEF MpscQueueTypeOK
<1>4. /\ Len(Chain) = L + 1 /\ Chain[1] = head_ /\ Len(Chain') = L
      /\ \A i \in 1..L : Chain'[i] = Chain[i + 1]
  <2>1. /\ Len(Chain) = L + 1 /\ Chain[1] = head_
        /\ \A i \in 1..L : Chain[i + 1] = fifo[i]
    BY ChainShape
  <2>2. /\ Len(Chain') = L /\ Chain'[1] = m
        /\ \A i \in 2..L : Chain'[i] = fifo'[i - 1]
    BY <1>1, <1>2, <1>3 DEF Chain
  <2>3. ASSUME NEW i \in 1..L PROVE Chain'[i] = Chain[i + 1]
    <3>1. CASE i = 1
      BY <3>1, <2>1, <2>2
    <3>2. CASE i # 1
      <4>1. i \in 2..L /\ i - 1 \in 1..L - 1 /\ (i - 1) + 1 = i
        BY <3>2, <1>1
      <4> QED
        BY <4>1, <2>1, <2>2, <1>3
    <3> QED
      BY <3>1, <3>2
  <2> QED
    BY <2>1, <2>2, <2>3
<1>5. \A p, x : Unlinked(p, x)' <=> Unlinked(p, x)
  BY <1>2 DEF Unlinked
<1>6. Chained'
  <2>1. tail_' = Chain'[Len(Chain')] /\ next'[tail_'] = NULL
    <3>1. L \in 1..L
      BY <1>1
    <3> QED
      BY <3>1, <1>2, <1>4 DEF Chained
  <2>2. ASSUME NEW i \in 1..Len(fifo')
        PROVE  \/ next[Chain'[i]] = Chain'[i + 1] /\ ~Unlinked(Chain[i + 1], Chain[i + 2])
               \/ next[Chain'[i]] = NULL /\ Unlinked(Chain[i + 1], Chain[i + 2])
    <3>1. i \in 1..L /\ i + 1 \in 1..L /\ (i + 1) + 1 = i + 2
      BY <1>1, <1>3
    <3> QED
      BY <3>1, <1>4 DEF Chained
  <2>3. \A i \in 1..Len(fifo') : Chain'[i] = Chain[i + 1] /\ Chain'[i + 1] = Chain[i + 2]
    <3> TAKE i \in 1..Len(fifo')
    <3>1. i \in 1..L /\ i + 1 \in 1..L /\ (i + 1) + 1 = i + 2
      BY <1>1, <1>3
    <3> QED
      BY <3>1, <1>4
  <2>4. ASSUME NEW i \in 1..Len(Chain'), NEW j \in 1..Len(Chain'), Chain'[i] = Chain'[j]
        PROVE  i = j
    <3>1. i \in 1..L /\ j \in 1..L /\ i + 1 \in 1..L + 1 /\ j + 1 \in 1..L + 1
      BY <1>1, <1>4
    <3>2. Chain[i + 1] = Chain[j + 1]
      BY <2>4, <3>1, <1>4
    <3>3. i + 1 = j + 1
      BY <3>1, <3>2, <1>4 DEF Chained
    <3> QED
      BY <3>1, <3>3
  <2>5. \A i \in 1..Len(fifo') :
           \/ next'[Chain'[i]] = Chain'[i + 1]
              /\ ~\E u \in Thread : q_pc'[u] = "link" /\ q_prev'[u] = Chain'[i]
                                     /\ q_n'[u] = Chain'[i + 1]
           \/ next'[Chain'[i]] = NULL
              /\ \E u \in Thread : q_pc'[u] = "link" /\ q_prev'[u] = Chain'[i]
                                    /\ q_n'[u] = Chain'[i + 1]
    BY <2>2, <2>3, <1>2 DEF Unlinked
  <2> QED
    BY <2>1, <2>4, <2>5 DEF Chained, Unlinked
<1>7. ASSUME NEW x PROVE InQueue(x)' <=> (InQueue(x) /\ x # m)
  <2>0. \A i, j \in 1..L : fifo[i] = fifo[j] => i = j
    <3> TAKE i, j \in 1..L
    <3>1. i + 1 \in 1..L + 1 /\ j + 1 \in 1..L + 1
      BY <1>1
    <3>2. Chain[i + 1] = fifo[i] /\ Chain[j + 1] = fifo[j]
      BY ChainShape
    <3> QED
      BY <3>1, <3>2, <1>4 DEF Chained
  <2>1. ASSUME InQueue(x)' PROVE InQueue(x) /\ x # m
    <3>1. PICK i \in 1..L - 1 : fifo'[i] = x
      BY <2>1, <1>3 DEF InQueue
    <3>2. i + 1 \in 1..L /\ 1 \in 1..L /\ fifo[i + 1] = x /\ i + 1 # 1
      BY <3>1, <1>1, <1>3
    <3> QED
      BY <3>2, <2>0 DEF InQueue
  <2>2. ASSUME InQueue(x), x # m PROVE InQueue(x)'
    <3>1. PICK i \in 1..L : fifo[i] = x
      BY <2>2 DEF InQueue
    <3>2. i - 1 \in 1..L - 1 /\ fifo'[i - 1] = x
      BY <3>1, <2>2, <1>1, <1>3
    <3> QED
      BY <3>2, <1>3 DEF InQueue
  <2> QED
    BY <2>1, <2>2
<1>8. InQueue(m)
  BY <1>1 DEF InQueue
<1>9. PushesSound'
  <2>1. ASSUME NEW u \in Thread, q_pc[u] = "link"
        PROVE \E i \in 1..L - 1 : q_prev[u] = Chain'[i] /\ q_n[u] = Chain'[i + 1]
    <3>1. PICK i \in 1..L : q_prev[u] = Chain[i] /\ q_n[u] = Chain[i + 1]
      BY <2>1 DEF PushesSound
    <3>2. i # 1
      <4>1. 1 \in 1..L /\ Chain[2] = m
        BY <1>1, ChainShape
      <4> QED
        BY <4>1, <3>1, <2>1, <1>1, <1>4 DEF Unlinked
    <3>3. i - 1 \in 1..L - 1 /\ i - 1 \in 1..L /\ i \in 1..L /\ (i - 1) + 1 = i
      BY <3>2, <1>1
    <3>4. Chain'[i - 1] = Chain[i] /\ Chain'[(i - 1) + 1] = Chain[i + 1]
      BY <3>3, <1>4
    <3> QED
      BY <3>1, <3>3, <3>4
  <2> QED
    BY <2>1, <1>2, <1>3 DEF PushesSound
<1> QED
  BY <1>1, <1>2, <1>3, <1>6, <1>7, <1>8, <1>9

\* The end of a reset, when nobody is inside push().
LEMMA ResetChain ==
    ASSUME MpscQueueTypeOK, head_ = Stub, next[Stub] = NULL, QResetTail,
           \A t \in Thread : q_pc[t] = "idle"
    PROVE  Chained' /\ PushesSound' /\ \A m : ~InQueue(m)'
<1>1. UNCHANGED <<head_, next, q_pc, q_n, q_prev>> /\ fifo' = <<>> /\ tail_' = Stub
  BY DEF QResetTail
<1>2. Len(fifo') = 0 /\ Len(Chain') = 1 /\ Chain'[1] = Stub
  BY <1>1 DEF Chain
<1>3. Chained'
  BY <1>1, <1>2 DEF Chained
<1>4. PushesSound'
  BY <1>1 DEF PushesSound
<1> QED
  BY <1>2, <1>3, <1>4 DEF InQueue
=============================================================================
