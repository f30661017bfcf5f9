--------------------------- MODULE RecordPoolProofs ---------------------------
(***************************************************************************)
(* Proofs about the free list under any number of threads and records:     *)
(* type correctness; until a CAS of try_pop succeeds with a stale          *)
(* successor, every record is in exactly one place; with a single popper   *)
(* that never happens and the list implements the abstract pool.           *)
(***************************************************************************)
EXTENDS RecordPool, TLAPS

\* The type invariant of the free list and its clients.
LEMMA TypeStep == TypeOK /\ [Next]_vars => TypeOK'
<1> SUFFICES ASSUME TypeOK, [Next]_vars PROVE TypeOK'
  OBVIOUS
<1> USE LogRecordAssumption, RecordPoolAssumption
        DEF TypeOK, FreeListTypeOK, FreePtr, FlPc, Popping, Pushing
<1>1. ASSUME NEW t \in Popper, Take(t) PROVE TypeOK'
  <2>1. free_stack' \in Seq(Record)
    BY <1>1 DEF Take, PopCas
  <2>2. fl_h[t] \in Record
    BY <1>1 DEF Take, PopCas
  <2> QED
    BY <1>1, <2>1, <2>2 DEF Take, PopCas, Return, StaleNext
<1>2. ASSUME NEW t \in Popper, Try(t) PROVE TypeOK'
  <2>1. CASE PopLoad(t) /\ UNCHANGED out
    BY <2>1, <1>2 DEF PopLoad
  <2>2. CASE PopLoadNull(t) /\ UNCHANGED out
    BY <2>2 DEF PopLoadNull, flVars
  <2>3. CASE PopRead(t) /\ UNCHANGED out
    BY <2>3, <1>2 DEF PopRead
  <2>4. CASE PopRetry(t) /\ UNCHANGED out
    BY <2>4, <1>2 DEF PopRetry
  <2>5. CASE PopRetryNull(t) /\ UNCHANGED out
    BY <2>5, <1>2 DEF PopRetryNull, Return
  <2> QED
    BY <1>2, <2>1, <2>2, <2>3, <2>4, <2>5 DEF Try, PopStep
<1>3. ASSUME NEW t \in Pusher, Give(t) PROVE TypeOK'
  BY <1>3 DEF Give, PushLoad
<1>4. ASSUME NEW t \in Pusher, Giving(t) PROVE TypeOK'
  <2>1. CASE PushLink(t) /\ UNCHANGED out
    BY <2>1, <1>4 DEF PushLink
  <2>2. CASE PushRetry(t) /\ UNCHANGED out
    BY <2>2, <1>4 DEF PushRetry
  <2>3. CASE PushCas(t) /\ UNCHANGED out
    BY <2>3, <1>4 DEF PushCas, Return
  <2> QED
    BY <1>4, <2>1, <2>2, <2>3 DEF Giving, PushStep
<1>5. CASE UNCHANGED vars
  BY <1>5 DEF vars
<1> QED
  BY <1>1, <1>2, <1>3, <1>4, <1>5 DEF Next

\* Every variable of the pool keeps its type, also behind a stale CAS.
THEOREM TypeCorrect == Spec => []TypeOK
<1>1. Init => TypeOK
  <2> SUFFICES ASSUME Init PROVE TypeOK
    OBVIOUS
  <2>1. \A t \in Thread : ~Popping(t) /\ ~Pushing(t)
    BY DEF Init, FreeListInit, Popping, Pushing
  <2>2. free_stack \in Seq(Record)
    BY DEF Init, FreeListInit
  <2> QED
    BY <2>1, <2>2 DEF Init, FreeListInit, TypeOK, FreeListTypeOK, FreePtr, FlPc
<1> QED
  BY <1>1, TypeStep, PTL DEF Spec

-----------------------------------------------------------------------------
(* Until a stale CAS succeeds *)

\* Poppers pop, pushers push.
Roles ==
    /\ \A t \in Popper : ~Pushing(t)
    /\ \A t \in Pusher : ~Popping(t)

\* What a pusher is about to swing the head to continues with the head it
\* expects.
PushLinked ==
    \A t \in Thread : fl_pc[t] = "push_cas" => free_next[fl_n[t]] = fl_h[t]

PoolInv ==
    /\ TypeOK
    /\ Roles
    /\ ~aba => Partition /\ PushLinked

\* A list without its first record is the list from the second one on.
LEMMA TailOfList ==
    ASSUME NEW s \in Seq(Record), s # <<>>
    PROVE  /\ Tail(s) \in Seq(Record)
           /\ Len(Tail(s)) = Len(s) - 1
           /\ \A i \in 1..Len(Tail(s)) : Tail(s)[i] = s[i + 1]
           /\ Len(s) \in Nat \ {0}
           /\ s[1] \in Record
  OBVIOUS

\* A record in front of a list.
LEMMA ConsOfList ==
    ASSUME NEW s \in Seq(Record), NEW n \in Record
    PROVE  /\ <<n>> \o s \in Seq(Record)
           /\ Len(<<n>> \o s) = Len(s) + 1
           /\ (<<n>> \o s)[1] = n
           /\ \A i \in 2..Len(s) + 1 : (<<n>> \o s)[i] = s[i - 1]
           /\ Len(s) \in Nat
  OBVIOUS

\* A CAS whose successor is not stale takes the first record off the list.
LEMMA PopLinked ==
    ASSUME TypeOK, Linked, NEW t \in Thread, PopCas(t), ~aba'
    PROVE  /\ Linked'
           /\ \A n \in Record : InList(n)' <=> (InList(n) /\ n # fl_h[t])
<1>1. ~aba /\ fl_next[t] = free_next[fl_h[t]]
  BY DEF PopCas, StaleNext
<1>2. free_stack \in Seq(Record) /\ free_head \in FreePtr /\ fl_h[t] # NULL
  BY DEF TypeOK, FreeListTypeOK, PopCas, Popping
<1>3. free_stack # <<>> /\ free_head = free_stack[1] /\ fl_h[t] = free_stack[1]
  BY <1>2 DEF Linked, PopCas
<1>4. free_stack' = Tail(free_stack) /\ free_next' = free_next
  BY <1>1, <1>3 DEF PopCas
<1> DEFINE s == free_stack
<1>5. /\ s' \in Seq(Record)
      /\ Len(s') = Len(s) - 1
      /\ \A i \in 1..Len(s') : s'[i] = s[i + 1]
      /\ Len(s) \in Nat \ {0}
  BY <1>2, <1>3, <1>4, TailOfList
<1>6. free_head' = free_next[s[1]]
  BY <1>1, <1>3 DEF PopCas
<1>7. free_head' = IF s' = <<>> THEN NULL ELSE s'[1]
  <2>1. CASE Len(s) = 1
    BY <2>1, <1>5, <1>6 DEF Linked
  <2>2. CASE Len(s) # 1
    <3>1. 1 \in 1..Len(s) /\ 1 \in 1..Len(s') /\ s' # <<>>
      BY <2>2, <1>5
    <3>2. free_next[s[1]] = s[2] /\ s'[1] = s[2]
      BY <3>1, <2>2, <1>5 DEF Linked
    <3> QED
      BY <3>1, <3>2, <1>6
  <2> QED
    BY <2>1, <2>2
<1>8. \A i \in 1..Len(s') :
         free_next'[s'[i]] = IF i = Len(s') THEN NULL ELSE s'[i + 1]
  <2> TAKE i \in 1..Len(s')
  <2>1. i + 1 \in 1..Len(s) /\ s'[i] = s[i + 1]
    BY <1>5
  <2>2. free_next[s[i + 1]] = IF i + 1 = Len(s) THEN NULL ELSE s[(i + 1) + 1]
    BY <2>1 DEF Linked
  <2>3. ASSUME i = Len(s') PROVE free_next[s[i + 1]] = NULL
    BY <2>3, <2>1, <2>2, <1>5
  <2>4. ASSUME i # Len(s') PROVE free_next[s[i + 1]] = s'[i + 1]
    BY <2>4, <2>1, <2>2, <1>5
  <2> QED
    BY <2>1, <2>3, <2>4, <1>4
<1>9. \A i, j \in 1..Len(s') : s'[i] = s'[j] => i = j
  <2> TAKE i, j \in 1..Len(s')
  <2>1. i + 1 \in 1..Len(s) /\ j + 1 \in 1..Len(s)
    BY <1>5
  <2> QED
    BY <2>1, <1>5 DEF Linked
<1>10. \A n \in Record : InList(n)' <=> (InList(n) /\ n # s[1])
  <2> TAKE n \in Record
  <2>1. ASSUME InList(n)' PROVE InList(n) /\ n # s[1]
    <3>1. PICK i \in 1..Len(s') : s'[i] = n
      BY <2>1 DEF InList
    <3>2. i + 1 \in 1..Len(s) /\ 1 \in 1..Len(s) /\ s[i + 1] = n /\ i + 1 # 1
      BY <3>1, <1>5
    <3> QED
      BY <3>2 DEF InList, Linked
  <2>2. ASSUME InList(n), n # s[1] PROVE InList(n)'
    <3>1. PICK i \in 1..Len(s) : s[i] = n
      BY <2>2 DEF InList
    <3>2. i - 1 \in 1..Len(s') /\ s'[i - 1] = n
      BY <3>1, <2>2, <1>5
    <3> QED
      BY <3>2 DEF InList
  <2> QED
    BY <2>1, <2>2
<1> QED
  BY <1>3, <1>7, <1>8, <1>9, <1>10 DEF Linked

\* A CAS of push puts its record in front of the list.
LEMMA PushLinkedStep ==
    ASSUME TypeOK, Linked, ~aba, NEW t \in Thread, PushCas(t),
           free_next[fl_n[t]] = fl_h[t], ~InList(fl_n[t])
    PROVE  /\ Linked'
           /\ \A n \in Record : InList(n)' <=> (InList(n) \/ n = fl_n[t])
<1> DEFINE s == free_stack
           m == fl_n[t]
<1>1. s \in Seq(Record) /\ m \in Record
  BY DEF TypeOK, FreeListTypeOK, PushCas, Pushing, FreePtr
<1>2. s' = <<m>> \o s /\ free_next' = free_next /\ free_head' = m
  BY DEF PushCas
<1>3. /\ Len(s') = Len(s) + 1
      /\ s'[1] = m
      /\ \A i \in 2..Len(s) + 1 : s'[i] = s[i - 1]
      /\ Len(s) \in Nat
  BY <1>1, <1>2, ConsOfList
<1>4. free_head' = IF s' = <<>> THEN NULL ELSE s'[1]
  BY <1>2, <1>3
<1>5. free_next[m] = IF s = <<>> THEN NULL ELSE s[1]
  BY DEF Linked, PushCas
<1>6. \A i \in 1..Len(s') :
         free_next'[s'[i]] = IF i = Len(s') THEN NULL ELSE s'[i + 1]
  <2> TAKE i \in 1..Len(s')
  <2>1. CASE i = 1
    <3>1. CASE s = <<>>
      BY <3>1, <2>1, <1>2, <1>3, <1>5
    <3>2. CASE s # <<>>
      <4>1. Len(s) # 0 /\ 2 \in 2..Len(s) + 1
        BY <3>2, <1>1, <1>3
      <4> QED
        BY <4>1, <3>2, <2>1, <1>2, <1>3, <1>5
    <3> QED
      BY <3>1, <3>2
  <2>2. CASE i # 1
    <3>1. i - 1 \in 1..Len(s) /\ i \in 2..Len(s) + 1
      BY <2>2, <1>3
    <3>2. free_next[s[i - 1]] = IF i - 1 = Len(s) THEN NULL ELSE s[(i - 1) + 1]
      BY <3>1 DEF Linked
    <3>3. CASE i - 1 = Len(s)
      BY <3>1, <3>2, <3>3, <1>2, <1>3
    <3>4. CASE i - 1 # Len(s)
      <4>1. i + 1 \in 2..Len(s) + 1 /\ s'[i + 1] = s[i]
        BY <3>1, <3>4, <1>3
      <4> QED
        BY <4>1, <3>1, <3>2, <3>4, <1>2, <1>3
    <3> QED
      BY <3>3, <3>4
  <2> QED
    BY <2>1, <2>2
<1>7. \A i \in 1..Len(s) : s[i] # m
  BY DEF InList
<1>8. \A i, j \in 1..Len(s') : s'[i] = s'[j] => i = j
  <2> TAKE i, j \in 1..Len(s')
  <2>1. CASE i = 1 \/ j = 1
    BY <2>1, <1>3, <1>7
  <2>2. CASE i # 1 /\ j # 1
    <3>1. i - 1 \in 1..Len(s) /\ j - 1 \in 1..Len(s)
      BY <2>2, <1>3
    <3> QED
      BY <3>1, <2>2, <1>3 DEF Linked
  <2> QED
    BY <2>1, <2>2
<1>9. \A n \in Record : InList(n)' <=> (InList(n) \/ n = m)
  <2> TAKE n \in Record
  <2>1. ASSUME InList(n)' PROVE InList(n) \/ n = m
    BY <2>1, <1>3 DEF InList
  <2>2. ASSUME n = m PROVE InList(n)'
    <3>1. 1 \in 1..Len(s')
      BY <1>3
    <3> QED
      BY <3>1, <2>2, <1>3 DEF InList
  <2>3. ASSUME InList(n) PROVE InList(n)'
    <3>1. PICK i \in 1..Len(s) : s[i] = n
      BY <2>3 DEF InList
    <3>2. i + 1 \in 1..Len(s') /\ s'[i + 1] = n
      BY <3>1, <1>3
    <3> QED
      BY <3>2 DEF InList
  <2> QED
    BY <2>1, <2>2, <2>3
<1> QED
  BY <1>4, <1>6, <1>8, <1>9 DEF Linked

\* The invariant is inductive.
LEMMA PoolStep == PoolInv /\ [Next]_vars => PoolInv'
<1> SUFFICES ASSUME PoolInv, [Next]_vars PROVE PoolInv'
  OBVIOUS
<1>0. TypeOK /\ TypeOK'
  BY TypeStep DEF PoolInv
<1>1. ASSUME NEW t \in Popper, Take(t) PROVE PoolInv'
  <2> USE RecordPoolAssumption
  <2>1. t \in Thread /\ ~Pushing(t) /\ t \notin Pusher
    BY DEF PoolInv, Roles
  <2>2. /\ \A u \in Thread : Pushing(u)' <=> Pushing(u)
        /\ \A u \in Thread \ {t} : fl_pc'[u] = fl_pc[u] /\ fl_n'[u] = fl_n[u] /\ fl_h'[u] = fl_h[u]
        /\ fl_pc'[t] = "idle"
    BY <1>0, <1>1, <2>1 DEF Take, PopCas, Return, Pushing, TypeOK, FreeListTypeOK
  <2>3. Roles'
    BY <2>1, <2>2 DEF PoolInv, Roles, Popping, Pushing
  <2>4. ASSUME ~aba' PROVE Partition' /\ PushLinked'
    <3>1. ~aba /\ Partition /\ PushLinked /\ PopCas(t)
      BY <1>1, <2>4 DEF PoolInv, Take, PopCas
    <3>2. /\ Linked'
          /\ \A n \in Record : InList(n)' <=> (InList(n) /\ n # fl_h[t])
      BY <3>1, <2>1, <2>4, <1>0, PopLinked DEF Partition
    <3>3. InPush' = InPush
      BY <2>1, <2>2 DEF InPush
    <3>4. out' = out \cup {fl_h[t]} /\ free_next' = free_next
      BY <1>1 DEF Take, PopCas
    <3>5. fl_h[t] \in Record /\ InList(fl_h[t])
      <4>1. fl_h[t] \in Record /\ free_head = fl_h[t]
        BY <3>1, <2>1, <1>0 DEF PopCas, TypeOK, FreeListTypeOK, FreePtr, Popping
      <4>2. free_stack # <<>> /\ free_stack \in Seq(Record) /\ free_stack[1] = fl_h[t]
        BY <4>1, <3>1, <1>0, LogRecordAssumption DEF Linked, Partition, TypeOK, FreeListTypeOK
      <4>3. 1 \in 1..Len(free_stack)
        BY <4>2
      <4> QED
        BY <4>1, <4>2, <4>3 DEF InList
    <3>6. PushLinked'
      BY <3>1, <3>4, <2>1, <2>2 DEF PushLinked
    <3>7. \A u, v \in Thread :
             (Pushing(u)' /\ Pushing(v)' /\ fl_n'[u] = fl_n'[v]) => u = v
      BY <3>1, <2>1, <2>2 DEF Partition
    <3> QED
      BY <3>1, <3>2, <3>3, <3>4, <3>5, <3>6, <3>7 DEF Partition
  <2> QED
    BY <1>0, <2>3, <2>4 DEF PoolInv
<1>2. ASSUME NEW t \in Popper, Try(t) PROVE PoolInv'
  <2> USE RecordPoolAssumption
  <2>1. t \in Thread /\ ~Pushing(t) /\ t \notin Pusher
    BY DEF PoolInv, Roles
  <2>2. /\ UNCHANGED <<free_head, free_next, free_stack, aba, out>>
        /\ \A u \in Thread \ {t} : fl_pc'[u] = fl_pc[u] /\ fl_h'[u] = fl_h[u]
        /\ ~Pushing(t)'
        /\ fl_pc'[t] # "push_cas"
    <3>1. fl_pc \in [Thread -> FlPc] /\ fl_h \in [Thread -> FreePtr]
      BY <1>0 DEF TypeOK, FreeListTypeOK
    <3> USE <3>1, <2>1 DEF Pushing
    <3>2. CASE PopLoad(t) /\ UNCHANGED out
      BY <3>2 DEF PopLoad
    <3>3. CASE PopLoadNull(t) /\ UNCHANGED out
      BY <3>3 DEF PopLoadNull, flVars
    <3>4. CASE PopRead(t) /\ UNCHANGED out
      BY <3>4 DEF PopRead
    <3>5. CASE PopRetry(t) /\ UNCHANGED out
      BY <3>5 DEF PopRetry
    <3>6. CASE PopRetryNull(t) /\ UNCHANGED out
      BY <3>6 DEF PopRetryNull, Return
    <3> QED
      BY <1>2, <3>2, <3>3, <3>4, <3>5, <3>6 DEF Try, PopStep
  <2>3. \A u \in Thread \ {t} : fl_n'[u] = fl_n[u]
    BY <1>2, <1>0 DEF Try, PopStep, PopLoad, PopLoadNull, flVars, PopRead,
       PopRetry, PopRetryNull, Return, TypeOK, FreeListTypeOK
  <2>4. Roles'
    BY <2>1, <2>2 DEF PoolInv, Roles, Popping, Pushing
  <2>5. ASSUME ~aba' PROVE Partition' /\ PushLinked'
    <3>1. ~aba /\ Partition /\ PushLinked
      BY <2>2, <2>5 DEF PoolInv
    <3>2. \A u \in Thread : Pushing(u)' <=> Pushing(u)
      BY <2>1, <2>2 DEF Pushing
    <3>3. InPush' = InPush
      BY <2>1, <2>3, <3>2 DEF InPush
    <3>4. Linked' /\ \A n \in Record : InList(n)' <=> InList(n)
      BY <2>2, <3>1 DEF Linked, InList, Partition
    <3>5. PushLinked'
      BY <3>1, <2>2, <2>3 DEF PushLinked
    <3>6. \A u, v \in Thread :
             (Pushing(u)' /\ Pushing(v)' /\ fl_n'[u] = fl_n'[v]) => u = v
      BY <3>1, <3>2, <2>1, <2>3 DEF Partition
    <3> QED
      BY <3>1, <3>3, <3>4, <3>5, <3>6, <2>2 DEF Partition
  <2> QED
    BY <1>0, <2>4, <2>5 DEF PoolInv
<1>3. ASSUME NEW t \in Pusher, Give(t) PROVE PoolInv'
  <2> USE RecordPoolAssumption
  <2>1. t \in Thread /\ ~Popping(t) /\ t \notin Popper
    BY DEF PoolInv, Roles
  <2>2. PICK n \in out : PushLoad(t, n) /\ out' = out \ {n}
    BY <1>3 DEF Give
  <2>3. /\ UNCHANGED <<free_head, free_next, free_stack, aba>>
        /\ \A u \in Thread \ {t} : /\ fl_pc'[u] = fl_pc[u] /\ fl_h'[u] = fl_h[u]
                                   /\ fl_n'[u] = fl_n[u]
        /\ fl_pc[t] = "idle" /\ fl_pc'[t] = "push_link" /\ fl_n'[t] = n
    BY <2>1, <2>2, <1>0 DEF PushLoad, TypeOK, FreeListTypeOK
  <2>4. Roles'
    BY <2>1, <2>3 DEF PoolInv, Roles, Popping, Pushing
  <2>5. ASSUME ~aba' PROVE Partition' /\ PushLinked'
    <3>1. ~aba /\ Partition /\ PushLinked
      BY <2>3, <2>5 DEF PoolInv
    <3>2. ~Pushing(t) /\ Pushing(t)' /\ \A u \in Thread \ {t} : Pushing(u)' <=> Pushing(u)
      BY <2>3 DEF Pushing
    <3>3. InPush' = InPush \cup {n}
      BY <2>1, <2>3, <3>2 DEF InPush
    <3>4. Linked' /\ \A m \in Record : InList(m)' <=> InList(m)
      BY <2>3, <3>1 DEF Linked, InList, Partition
    <3>5. PushLinked'
      BY <3>1, <2>3 DEF PushLinked
    <3>6. \A u, v \in Thread :
             (Pushing(u)' /\ Pushing(v)' /\ fl_n'[u] = fl_n'[v]) => u = v
      BY <3>1, <3>2, <2>1, <2>2, <2>3 DEF Partition, InPush
    <3> QED
      BY <3>1, <3>3, <3>4, <3>5, <3>6, <2>2 DEF Partition
  <2> QED
    BY <1>0, <2>4, <2>5 DEF PoolInv
<1>4. ASSUME NEW t \in Pusher, PushStep(t), UNCHANGED out PROVE PoolInv'
  <2> USE RecordPoolAssumption
  <2>1. t \in Thread /\ ~Popping(t) /\ t \notin Popper
    BY DEF PoolInv, Roles
  <2>2. /\ UNCHANGED <<free_head, free_stack, aba, fl_n, out>>
        /\ \A u \in Thread \ {t} : fl_pc'[u] = fl_pc[u] /\ fl_h'[u] = fl_h[u]
        /\ Pushing(t) /\ Pushing(t)'
    BY <1>4, <2>1, <1>0 DEF PushStep, PushLink, PushRetry, Pushing, TypeOK, FreeListTypeOK
  <2>3. Roles'
    BY <2>1, <2>2 DEF PoolInv, Roles, Popping, Pushing
  <2>4. \A u \in Thread : Pushing(u)' <=> Pushing(u)
    BY <2>2 DEF Pushing
  <2>5. InPush' = InPush
    BY <2>2, <2>4 DEF InPush
  <2>6. ASSUME ~aba' PROVE Partition' /\ PushLinked'
    <3>1. ~aba /\ Partition /\ PushLinked
      BY <2>2, <2>6 DEF PoolInv
    <3>2. fl_n[t] \in Record /\ ~InList(fl_n[t])
      BY <3>1, <2>1, <2>2, <1>0
         DEF Partition, InPush, TypeOK, FreeListTypeOK, FreePtr
    <3>3. \A r \in Record : r # fl_n[t] => free_next'[r] = free_next[r]
      BY <1>4, <1>0 DEF PushStep, PushLink, PushRetry, TypeOK, FreeListTypeOK
    <3>4. \A i \in 1..Len(free_stack) : free_next'[free_stack[i]] = free_next[free_stack[i]]
      <4> TAKE i \in 1..Len(free_stack)
      <4>1. free_stack[i] \in Record /\ free_stack[i] # fl_n[t]
        BY <3>2, <1>0 DEF InList, TypeOK, FreeListTypeOK
      <4> QED
        BY <4>1, <3>3
    <3>5. Linked' /\ \A m \in Record : InList(m)' <=> InList(m)
      BY <3>1, <3>4, <2>2 DEF Linked, InList, Partition
    <3>6. PushLinked'
      <4> SUFFICES ASSUME NEW u \in Thread, fl_pc'[u] = "push_cas"
                   PROVE free_next'[fl_n[u]] = fl_h'[u]
        BY <2>2 DEF PushLinked
      <4>1. CASE u = t
        BY <4>1, <1>4, <2>1, <3>2, <1>0
           DEF PushStep, PushLink, PushRetry, TypeOK, FreeListTypeOK
      <4>2. CASE u # t
        <5>1. fl_pc[u] = "push_cas" /\ fl_h'[u] = fl_h[u] /\ Pushing(u)
          BY <4>2, <2>2 DEF Pushing
        <5>2. fl_n[u] # fl_n[t] /\ fl_n[u] \in Record
          BY <5>1, <4>2, <3>1, <2>1, <2>2, <1>0
             DEF Partition, TypeOK, FreeListTypeOK, FreePtr
        <5> QED
          BY <5>1, <5>2, <3>1, <3>3 DEF PushLinked
      <4> QED
        BY <4>1, <4>2
    <3> QED
      BY <3>1, <3>5, <3>6, <2>2, <2>4, <2>5 DEF Partition
  <2> QED
    BY <1>0, <2>3, <2>6 DEF PoolInv
<1>5. ASSUME NEW t \in Pusher, PushCas(t), UNCHANGED out PROVE PoolInv'
  <2> USE RecordPoolAssumption
  <2>1. t \in Thread /\ ~Popping(t) /\ t \notin Popper
    BY DEF PoolInv, Roles
  <2>2. /\ UNCHANGED <<free_next, aba, out>>
        /\ \A u \in Thread \ {t} : /\ fl_pc'[u] = fl_pc[u] /\ fl_h'[u] = fl_h[u]
                                   /\ fl_n'[u] = fl_n[u]
        /\ fl_pc[t] = "push_cas" /\ fl_pc'[t] = "idle"
    BY <1>5, <2>1, <1>0 DEF PushCas, Return, TypeOK, FreeListTypeOK
  <2>3. Roles'
    BY <2>1, <2>2 DEF PoolInv, Roles, Popping, Pushing
  <2>4. Pushing(t) /\ ~Pushing(t)' /\ \A u \in Thread \ {t} : Pushing(u)' <=> Pushing(u)
    BY <2>2 DEF Pushing
  <2>5. ASSUME ~aba' PROVE Partition' /\ PushLinked'
    <3>1. ~aba /\ Partition /\ PushLinked
      BY <2>2, <2>5 DEF PoolInv
    <3>2. fl_n[t] \in Record /\ ~InList(fl_n[t]) /\ fl_n[t] \notin out
      BY <3>1, <2>1, <2>4, <1>0
         DEF Partition, InPush, TypeOK, FreeListTypeOK, FreePtr
    <3>3. /\ Linked'
          /\ \A n \in Record : InList(n)' <=> (InList(n) \/ n = fl_n[t])
      BY <3>1, <3>2, <2>1, <2>2, <1>0, <1>5, PushLinkedStep DEF Partition, PushLinked
    <3>4. InPush' = InPush \ {fl_n[t]}
      BY <3>1, <2>1, <2>2, <2>4 DEF InPush, Partition
    <3>5. PushLinked'
      BY <3>1, <2>2 DEF PushLinked
    <3>6. \A u, v \in Thread :
             (Pushing(u)' /\ Pushing(v)' /\ fl_n'[u] = fl_n'[v]) => u = v
      BY <3>1, <2>2, <2>4 DEF Partition
    <3> QED
      BY <3>1, <3>2, <3>3, <3>4, <3>5, <3>6, <2>2 DEF Partition
  <2> QED
    BY <1>0, <2>3, <2>5 DEF PoolInv
<1>6. CASE UNCHANGED vars
  BY <1>6, <1>0 DEF vars, PoolInv, Roles, Popping, Pushing, Partition, Linked, InList,
     InPush, PushLinked
<1> QED
  BY <1>1, <1>2, <1>3, <1>4, <1>5, <1>6 DEF Next, Giving

\* A new pool is sound.
LEMMA PoolInit == Init => PoolInv
<1> SUFFICES ASSUME Init PROVE PoolInv
  OBVIOUS
<1> USE DEF Init, FreeListInit
<1>1. TypeOK
  <2>1. \A t \in Thread : ~Popping(t) /\ ~Pushing(t)
    BY DEF Popping, Pushing
  <2>2. free_stack \in Seq(Record)
    OBVIOUS
  <2> QED
    BY <2>1, <2>2 DEF TypeOK, FreeListTypeOK, FreePtr, FlPc
<1>2. Roles
  BY RecordPoolAssumption DEF Roles, Popping, Pushing
<1>3. \A t \in Thread : ~Pushing(t)
  BY DEF Pushing
<1>4. Len(free_stack) = 0
  OBVIOUS
<1>5. Partition
  BY <1>3, <1>4 DEF Partition, Linked, InList, InPush
<1>6. PushLinked
  BY DEF PushLinked
<1> QED
  BY <1>1, <1>2, <1>5, <1>6 DEF PoolInv

\* Until a stale CAS of try_pop succeeds, a record is in the list, out, or in
\* one push, and the links of lockfree_queue.hpp spell the list.
THEOREM PoolSound == Spec => []SoundUntilAba
<1>1. PoolInv => SoundUntilAba
  BY DEF PoolInv, SoundUntilAba
<1> QED
  BY <1>1, PoolInit, PoolStep, PTL DEF Spec

-----------------------------------------------------------------------------
(* One popper *)

SinglePopper == \A p, q \in Popper : p = q

\* What the popper read of the head is still so.
PopperKnows ==
    \A t \in Popper :
        Popping(t) => /\ InList(fl_h[t])
                      /\ fl_pc[t] = "pop_cas" => fl_next[t] = free_next[fl_h[t]]

SingleInv ==
    /\ PoolInv
    /\ ~aba
    /\ PopperKnows

\* The head of a list that is not empty is in the list.
LEMMA HeadInList ==
    ASSUME TypeOK, Linked, free_head # NULL
    PROVE  free_stack # <<>> /\ free_head = free_stack[1] /\ InList(free_head)
<1>1. free_stack # <<>> /\ free_head = free_stack[1] /\ free_stack \in Seq(Record)
  BY DEF Linked, TypeOK, FreeListTypeOK
<1>2. 1 \in 1..Len(free_stack)
  BY <1>1
<1> QED
  BY <1>1, <1>2 DEF InList

\* With one popper every step keeps the invariant: none is an ABA.
LEMMA SingleStep ==
    ASSUME SinglePopper, SingleInv, [Next]_vars
    PROVE  SingleInv'
<1> USE RecordPoolAssumption
<1>0. PoolInv' /\ TypeOK /\ TypeOK' /\ Partition /\ Linked /\ ~aba
  BY PoolStep, TypeStep DEF SingleInv, PoolInv, Partition
<1>1. ASSUME NEW t \in Popper, Take(t) PROVE SingleInv'
  <2>1. ~aba'
    BY <1>1 DEF SingleInv, PopperKnows, Popping, Take, PopCas, StaleNext
  <2>2. \A u \in Popper : ~Popping(u)'
    BY <1>1, <1>0 DEF SinglePopper, Take, PopCas, Return, Popping, TypeOK, FreeListTypeOK
  <2> QED
    BY <1>0, <2>1, <2>2 DEF SingleInv, PopperKnows
<1>2. ASSUME NEW t \in Popper, Try(t) PROVE SingleInv'
  <2>1. UNCHANGED <<free_head, free_next, free_stack, aba>>
    BY <1>2 DEF Try, PopStep, PopLoad, PopLoadNull, flVars, PopRead, PopRetry, PopRetryNull
  <2>2. \A n : InList(n)' <=> InList(n)
    BY <2>1 DEF InList
  <2>3. SUFFICES ASSUME Popping(t)'
                 PROVE  /\ InList(fl_h'[t])
                        /\ fl_pc'[t] = "pop_cas" => fl_next'[t] = free_next[fl_h'[t]]
    BY <1>0, <2>1, <2>2 DEF SingleInv, PopperKnows, SinglePopper
  <2> USE DEF TypeOK, FreeListTypeOK
  <2>4. CASE PopLoad(t)
    BY <2>4, <1>0, HeadInList DEF PopLoad
  <2>5. CASE PopLoadNull(t)
    BY <2>5, <2>3 DEF PopLoadNull, flVars, Popping
  <2>6. CASE PopRead(t)
    BY <2>6, <1>0 DEF PopRead, SingleInv, PopperKnows, Popping
  <2>7. CASE PopRetry(t)
    BY <2>7, <1>0, HeadInList DEF PopRetry
  <2>8. CASE PopRetryNull(t)
    BY <2>8, <2>3, <1>0 DEF PopRetryNull, Return, Popping
  <2> QED
    BY <1>2, <2>4, <2>5, <2>6, <2>7, <2>8 DEF Try, PopStep
<1>3. ASSUME NEW t \in Pusher, Give(t) PROVE SingleInv'
  <2>1. /\ UNCHANGED <<free_head, free_next, free_stack, aba, fl_next>>
        /\ \A u \in Popper : fl_pc'[u] = fl_pc[u] /\ fl_h'[u] = fl_h[u]
    BY <1>3, <1>0 DEF Give, PushLoad, TypeOK, FreeListTypeOK
  <2> QED
    BY <1>0, <2>1 DEF SingleInv, PopperKnows, Popping, InList
<1>4. ASSUME NEW t \in Pusher, PushStep(t), UNCHANGED out PROVE SingleInv'
  <2>1. /\ UNCHANGED <<free_head, free_stack, aba, fl_next>>
        /\ \A u \in Popper : fl_pc'[u] = fl_pc[u] /\ fl_h'[u] = fl_h[u]
        /\ Pushing(t)
    BY <1>4, <1>0 DEF PushStep, PushLink, PushRetry, Pushing, TypeOK, FreeListTypeOK
  <2>2. fl_n[t] \in Record /\ ~InList(fl_n[t])
    BY <1>0, <2>1 DEF Partition, InPush, TypeOK, FreeListTypeOK, FreePtr
  <2>3. \A r \in Record : r # fl_n[t] => free_next'[r] = free_next[r]
    BY <1>4, <1>0 DEF PushStep, PushLink, PushRetry, TypeOK, FreeListTypeOK
  <2>4. \A n : InList(n)' <=> InList(n)
    BY <2>1 DEF InList
  <2>5. \A u \in Popper : Popping(u) => fl_h[u] \in Record
    BY <1>0 DEF TypeOK, FreeListTypeOK, FreePtr
  <2> QED
    BY <1>0, <2>1, <2>2, <2>3, <2>4, <2>5 DEF SingleInv, PopperKnows, Popping
<1>5. ASSUME NEW t \in Pusher, PushCas(t), UNCHANGED out PROVE SingleInv'
  <2>1. /\ UNCHANGED <<free_next, aba>>
        /\ \A u \in Popper : /\ fl_pc'[u] = fl_pc[u] /\ fl_h'[u] = fl_h[u]
                             /\ fl_next'[u] = fl_next[u]
        /\ Pushing(t) /\ fl_pc[t] = "push_cas"
    <3>1. t \notin Popper
      BY DEF SingleInv, PoolInv, Roles
    <3> QED
      BY <1>5, <1>0, <3>1 DEF PushCas, Return, Pushing, TypeOK, FreeListTypeOK
  <2>2. ~InList(fl_n[t]) /\ fl_n[t] \in Record
    BY <1>0, <2>1 DEF Partition, InPush, TypeOK, FreeListTypeOK, FreePtr
  <2>3. \A n \in Record : InList(n)' <=> (InList(n) \/ n = fl_n[t])
    BY <1>0, <1>5, <2>1, <2>2, PushLinkedStep DEF SingleInv, PoolInv, PushLinked
  <2>4. \A u \in Popper : Popping(u) => fl_h[u] \in Record
    BY <1>0 DEF TypeOK, FreeListTypeOK, FreePtr
  <2> QED
    BY <1>0, <2>1, <2>3, <2>4 DEF SingleInv, PopperKnows, Popping
<1>6. CASE UNCHANGED vars
  BY <1>0, <1>6 DEF vars, SingleInv, PopperKnows, Popping, InList
<1> QED
  BY <1>1, <1>2, <1>3, <1>4, <1>5, <1>6 DEF Next, Giving

\* At the beginning nobody pops.
LEMMA SingleInit == Init => SingleInv
<1> SUFFICES ASSUME Init PROVE SingleInv
  OBVIOUS
<1>1. \A t \in Thread : ~Popping(t)
  BY DEF Init, FreeListInit, Popping
<1> QED
  BY <1>1, PoolInit, RecordPoolAssumption DEF SingleInv, PopperKnows, Init, FreeListInit

\* A program with one producer thread is free of the ABA hazard that the
\* comment on FreeList accepts, however large the pool.
THEOREM NoAbaWithOnePopper == ASSUME SinglePopper PROVE Spec => []NoAba
<1>1. SingleInv /\ [Next]_vars => SingleInv'
  BY SingleStep
<1>2. SingleInv => NoAba
  BY DEF SingleInv, NoAba
<1> QED
  BY <1>1, <1>2, SingleInit, PTL DEF Spec

\* With one producer thread try_pop() never hands out a record that is still
\* in use.
THEOREM NoDoubleHandoutWithOnePopper ==
    ASSUME SinglePopper PROVE Spec => NoDoubleHandout
<1>1. SingleInv /\ [Next]_vars => SingleInv'
  BY SingleStep
<1>2. SingleInv =>
        [\A t \in Popper : Take(t) => fl_h[t] \notin out \cup InPush]_vars
  <2> SUFFICES ASSUME SingleInv, NEW t \in Popper, Take(t)
               PROVE fl_h[t] \notin out \cup InPush
    OBVIOUS
  <2>1. InList(fl_h[t]) /\ fl_h[t] \in Record
    BY RecordPoolAssumption DEF SingleInv, PopperKnows, PoolInv, TypeOK,
       FreeListTypeOK, FreePtr, Take, PopCas, Popping
  <2> QED
    BY <2>1 DEF SingleInv, PoolInv, Partition
<1> QED
  BY <1>1, <1>2, SingleInit, PTL DEF Spec, NoDoubleHandout

\* With one producer thread FreeList implements the abstract pool.
THEOREM RefinesFreePool == ASSUME SinglePopper PROVE Spec => ImplementsPool
<1> USE RecordPoolAssumption
<1>1. SingleInv /\ [Next]_vars => SingleInv'
  BY SingleStep
<1>2. Init => Pool!Init
  BY DEF Init, FreeListInit, Pool!Init, InPush, Pushing
<1>3. ASSUME SingleInv, [Next]_vars
      PROVE  [Pool!Next]_<<free_stack, out \cup InPush>>
  <2>0. TypeOK /\ Partition /\ Linked /\ ~aba
    BY <1>3 DEF SingleInv, PoolInv, Partition
  <2>1. ASSUME NEW t \in Popper, Take(t) PROVE Pool!Get
    <3>1. t \in Thread /\ PopCas(t) /\ fl_next[t] = free_next[fl_h[t]]
      BY <1>3, <2>1 DEF SingleInv, PopperKnows, Popping, Take, PopCas
    <3>2. fl_h[t] # NULL /\ free_head = fl_h[t]
      BY <2>0, <3>1 DEF TypeOK, FreeListTypeOK, Popping, PopCas
    <3>3. free_stack # <<>> /\ fl_h[t] = free_stack[1] /\ InList(fl_h[t])
      BY <2>0, <3>2, HeadInList
    <3>4. free_stack' = Tail(free_stack) /\ Head(free_stack) = fl_h[t]
      BY <2>0, <3>1, <3>3 DEF PopCas, StaleNext, TypeOK, FreeListTypeOK
    <3>5. InPush' = InPush
      <4>1. \A u \in Thread : Pushing(u)' <=> Pushing(u)
        BY <2>0, <3>1 DEF PopCas, Return, Pushing, TypeOK, FreeListTypeOK
      <4>2. \A u \in Thread : Pushing(u) => fl_n'[u] = fl_n[u]
        BY <2>0, <3>1 DEF PopCas, Return, Pushing, TypeOK, FreeListTypeOK
      <4> QED
        BY <4>1, <4>2 DEF InPush
    <3>6. fl_h[t] \notin out \cup InPush
      BY <2>0, <3>1, <3>2, <3>3 DEF Partition, TypeOK, FreeListTypeOK, FreePtr
    <3> QED
      BY <2>1, <3>3, <3>4, <3>5, <3>6 DEF Take, Pool!Get
  <2>2. ASSUME NEW t \in Popper, Try(t)
        PROVE  UNCHANGED <<free_stack, out \cup InPush>>
    <3>1. UNCHANGED <<free_stack, out>>
      BY <2>2 DEF Try, PopStep, PopLoad, PopLoadNull, flVars, PopRead,
         PopRetry, PopRetryNull
    <3>2. \A u \in Thread : Pushing(u)' <=> Pushing(u)
      <4>1. ~Pushing(t) /\ t \in Thread
        BY <1>3 DEF SingleInv, PoolInv, Roles
      <4> QED
        BY <4>1, <2>0, <2>2 DEF Try, PopStep, PopLoad, PopLoadNull, flVars, PopRead,
           PopRetry, PopRetryNull, Return, Pushing, TypeOK, FreeListTypeOK
    <3>3. \A u \in Thread : Pushing(u) => fl_n'[u] = fl_n[u]
      <4>1. ~Pushing(t) /\ t \in Thread
        BY <1>3 DEF SingleInv, PoolInv, Roles
      <4> QED
        BY <4>1, <2>0, <2>2 DEF Try, PopStep, PopLoad, PopLoadNull, flVars, PopRead,
           PopRetry, PopRetryNull, Return, TypeOK, FreeListTypeOK
    <3>4. InPush' = InPush
      BY <3>2, <3>3 DEF InPush
    <3> QED
      BY <3>1, <3>4
  <2>3. ASSUME NEW t \in Pusher, Give(t)
        PROVE  UNCHANGED <<free_stack, out \cup InPush>>
    <3>1. PICK n \in out : PushLoad(t, n) /\ out' = out \ {n}
      BY <2>3 DEF Give
    <3>2. /\ free_stack' = free_stack /\ t \in Thread
          /\ ~Pushing(t) /\ Pushing(t)' /\ fl_n'[t] = n
          /\ \A u \in Thread \ {t} : fl_n'[u] = fl_n[u] /\ (Pushing(u)' <=> Pushing(u))
      BY <3>1, <2>0 DEF PushLoad, Pushing, TypeOK, FreeListTypeOK
    <3>3. InPush' = InPush \cup {n}
      BY <3>2 DEF InPush
    <3> QED
      BY <3>1, <3>2, <3>3
  <2>4. ASSUME NEW t \in Pusher, PushStep(t), UNCHANGED out
        PROVE  UNCHANGED <<free_stack, out \cup InPush>>
    <3>1. UNCHANGED <<free_stack, fl_n>> /\ \A u \in Thread : Pushing(u)' <=> Pushing(u)
      BY <2>4, <2>0 DEF PushStep, PushLink, PushRetry, Pushing, TypeOK, FreeListTypeOK
    <3> QED
      BY <2>4, <3>1 DEF InPush
  <2>5. ASSUME NEW t \in Pusher, PushCas(t), UNCHANGED out PROVE Pool!Put
    <3>1. /\ t \in Thread /\ Pushing(t) /\ ~Pushing(t)'
          /\ \A u \in Thread \ {t} : fl_n'[u] = fl_n[u] /\ (Pushing(u)' <=> Pushing(u))
          /\ free_stack' = <<fl_n[t]>> \o free_stack
      BY <2>0, <2>5 DEF PushCas, Return, Pushing, TypeOK, FreeListTypeOK
    <3>2. fl_n[t] \in InPush /\ fl_n[t] \notin out
      BY <3>1, <2>0 DEF InPush, Partition
    <3>3. InPush' = InPush \ {fl_n[t]}
      BY <3>1, <2>0 DEF InPush, Partition
    <3> QED
      BY <2>5, <3>1, <3>2, <3>3 DEF Pool!Put
  <2>6. CASE UNCHANGED vars
    BY <2>6 DEF vars, InPush, Pushing
  <2> QED
    BY <1>3, <2>1, <2>2, <2>3, <2>4, <2>5, <2>6 DEF Next, Giving, Pool!Next
<1> QED
  BY <1>1, <1>2, <1>3, SingleInit, PTL DEF Spec, ImplementsPool, Pool!Spec
=============================================================================
