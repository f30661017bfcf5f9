------------------------------ MODULE MpscQueue ------------------------------
(***************************************************************************)
(* MpscQueue of core/lockfree_queue.hpp: an intrusive queue of any number  *)
(* of producers and one consumer.  head_ points to a dummy, the node popped *)
(* last (stub_ at first); the queue's content hangs off it.  One action    *)
(* per access to shared memory; head_ is the consumer's own.               *)
(*                                                                         *)
(* push(n):  QClear, QSwap, QLink.  Between QSwap and QLink the node is in *)
(*           the queue but cannot be reached from the dummy.               *)
(* pop():    QPop; or QPopMiss and then QPopEmpty (returns nullptr) or     *)
(*           QPopBusy and QPopSpun.                                        *)
(* empty():  QEmptyNo; or QEmptyMiss and then QEmptyYes or QEmptyBusy.     *)
(* reset():  QResetStub, QResetTail.                                       *)
(*                                                                         *)
(* The module has no Next: a client (RecordQueue, LogEngine) says who      *)
(* calls what and what becomes of the node NextOfHead that a pop returns.  *)
(***************************************************************************)
EXTENDS LogRecord, Integers, Sequences

VARIABLES
    tail_,      \* the node of the latest exchange
    head_,      \* the dummy
    next,       \* MpscNode::next of every node
    q_pc,       \* where each thread is inside push()
    q_n,        \* the argument n of push
    q_prev,     \* the local prev of push
    c_pc,       \* where the consumer is inside pop(), empty() or reset()
    fifo        \* history: nodes exchanged into tail_ and not popped, in order

queueVars == <<tail_, head_, next, q_pc, q_n, q_prev, c_pc, fifo>>

MpscQueueInit ==
    /\ tail_ = Stub
    /\ head_ = Stub
    /\ next = [n \in MpscNode |-> NULL]
    /\ q_pc = [t \in Thread |-> "idle"]
    /\ q_n = [t \in Thread |-> NULL]
    /\ q_prev = [t \in Thread |-> NULL]
    /\ c_pc = "idle"
    /\ fifo = <<>>

MpscQueueTypeOK ==
    /\ tail_ \in MpscNode
    /\ head_ \in MpscNode
    /\ next \in [MpscNode -> FreePtr]
    /\ q_pc \in [Thread -> {"idle", "swap", "link"}]
    /\ q_n \in [Thread -> FreePtr]
    /\ q_prev \in [Thread -> MpscPtr]
    /\ c_pc \in {"idle", "pop_tail", "pop_spin", "empty_tail", "reset_tail"}
    /\ fifo \in Seq(Record)

\* A push that is not linked yet, and one that is not even exchanged.
Enqueuing(t) == q_pc[t] # "idle"

-----------------------------------------------------------------------------
(* push, any producer *)

\* Mutation of QClear: the link of the record's last round is kept.
QKeepLink(t, n) ==
    /\ q_pc[t] = "idle"
    /\ q_n' = [q_n EXCEPT ![t] = n]
    /\ q_pc' = [q_pc EXCEPT ![t] = "swap"]
    /\ UNCHANGED <<tail_, head_, next, q_prev, c_pc, fifo>>

\* n->next.store(nullptr).
QClear(t, n) ==
    /\ q_pc[t] = "idle"
    /\ next' = [next EXCEPT ![n] = NULL]
    /\ q_n' = [q_n EXCEPT ![t] = n]
    /\ q_pc' = [q_pc EXCEPT ![t] = "swap"]
    /\ UNCHANGED <<tail_, head_, q_prev, c_pc, fifo>>

\* prev = tail_.exchange(n).
QSwap(t) ==
    /\ q_pc[t] = "swap"
    /\ q_prev' = [q_prev EXCEPT ![t] = tail_]
    /\ tail_' = q_n[t]
    /\ fifo' = Append(fifo, q_n[t])
    /\ q_pc' = [q_pc EXCEPT ![t] = "link"]
    /\ UNCHANGED <<head_, next, q_n, c_pc>>

\* Mutation of QLink: the store is missing.
QNoLink(t) ==
    /\ q_pc[t] = "link"
    /\ q_n' = [q_n EXCEPT ![t] = NULL]
    /\ q_prev' = [q_prev EXCEPT ![t] = NULL]
    /\ q_pc' = [q_pc EXCEPT ![t] = "idle"]
    /\ UNCHANGED <<tail_, head_, next, c_pc, fifo>>

\* prev->next.store(n).
QLink(t) ==
    /\ q_pc[t] = "link"
    /\ next' = [next EXCEPT ![q_prev[t]] = q_n[t]]
    /\ q_n' = [q_n EXCEPT ![t] = NULL]
    /\ q_prev' = [q_prev EXCEPT ![t] = NULL]
    /\ q_pc' = [q_pc EXCEPT ![t] = "idle"]
    /\ UNCHANGED <<tail_, head_, c_pc, fifo>>

-----------------------------------------------------------------------------
(* pop, the consumer only *)

NextOfHead == next[head_]

\* head_ = next; return next.
Advance ==
    /\ NextOfHead # NULL
    /\ head_' = NextOfHead
    /\ fifo' = IF fifo = <<>> THEN <<>> ELSE Tail(fifo)
    /\ c_pc' = "idle"
    /\ UNCHANGED <<tail_, next, q_pc, q_n, q_prev>>

\* The first load of head->next finds a node.
QPop == c_pc = "idle" /\ Advance

ConsumerGoes(from, to) ==
    /\ c_pc = from
    /\ c_pc' = to
    /\ UNCHANGED <<tail_, head_, next, q_pc, q_n, q_prev, fifo>>

\* It finds nullptr.
QPopMiss == NextOfHead = NULL /\ ConsumerGoes("idle", "pop_tail")

\* Mutation of QPopEmpty: nullptr is answered without a look at tail_.
QPopEmptyUnchecked == ConsumerGoes("pop_tail", "idle")

\* tail_ is the dummy: return nullptr.
QPopEmpty == tail_ = head_ /\ ConsumerGoes("pop_tail", "idle")

\* Mutation of QPopBusy: it spins without a look at tail_.
QPopBusyUnchecked == ConsumerGoes("pop_tail", "pop_spin")

\* tail_ has moved on: spin on head->next.
QPopBusy == tail_ # head_ /\ ConsumerGoes("pop_tail", "pop_spin")

\* The producer has published the link: the spin ends.
QPopSpun == c_pc = "pop_spin" /\ Advance

-----------------------------------------------------------------------------
(* empty and reset, the consumer only *)

\* empty(): head->next is not nullptr, return false.
QEmptyNo ==
    /\ NextOfHead # NULL
    /\ ConsumerGoes("idle", "idle")

\* It is nullptr: the answer depends on tail_.
QEmptyMiss == NextOfHead = NULL /\ ConsumerGoes("idle", "empty_tail")

QEmptyYes == tail_ = head_ /\ ConsumerGoes("empty_tail", "idle")

QEmptyBusy == tail_ # head_ /\ ConsumerGoes("empty_tail", "idle")

\* Mutation of QResetStub: the last record stays the dummy.
QResetStubOnly ==
    /\ c_pc = "idle"
    /\ next' = [next EXCEPT ![Stub] = NULL]
    /\ c_pc' = "reset_tail"
    /\ UNCHANGED <<tail_, head_, q_pc, q_n, q_prev, fifo>>

\* reset(): stub_.next = nullptr; head_ = &stub_.
QResetStub ==
    /\ c_pc = "idle"
    /\ next' = [next EXCEPT ![Stub] = NULL]
    /\ head_' = Stub
    /\ c_pc' = "reset_tail"
    /\ UNCHANGED <<tail_, q_pc, q_n, q_prev, fifo>>

\* reset(): tail_ = &stub_.  Whatever was pushed and not popped is gone.
QResetTail ==
    /\ c_pc = "reset_tail"
    /\ tail_' = Stub
    /\ fifo' = <<>>
    /\ c_pc' = "idle"
    /\ UNCHANGED <<head_, next, q_pc, q_n, q_prev>>

-----------------------------------------------------------------------------
(* What the pointers say, against the history *)

\* The dummy and the queue's content.
Chain == <<head_>> \o fifo

\* A producer that has exchanged n in and has yet to link it behind prev.
Unlinked(prev, n) ==
    \E t \in Thread : q_pc[t] = "link" /\ q_prev[t] = prev /\ q_n[t] = n

\* tail_ ends the chain; each node of it links to the one behind it, or the
\* push that will link them is still between its exchange and its store; no
\* node occurs twice.
Chained ==
    /\ tail_ = Chain[Len(Chain)]
    /\ next[tail_] = NULL
    /\ \A i \in 1..Len(fifo) :
          \/ /\ next[Chain[i]] = Chain[i + 1]
             /\ ~Unlinked(Chain[i], Chain[i + 1])
          \/ /\ next[Chain[i]] = NULL
             /\ Unlinked(Chain[i], Chain[i + 1])
    /\ \A i, j \in 1..Len(Chain) : Chain[i] = Chain[j] => i = j

InQueue(n) == \E i \in 1..Len(fifo) : fifo[i] = n
=============================================================================
