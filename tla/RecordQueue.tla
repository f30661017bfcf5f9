----------------------------- MODULE RecordQueue -----------------------------
(***************************************************************************)
(* The queue as the engine uses it (LogEngine::enqueue on one side and     *)
(* LogEngine::worker_loop on the other), with the free list folded into a  *)
(* set.  What this module is about: the node popped last stays the queue's *)
(* dummy, so the worker gives a record back only after the next pop        *)
(* (pending_recycle), and before it gives the very last one back it resets *)
(* the queue to its stub.                                                  *)
(*                                                                         *)
(* The shutdown is quiet here: the worker leaves its loop when no producer *)
(* is inside push() and none enters until the queue is reset.  LogEngine   *)
(* has the other case.                                                     *)
(***************************************************************************)
EXTENDS MpscQueue

VARIABLES
    free,               \* the records on the free list
    pending_recycle,    \* worker_loop's local
    phase               \* where worker_loop is

vars == <<tail_, head_, next, q_pc, q_n, q_prev, c_pc, fifo,
          free, pending_recycle, phase>>

Init ==
    /\ MpscQueueInit
    /\ free = Record
    /\ pending_recycle = NULL
    /\ phase = "loop"

TypeOK ==
    /\ MpscQueueTypeOK
    /\ free \subseteq Record
    /\ pending_recycle \in FreePtr
    /\ phase \in {"loop", "body", "drain", "reset", "recycle"}

-----------------------------------------------------------------------------
(* Producers *)

\* acquire_record and the first step of push_to_queue.
Acquire(t) ==
    /\ phase \in {"loop", "body"}
    /\ \E n \in free :
          /\ QClear(t, n)
          /\ free' = free \ {n}
    /\ UNCHANGED <<pending_recycle, phase>>

Exchange(t) == QSwap(t) /\ UNCHANGED <<free, pending_recycle, phase>>
Link(t)     == QLink(t) /\ UNCHANGED <<free, pending_recycle, phase>>

-----------------------------------------------------------------------------
(* The worker *)

\* The condition of the loop, run_ || !queue_.empty(): with run_ set the
\* body is entered at once, otherwise empty() decides.
Enter ==
    /\ phase = "loop"
    /\ c_pc = "idle"
    /\ phase' = "body"
    /\ UNCHANGED <<queueVars, free, pending_recycle>>

AskEmpty ==
    /\ phase = "loop"
    /\ \/ /\ QEmptyNo \/ QEmptyBusy
          /\ phase' = "body"
       \/ /\ QEmptyMiss
          /\ UNCHANGED phase
       \/ /\ QEmptyYes
          /\ \A t \in Thread : ~Enqueuing(t)    \* quiet
          /\ phase' = "drain"
    /\ UNCHANGED <<free, pending_recycle>>

\* Mutation of PopSome: the popped record is recycled at once.
PopSomeAndRecycle ==
    /\ phase \in {"body", "drain"}
    /\ QPop \/ QPopSpun
    /\ free' = free \cup {NextOfHead}
    /\ pending_recycle' = NextOfHead
    /\ phase' = IF phase = "body" THEN "loop" ELSE "drain"

\* A pop that returns a node: the one popped before it is recycled, and the
\* new one is kept back.
PopSome ==
    /\ phase \in {"body", "drain"}
    /\ QPop \/ QPopSpun
    /\ free' = free \cup ({pending_recycle} \ {NULL})
    /\ pending_recycle' = NextOfHead
    /\ phase' = IF phase = "body" THEN "loop" ELSE "drain"

\* A pop that has not found a node yet, or returns nullptr.
PopNone ==
    /\ phase \in {"body", "drain"}
    /\ \/ QPopMiss /\ UNCHANGED phase
       \/ QPopBusy /\ UNCHANGED phase
       \/ QPopEmpty /\ phase' = IF phase = "body" THEN "loop" ELSE "reset"
    /\ UNCHANGED <<free, pending_recycle>>

Reset ==
    /\ phase = "reset"
    /\ \/ QResetStub /\ UNCHANGED phase
       \/ QResetTail /\ phase' = "recycle"
    /\ UNCHANGED <<free, pending_recycle>>

\* The last record goes back and the worker ends; the next one starts with
\* the queue as it was left.
Recycle ==
    /\ phase = "recycle"
    /\ free' = free \cup ({pending_recycle} \ {NULL})
    /\ pending_recycle' = NULL
    /\ phase' = "loop"
    /\ UNCHANGED queueVars

Producer(t) == Acquire(t) \/ Exchange(t) \/ Link(t)
Worker == Enter \/ AskEmpty \/ PopSome \/ PopNone \/ Reset \/ Recycle

Next == Worker \/ \E t \in Thread : Producer(t)

Spec == Init /\ [][Next]_vars

\* Threads are scheduled: a started push goes on, and so does the worker.
FairSpec ==
    /\ Spec
    /\ WF_vars(Worker)
    /\ \A t \in Thread : WF_vars(Exchange(t) \/ Link(t))

-----------------------------------------------------------------------------
\* Records that a producer owns: acquired and not exchanged in.
Owned == {q_n[t] : t \in {u \in Thread : q_pc[u] = "swap"}}

\* A record is on the free list, owned by one producer, waiting in the
\* queue, or kept back by the worker, and nowhere else.
Separate ==
    /\ \A n \in Record : \/ n \in free \/ n \in Owned \/ InQueue(n)
                         \/ n = pending_recycle
    /\ \A n \in free : n \notin Owned /\ ~InQueue(n) /\ n # pending_recycle
    /\ \A n \in Owned : ~InQueue(n) /\ n # pending_recycle
    /\ \A t, u \in Thread :
          (q_pc[t] = "swap" /\ q_pc[u] = "swap" /\ q_n[t] = q_n[u]) => t = u
    /\ ~InQueue(pending_recycle)

\* The shape of the queue, except in the middle of reset().
QueueSound == c_pc # "reset_tail" => Chained

\* The dummy is never on the free list: a producer that acquired it would
\* clear the link the consumer depends on, or link it behind itself.
DummyNotFree == head_ \notin free

\* pop() returns records in the order of the exchanges of their pushes.
PopInOrder == [][PopSome => fifo # <<>> /\ NextOfHead = Head(fifo)]_vars

\* pop() answers nullptr, and empty() true, only on an empty queue, and
\* reset() throws nothing away.
NothingDiscarded ==
    [][QPopEmpty \/ QEmptyYes \/ QResetTail => fifo = <<>>]_vars

\* The consumer spins only while a producer is between exchange and store.
SpinsForAProducer ==
    (c_pc = "pop_spin" /\ NextOfHead = NULL) =>
        \E t \in Thread : q_pc[t] = "link" /\ q_prev[t] = head_

\* Every push that took effect is popped, though pop() may have to wait for
\* the producer that lost the processor in the middle of push().
EveryPushPopped == \A n \in Record : InQueue(n) ~> ~InQueue(n)
=============================================================================
