------------------------------ MODULE RecordPool ------------------------------
(***************************************************************************)
(* The free list as the engine uses it: the producers take records with    *)
(* try_pop() (LogEngine::acquire_record), the worker and the thread that   *)
(* fills the pool give them back with push() (LogEngine::worker_loop and   *)
(* init_pool_and_queue), all at the same time.  Everything a record does   *)
(* between the two calls is folded into the set out.                       *)
(***************************************************************************)
EXTENDS FreeList, FiniteSets

CONSTANTS
    Popper,     \* the threads that call try_pop
    Pusher      \* the threads that call push

ASSUME RecordPoolAssumption ==
    /\ Thread = Popper \cup Pusher
    /\ Popper \cap Pusher = {}

VARIABLE out    \* the records nobody has pushed since they were handed out

vars == <<free_head, free_next, fl_pc, fl_h, fl_next, fl_n, free_stack, aba, out>>

\* init_pool_and_queue pushes every record of a new pool.
Init ==
    /\ FreeListInit
    /\ out = Record

TypeOK ==
    /\ FreeListTypeOK
    /\ out \subseteq Record

\* A try_pop that returns a record.
Take(t) ==
    /\ PopCas(t)
    /\ out' = out \cup {fl_h[t]}

\* The accesses of a try_pop that return nothing yet, or nullptr.
Try(t) ==
    /\ \/ PopLoad(t)
       \/ PopLoadNull(t)
       \/ PopStep(t)
       \/ PopRetryNull(t)
    /\ UNCHANGED out

\* Mutation of Give: the pusher keeps the record it gives back.
GiveTwice(t) ==
    \E n \in out :
        /\ PushLoad(t, n)
        /\ UNCHANGED out

\* A call of push for a record that is out.
Give(t) ==
    \E n \in out :
        /\ PushLoad(t, n)
        /\ out' = out \ {n}

Giving(t) ==
    /\ \/ PushStep(t)
       \/ PushCas(t)
    /\ UNCHANGED out

Next ==
    \/ \E t \in Popper : Take(t) \/ Try(t)
    \/ \E t \in Pusher : Give(t) \/ Giving(t)

Spec == Init /\ [][Next]_vars

-----------------------------------------------------------------------------
\* The records named by a push() that has not taken effect.
InPush == {fl_n[t] : t \in {u \in Thread : Pushing(u)}}

\* The pointer reached from head_ after k links.
Walk[k \in Nat] ==
    IF k = 0 THEN free_head
    ELSE IF Walk[k - 1] = NULL THEN NULL ELSE free_next[Walk[k - 1]]

\* As long as no stale CAS succeeded: the pointers spell the history, and a
\* record is in exactly one of three places: in the list, out, or the
\* argument of one push() in progress.  This is what the comment on the
\* class (lockfree_queue.hpp:6-9) leaves to the absence of ABA.
Partition ==
    /\ Linked
    /\ out \cap InPush = {}
    /\ \A n \in Record : InList(n) <=> n \notin out \cup InPush
    /\ \A t, u \in Thread :
          (Pushing(t) /\ Pushing(u) /\ fl_n[t] = fl_n[u]) => t = u

SoundUntilAba == ~aba => Partition

\* try_pop never hands out a record that somebody already holds: the
\* "Duplicate nodes" assertion of test/stress/freelist_stress_test.cpp.
NoDoubleHandout ==
    [][\A t \in Popper : Take(t) => fl_h[t] \notin out \cup InPush]_vars

\* With one popper a stale CAS cannot succeed: only a pop changes the
\* successor of a record of the list, so what the popper read stays true.
NoAba == ~aba

\* test/stress/freelist_stress_test.cpp:159: "All nodes back in freelist", once
\* the threads that pop and the one that pushes have ended and every record has
\* been pushed: popping from head_ on meets each record (:166-167, "Lost nodes
\* during multi-pop/single-push recycling").
AllNodesBack ==
    (out = {} /\ \A t \in Thread : fl_pc[t] = "idle") =>
        Record \subseteq {Walk[k] : k \in 0..Cardinality(Record)}

\* The abstract pool: a record being pushed is still out.
Pool == INSTANCE FreePool WITH free <- free_stack, out <- out \cup InPush
ImplementsPool == Pool!Spec
=============================================================================
