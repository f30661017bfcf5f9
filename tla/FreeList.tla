------------------------------- MODULE FreeList -------------------------------
(***************************************************************************)
(* FreeList of core/lockfree_queue.hpp: a Treiber stack.  One action per   *)
(* access to shared memory (head_ and the free_next fields), so that the   *)
(* calls of different threads interleave as they do in the program.  The   *)
(* memory is taken as sequentially consistent.                             *)
(*                                                                         *)
(* try_pop():  PopLoad, then PopRead and PopCas until one succeeds; it     *)
(*             returns nullptr in PopLoadNull or PopRetryNull.             *)
(* push(n):    PushLoad, then PushLink and PushCas until one succeeds.     *)
(*                                                                         *)
(* compare_exchange_weak may fail although head_ holds the expected value, *)
(* so PopRetry and PushRetry are enabled in every state of their loop.     *)
(*                                                                         *)
(* The module has no Next: a client (RecordPool, LogEngine) says who calls *)
(* what, and adds to PopCas what it does with the node fl_h[t] returned.   *)
(***************************************************************************)
EXTENDS LogRecord, Integers, Sequences

VARIABLES
    free_head,  \* head_
    free_next,  \* FreeNode::free_next of every record
    fl_pc,      \* where each thread is inside push() or try_pop()
    fl_h,       \* the local h of the call
    fl_next,    \* the local next of try_pop
    fl_n,       \* the argument n of push
    free_stack, \* history: the content the calls made so far should leave
    aba         \* history: a CAS of try_pop installed a successor that is stale

flVars == <<free_head, free_next, fl_pc, fl_h, fl_next, fl_n, free_stack, aba>>

FreeListInit ==
    /\ free_head = NULL
    /\ free_next = [r \in Record |-> NULL]
    /\ fl_pc = [t \in Thread |-> "idle"]
    /\ fl_h = [t \in Thread |-> NULL]
    /\ fl_next = [t \in Thread |-> NULL]
    /\ fl_n = [t \in Thread |-> NULL]
    /\ free_stack = <<>>
    /\ aba = FALSE

FlPc == {"idle", "pop_read", "pop_cas", "push_link", "push_cas"}

Popping(t) == fl_pc[t] \in {"pop_read", "pop_cas"}
Pushing(t) == fl_pc[t] \in {"push_link", "push_cas"}

FreeListTypeOK ==
    /\ free_head \in FreePtr
    /\ free_next \in [Record -> FreePtr]
    /\ fl_pc \in [Thread -> FlPc]
    /\ fl_h \in [Thread -> FreePtr]
    /\ fl_next \in [Thread -> FreePtr]
    /\ fl_n \in [Thread -> FreePtr]
    /\ free_stack \in Seq(Record)
    /\ aba \in BOOLEAN
    /\ \A t \in Thread : /\ Popping(t) => fl_h[t] # NULL
                         /\ Pushing(t) => fl_n[t] # NULL

\* The locals of a call are dead once it has returned.
Return(t) ==
    /\ fl_pc' = [fl_pc EXCEPT ![t] = "idle"]
    /\ fl_h' = [fl_h EXCEPT ![t] = NULL]
    /\ fl_next' = [fl_next EXCEPT ![t] = NULL]
    /\ fl_n' = [fl_n EXCEPT ![t] = NULL]

-----------------------------------------------------------------------------
(* try_pop *)

\* FreeNode* h = head_.load(acquire), not nullptr.
PopLoad(t) ==
    /\ fl_pc[t] = "idle"
    /\ free_head # NULL
    /\ fl_h' = [fl_h EXCEPT ![t] = free_head]
    /\ fl_pc' = [fl_pc EXCEPT ![t] = "pop_read"]
    /\ UNCHANGED <<free_head, free_next, fl_next, fl_n, free_stack, aba>>

\* The same load finds nullptr: try_pop returns nullptr.
PopLoadNull(t) ==
    /\ fl_pc[t] = "idle"
    /\ free_head = NULL
    /\ UNCHANGED flVars

\* FreeNode* next = h->free_next.  Nothing keeps h in the list meanwhile.
PopRead(t) ==
    /\ fl_pc[t] = "pop_read"
    /\ fl_next' = [fl_next EXCEPT ![t] = free_next[fl_h[t]]]
    /\ fl_pc' = [fl_pc EXCEPT ![t] = "pop_cas"]
    /\ UNCHANGED <<free_head, free_next, fl_h, fl_n, free_stack, aba>>

\* The successor the thread read is no longer the successor of the head.
StaleNext(t) == fl_next[t] # free_next[fl_h[t]]

\* Mutation of PopCas: a plain store in place of the CAS.
PopStore(t) ==
    /\ fl_pc[t] = "pop_cas"
    /\ free_head' = fl_next[t]
    /\ aba' = (aba \/ StaleNext(t))
    /\ free_stack' = IF aba' \/ free_stack = <<>> THEN <<>> ELSE Tail(free_stack)
    /\ Return(t)
    /\ UNCHANGED free_next

\* The CAS succeeds: it compares the pointer only.  Returns fl_h[t].
PopCas(t) ==
    /\ fl_pc[t] = "pop_cas"
    /\ free_head = fl_h[t]
    /\ free_head' = fl_next[t]
    /\ aba' = (aba \/ StaleNext(t))
    /\ free_stack' = IF aba' \/ free_stack = <<>> THEN <<>> ELSE Tail(free_stack)
    /\ Return(t)
    /\ UNCHANGED free_next

\* Mutation of PopRetry: next is read once, before the loop.
PopRetryOldNext(t) ==
    /\ fl_pc[t] = "pop_cas"
    /\ free_head # NULL
    /\ fl_h' = [fl_h EXCEPT ![t] = free_head]
    /\ UNCHANGED <<free_head, free_next, fl_pc, fl_next, fl_n, free_stack, aba>>

\* Mutation of PopRetry: the failing CAS does not reload h.
PopRetryOldHead(t) ==
    /\ fl_pc[t] = "pop_cas"
    /\ free_head # NULL
    /\ fl_pc' = [fl_pc EXCEPT ![t] = "pop_read"]
    /\ UNCHANGED <<free_head, free_next, fl_h, fl_next, fl_n, free_stack, aba>>

\* The CAS fails and reloads h; while (h) goes round again.
PopRetry(t) ==
    /\ fl_pc[t] = "pop_cas"
    /\ free_head # NULL
    /\ fl_h' = [fl_h EXCEPT ![t] = free_head]
    /\ fl_next' = [fl_next EXCEPT ![t] = NULL]
    /\ fl_pc' = [fl_pc EXCEPT ![t] = "pop_read"]
    /\ UNCHANGED <<free_head, free_next, fl_n, free_stack, aba>>

\* The CAS fails and reloads nullptr: try_pop returns nullptr.
PopRetryNull(t) ==
    /\ fl_pc[t] = "pop_cas"
    /\ free_head = NULL
    /\ Return(t)
    /\ UNCHANGED <<free_head, free_next, free_stack, aba>>

-----------------------------------------------------------------------------
(* push *)

\* FreeNode* h = head_.load(relaxed).
PushLoad(t, n) ==
    /\ fl_pc[t] = "idle"
    /\ fl_n' = [fl_n EXCEPT ![t] = n]
    /\ fl_h' = [fl_h EXCEPT ![t] = free_head]
    /\ fl_pc' = [fl_pc EXCEPT ![t] = "push_link"]
    /\ UNCHANGED <<free_head, free_next, fl_next, free_stack, aba>>

\* n->free_next = h, visible to a thread that still holds a pointer to n.
PushLink(t) ==
    /\ fl_pc[t] = "push_link"
    /\ free_next' = [free_next EXCEPT ![fl_n[t]] = fl_h[t]]
    /\ fl_pc' = [fl_pc EXCEPT ![t] = "push_cas"]
    /\ UNCHANGED <<free_head, fl_h, fl_next, fl_n, free_stack, aba>>

\* The CAS succeeds.
PushCas(t) ==
    /\ fl_pc[t] = "push_cas"
    /\ free_head = fl_h[t]
    /\ free_head' = fl_n[t]
    /\ free_stack' = IF aba THEN <<>> ELSE <<fl_n[t]>> \o free_stack
    /\ Return(t)
    /\ UNCHANGED <<free_next, aba>>

\* Mutation of PushRetry: n->free_next = h stands before the loop.
PushRetryUnlinked(t) ==
    /\ fl_pc[t] = "push_cas"
    /\ fl_h' = [fl_h EXCEPT ![t] = free_head]
    /\ UNCHANGED <<free_head, free_next, fl_pc, fl_next, fl_n, free_stack, aba>>

\* The CAS fails and reloads h.
PushRetry(t) ==
    /\ fl_pc[t] = "push_cas"
    /\ fl_h' = [fl_h EXCEPT ![t] = free_head]
    /\ fl_pc' = [fl_pc EXCEPT ![t] = "push_link"]
    /\ UNCHANGED <<free_head, free_next, fl_next, fl_n, free_stack, aba>>

\* The steps inside a call, between its first access and its return.
PopStep(t)  == PopRead(t) \/ PopRetry(t)
PushStep(t) == PushLink(t) \/ PushRetry(t)

-----------------------------------------------------------------------------
(* What the pointers say, against the history *)

\* free_stack, linked by free_next from free_head on, ends in nullptr and
\* holds no record twice.
Linked ==
    /\ free_head = IF free_stack = <<>> THEN NULL ELSE free_stack[1]
    /\ \A i \in 1..Len(free_stack) :
          free_next[free_stack[i]] =
             IF i = Len(free_stack) THEN NULL ELSE free_stack[i + 1]
    /\ \A i, j \in 1..Len(free_stack) :
          free_stack[i] = free_stack[j] => i = j

InList(n) == \E i \in 1..Len(free_stack) : free_stack[i] = n
=============================================================================
