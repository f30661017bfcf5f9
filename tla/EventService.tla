----------------------------- MODULE EventService -----------------------------
(***************************************************************************)
(* What a running server promises for the events it has let in: each is    *)
(* taken in the order of arrival, once, and comes to one end: its result   *)
(* is distributed, or it fails.                                            *)
(***************************************************************************)
EXTENDS Sequences

CONSTANTS Event

VARIABLES
    todo,           \* the events that wait, in order
    busy,           \* those that a worker has taken
    distributed,
    failed

vars == <<todo, busy, distributed, failed>>

Known(e) == e \in busy \cup distributed \cup failed \/ \E i \in DOMAIN todo : todo[i] = e

Init == todo = <<>> /\ busy = {} /\ distributed = {} /\ failed = {}

Accept(e) ==
    /\ ~Known(e)
    /\ todo' = Append(todo, e)
    /\ UNCHANGED <<busy, distributed, failed>>

Take ==
    /\ todo # <<>>
    /\ busy' = busy \cup {Head(todo)}
    /\ todo' = Tail(todo)
    /\ UNCHANGED <<distributed, failed>>

Finish(e) ==
    /\ e \in busy
    /\ busy' = busy \ {e}
    /\ \/ distributed' = distributed \cup {e} /\ UNCHANGED failed
       \/ failed' = failed \cup {e} /\ UNCHANGED distributed
    /\ UNCHANGED todo

Next == Take \/ \E e \in Event : Accept(e) \/ Finish(e)

Spec == Init /\ [][Next]_vars
=============================================================================
