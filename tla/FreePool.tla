------------------------------- MODULE FreePool -------------------------------
(***************************************************************************)
(* What the engine needs of its free list: a LIFO pool of records.  Get    *)
(* and Put are atomic, a record is free or out, never both and never       *)
(* twice, and Get fails only when nothing is free.                         *)
(***************************************************************************)
EXTENDS Integers, Sequences

CONSTANT Record

VARIABLES free, out

Init ==
    /\ free = <<>>
    /\ out = Record

Get ==
    /\ free # <<>>
    /\ free' = Tail(free)
    /\ Head(free) \notin out
    /\ out' = out \cup {Head(free)}

Put ==
    \E n \in out :
        /\ free' = <<n>> \o free
        /\ out' = out \ {n}

Next == Get \/ Put

Spec == Init /\ [][Next]_<<free, out>>
=============================================================================
