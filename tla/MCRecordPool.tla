----------------------------- MODULE MCRecordPool -----------------------------
(* RecordPool on small sets; records and poppers are interchangeable. *)
EXTENDS RecordPool, TLC

Symmetry == Permutations(Record) \cup Permutations(Popper)

\* The stress test starts its threads on a list that holds every record.
FilledInit ==
    /\ free_stack \in [1..Cardinality(Record) -> Record]
    /\ free_head = free_stack[1]
    /\ free_next \in [Record -> Record \cup {NULL}] /\ Linked
    /\ fl_pc = [t \in Thread |-> "idle"]
    /\ fl_h = [t \in Thread |-> NULL]
    /\ fl_next = [t \in Thread |-> NULL]
    /\ fl_n = [t \in Thread |-> NULL]
    /\ aba = FALSE
    /\ out = {}

FilledSpec == FilledInit /\ [][Next]_vars
=============================================================================
