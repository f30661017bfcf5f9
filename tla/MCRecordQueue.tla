---------------------------- MODULE MCRecordQueue ----------------------------
(* RecordQueue on small sets; records and producers are interchangeable. *)
EXTENDS RecordQueue, TLC

Symmetry == Permutations(Record) \cup Permutations(Thread)
=============================================================================
