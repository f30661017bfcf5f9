------------------------------- MODULE MCServer -------------------------------
(* Server on small sets; events, submitters and workers are interchangeable. *)
EXTENDS Server, TLC

Symmetry == Permutations(Event) \cup Permutations(Submitter) \cup Permutations(Worker)
=============================================================================
