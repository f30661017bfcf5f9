---------------------------- MODULE MCRegistration ----------------------------
(* Registration on a small instance; the handles are interchangeable. *)
EXTENDS Registration, TLC

Symmetry == Permutations(Handle)

\* The leaks of a registry without tokens have no limit: a bound on the count.
RefBound == \A c \in Channel : registry.channelRefCount[c] <= 3
=============================================================================
