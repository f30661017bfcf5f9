----------------------------- MODULE MCLogEngine -----------------------------
(* LogEngine on small sets. *)
EXTENDS LogEngine, TLC

\* The records of the pools that the bounds allow.
MCRecord == (1..Pools) \X (1..PoolSize)

\* Nothing is asked of the engine once a stale CAS has succeeded or a record
\* of a freed pool is about to be touched.
UntilUndefined == ~aba /\ NoFreedRecord
=============================================================================
