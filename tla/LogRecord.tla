------------------------------ MODULE LogRecord ------------------------------
(***************************************************************************)
(* The nodes of the logger (core/log_record.hpp).  A LogRecord derives     *)
(* from MpscNode (field next, the link of the queue) and from FreeNode     *)
(* (field free_next, the link of the free list): one record can be linked  *)
(* by both structures, and which of the two owns it is a protocol of the   *)
(* engine.  The two link fields are variables of the modules that read and *)
(* write them; this module only names the nodes and the threads.           *)
(***************************************************************************)
CONSTANTS
    Thread,     \* every thread that calls into the structures
    Record,     \* the LogRecords of the pool
    Stub,       \* MpscQueue::stub_, a bare MpscNode
    NULL        \* nullptr

ASSUME LogRecordAssumption ==
    /\ Stub \notin Record
    /\ NULL \notin Record
    /\ NULL # Stub

\* What MpscNode::next may point to, nullptr aside.
MpscNode == Record \cup {Stub}

\* A FreeNode* and an MpscNode*.
FreePtr == Record \cup {NULL}
MpscPtr == MpscNode \cup {NULL}
=============================================================================
