------------------------------ MODULE MCPipeline ------------------------------
(* Pipeline with an event for the first adapter, one for both and one for     *)
(* none of them; servers of no worker (which is one), and of two.             *)
EXTENDS Pipeline, TLC

CONSTANTS e1, e2, e3

MCConfig  == {[listeners |-> <<"http">>, worker_count |-> n] : n \in {0, 2}}
MCDecodes == (e1 :> {2}) @@ (e2 :> {1, 2}) @@ (e3 :> {})
=============================================================================
