----------------------------- MODULE MCPipeline -----------------------------
(* Model-checking instance of the pipeline. *)
EXTENDS Pipeline

Cancels == {[op |-> "CancelOrder", id |-> i] : i \in {7, 8}}
=============================================================================
