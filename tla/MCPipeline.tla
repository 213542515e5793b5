----------------------------- MODULE MCPipeline -----------------------------
(* Pipeline, for two clients and a health check's ping. *)
EXTENDS Pipeline
=============================================================================
