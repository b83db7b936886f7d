-------------------------- MODULE MCPipelineStats --------------------------
(***************************************************************************)
(* PipelineStats for TLC.                                                  *)
(***************************************************************************)
EXTENDS PipelineStats
============================================================================
