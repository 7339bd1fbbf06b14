--------------------------- MODULE MCPipelineRun ---------------------------
(* The instance of PipelineRun that TLC checks: the module has no          *)
(* constants and finitely many states.                                     *)
EXTENDS PipelineRun
=============================================================================
