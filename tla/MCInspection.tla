---------------------------- MODULE MCInspection ----------------------------
(* The instance of MCBuilderTodos, carried on to the end of the run: the   *)
(* body moves what is put under it, or leaves it where it is.              *)
EXTENDS Inspection, MCBuilderTodos
=============================================================================
