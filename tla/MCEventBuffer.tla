--------------------------- MODULE MCEventBuffer ---------------------------
(* The instance of EventBuffer that TLC checks: two runs of one session.   *)
(* The run checks a liveness property, so it declares no symmetry.         *)
EXTENDS EventBuffer
=============================================================================
