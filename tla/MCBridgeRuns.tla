---------------------------- MODULE MCBridgeRuns ----------------------------
(* The instance of BridgeRuns that TLC checks: one session, two request    *)
(* threads, two pipeline threads and a restart.  The run checks a liveness *)
(* property, so it declares no symmetry.                                   *)
EXTENDS BridgeRuns
=============================================================================
