---------------------------- MODULE RunContract ----------------------------
(***************************************************************************)
(* What one run of the multi-expert pipeline promises to whoever started   *)
(* it (the bridge, the command line, a test): phases finish one after the  *)
(* other, a failure is never forgotten, and the verdict follows from the   *)
(* phases that failed.  PipelineRun implements it.                         *)
(***************************************************************************)
EXTENDS Integers

CONSTANTS
  PhaseCount,   (* phases of a complete run                                 *)
  FirstGate     (* the earliest phase whose result may end the run          *)

VARIABLES
  finished,   (* phases that have finished, whatever came of them           *)
  failed,     (* phases known to have failed or condemned not to run        *)
  verdict     (* none, SUCCESS, DEGRADED, FAILED, or raised                 *)

vars == <<finished, failed, verdict>>

Init == finished = 0 /\ failed = {} /\ verdict = "none"

(* The next phase finishes.                                                *)
FinishPhase ==
  /\ verdict = "none" /\ finished < PhaseCount
  /\ finished' = finished + 1
  /\ failed' \in {failed, failed \cup {finished + 1}}
  /\ UNCHANGED verdict

(* The result of the last finished phase ends the run: that phase and all  *)
(* that would have followed count as failed.                               *)
StopEarly ==
  /\ verdict = "none" /\ finished \in FirstGate .. PhaseCount - 1
  /\ failed' = failed \cup finished .. PhaseCount
  /\ verdict' = "FAILED"
  /\ UNCHANGED finished

(* All phases have finished; the last one may still be found wanting.      *)
Conclude ==
  /\ verdict = "none" /\ finished = PhaseCount
  /\ failed' \in {failed, failed \cup {PhaseCount}}
  /\ verdict' = IF failed' = {} THEN "SUCCESS" ELSE "DEGRADED"
  /\ UNCHANGED finished

(* The caller gets an exception instead of a result.                       *)
Raise ==
  /\ verdict # "raised"
  /\ verdict' = "raised"
  /\ UNCHANGED <<finished, failed>>

Next == FinishPhase \/ StopEarly \/ Conclude \/ Raise

Spec == Init /\ [][Next]_vars
=============================================================================
