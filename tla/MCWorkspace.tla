---------------------------- MODULE MCWorkspace ----------------------------
(***************************************************************************)
(* The instance of Workspace that TLC checks: one session to begin with    *)
(* and one that can be created.                                            *)
(***************************************************************************)
EXTENDS Workspace, TLC

CONSTANTS known, created

MCSessions == {known, created}
MCSymmetry == Permutations(MCSessions)

(* What may happen together: each gesture with the faults and gestures it  *)
(* can collide with, and with a run that does at least one thing.          *)
MCScripts ==
  {{"starts", "writes", "raises"}, {"starts", "emits", "lost"},
   {"starts", "raises", "lost"}, {"starts", "emits", "reloads"},
   {"starts", "raises", "reloads"}, {"starts", "emits", "deletes"},
   {"starts", "writes", "deletes"}, {"starts", "emits", "fails"},
   {"starts", "refused", "fails"}, {"starts", "refused", "deletes"},
   {"starts", "refused", "creates"}, {"creates", "selects", "fails"},
   {"creates", "selects", "reloads"}, {"creates", "types", "deletes"},
   {"creates", "batches", "fails"}, {"reloads", "fails"}}
=============================================================================
