----------------------------- MODULE Inspection -----------------------------
(***************************************************************************)
(* What follows the Builder's todos of BuilderTodos: the validation phase  *)
(* (phases/validate_phase.py with core/validator.py) looks at the scene    *)
(* with what the artifacts claim in hand and an inspector speaks about it, *)
(* and the final snapshot (pipeline/adapter.py) tells the page what was    *)
(* built, placed and validated.                                            *)
(*                                                                         *)
(* Sizes, symmetry and the wording of notes are not in the scene of        *)
(* BuilderTodos: what depends on them is left open here.                   *)
(***************************************************************************)
EXTENDS BuilderTodos

CONSTANT
  AtRest    (* families whose placed instances leave their children where   *)
            (* the children's own locations say: at the origin, unscaled    *)

ASSUME AtRestAssumption == AtRest \subseteq Families

VARIABLES
  named,      (* instance_names of each BuildArtifact                       *)
  gaps,       (* families the assembly skipped for a gap in the plan        *)
  step,       (* the next thing the validation does, or how it ended        *)
  errors,     (* the kinds of errors it has found                           *)
  speeches,   (* how often the inspector has spoken                         *)
  shown       (* what final_artifact_to_snapshot makes of the result        *)

inspectionVars == <<step, errors, speeches, shown>>
allVars == <<vars, named, gaps, inspectionVars>>

NotShown == [parts |-> [f \in Families |-> "pending"],
             assembly |-> "pending", validation |-> "pending"]

RunInit ==
  /\ Init
  /\ named = [f \in Families |-> {}]
  /\ gaps = {}
  /\ step = "closed"
  /\ errors = {}
  /\ speeches = 0
  /\ shown = NotShown

-----------------------------------------------------------------------------
(* The two phases before, with what their artifacts keep for later.  A     *)
(* definition named ...Bug is the code with a plausible fault.             *)

(* Without AO names are listed as duplicates are made, and a build that    *)
(* fails half-way lists those it got to.                                   *)
Duplicated(f) ==
  InstancesOf(f) \ {Head(queue)[k].to : k \in {j \in DOMAIN Head(queue) :
                                                Head(queue)[j].op = "duplicate"}}

Named(f) ==
  IF built'[f] # built[f] /\ built'[f] = "built" THEN InstancesOf(f)
  ELSE IF mode = "direct" /\ stage = "build" /\ todo = f /\ failed' /\ ~failed
    THEN Duplicated(f)
  ELSE named[f]

(* RefusePlace of a part that could be placed is a gap in the plan, and    *)
(* every part of a plan that was rejected counts as one.                   *)
Gaps ==
  IF ao THEN gaps
  ELSE gaps \cup {f \in Families : Idle /\ (built'[f] \notin {built[f], "absent"}
                                        \/ (Available(f) /\ verdict'[f] # verdict[f]))}

BuildAndPlace ==
  /\ Next
  /\ named' = [f \in Families |-> Named(f)]
  /\ gaps' = Gaps
  /\ UNCHANGED inspectionVars

-----------------------------------------------------------------------------
(* The validation phase.                                                   *)

Listed == UNION {named[f] : f \in Families}

(* An assembly phase that raised hands on no artifacts.                    *)
Assembled == stage = "placed"

(* Only the last placement of a part is checked: with AO there is one for  *)
(* each instance, without one for all (placement_by_part).                 *)
Checked(f) ==
  IF ~Assembled \/ verdict[f] # "approved" THEN {}
  ELSE IF ao THEN {Instance(f, Count[f])} ELSE InstancesOf(f)
AllChecked == UNION {Checked(f) : f \in Families}

At(s) == step = s
GoOn(s) ==
  /\ step' = s
  /\ UNCHANGED <<vars, named, gaps, speeches, shown>>
Found(kind, yes) == errors' = IF yes THEN errors \cup {kind} ELSE errors

(* Behind an assembly phase that raised the run is validated all the same. *)
OpenValidation ==
  /\ At("closed")
  /\ Assembled \/ (stage = "raised" /\ \A f \in Families : built[f] # "pending")
  /\ GoOn("counts") /\ UNCHANGED errors

(* _check_instance_counts.  A list of objects that cannot be had is the    *)
(* only query whose failure is not caught.                                 *)
CheckCounts ==
  /\ At("counts")
  /\ GoOn("dimensions")
  /\ Found("count", \E f \in Families : ~(named[f] \subseteq present))

(* _check_dimensions: sizes, and whether the specification has them, are   *)
(* not modelled; of an object that is not there no size is read.           *)
CheckDimensions ==
  /\ At("dimensions")
  /\ GoOn("positions")
  /\ \E off \in SUBSET (Listed \cap present) : Found("dimensions", off # {})

(* The centre of o in the world is where its own location says ...         *)
InWorld(o) == parent[o] = NoObject \/ (parent[o][1] \in AtRest /\ spot[parent[o]] = "planned"
                                        /\ parent[parent[o]] = NoObject)

(* _check_positions: an object whose query fails is passed over.  Under a  *)
(* parent that moves or scales it an object may be anywhere.               *)
CheckPositions ==
  /\ At("positions")
  /\ GoOn("parenting")
  /\ \E seen \in SUBSET (AllChecked \cap present) :
       \E elsewhere \in SUBSET {o \in seen : ~InWorld(o)} :
         Found("position", elsewhere # {} \/ \E o \in seen : InWorld(o) /\ spot[o] # "planned")

(* _check_parenting: whether there is a parent, not which.                 *)
CheckParenting ==
  /\ At("parenting")
  /\ GoOn("symmetry")
  /\ \E seen \in SUBSET (AllChecked \cap present) :
       Found("parenting",
             \E o \in seen : (parent[o] = NoObject) # (Parent[o[1]] = NoFamily))

(* _check_symmetry compares pairs of listed instances.                     *)
CheckSymmetry ==
  /\ At("symmetry")
  /\ GoOn("inspector")
  /\ \E pairs \in SUBSET {f \in Families : Count[f] = 2 /\ named[f] \subseteq present} :
       Found("symmetry", pairs # {})

(* _collect_planning_context.  The notes that name an ordering constraint  *)
(* or a parent count as failures of the plan, and the gaps; what else a    *)
(* failed placement says may name a parent or not.                         *)
Unready(f) == Parent[f] # NoFamily /\ built[Parent[f]] # "built"
PlanFailuresBug == IF Assembled /\ ~ao THEN gaps ELSE {}
PlanFailures ==
  IF Assembled /\ ~ao THEN gaps \cup {f \in Families : Unready(f)} ELSE {}
MayNameParent ==
  IF Assembled /\ ~ao THEN {f \in Families : verdict[f] = "failed"} ELSE {}

(* The inspector speaks three times; what it says becomes a warning.       *)
Speak ==
  /\ At("inspector") /\ speeches < 3
  /\ speeches' = speeches + 1
  /\ UNCHANGED <<vars, named, gaps, step, errors, shown>>

(* _build_validation_artifact and the end of run.                          *)
Judge ==
  /\ At("inspector") /\ speeches = 3
  /\ \E more \in SUBSET MayNameParent :
       LET failures == PlanFailures \cup more IN
       /\ Found("planning", failures # {})
       /\ GoOn(IF errors' = {} THEN "passed" ELSE "failed")

(* The object list or the inspector's model raises: the phase is failed and*)
(* its artifact the default one, which did not pass.                       *)
ValidationRaises ==
  /\ At("counts") \/ (At("inspector") /\ speeches < 3)
  /\ GoOn("raised") /\ UNCHANGED errors

-----------------------------------------------------------------------------
(* The final snapshot.                                                     *)

RunOver == stage = "stopped" \/ step \in {"passed", "failed", "raised"}
             \/ (stage = "raised" /\ \E f \in Families : built[f] = "pending")

(* The build phase that raised hands on no artifacts either.               *)
PartStatus(f) ==
  IF \E g \in Families : built[g] = "pending" THEN "pending"
  ELSE [built |-> "approved", failed |-> "failed", pending |-> "pending",
        blocked |-> "pending", needs_revision |-> "pending", absent |-> "pending"][built[f]]

(* _build_assembly: no results are no success.                             *)
AssemblyStatus ==
  IF stage = "raised" \/ \E f \in Families : verdict[f] # "approved"
    THEN "pending" ELSE "completed"

(* _build_final_validation; a gate fills in a validation that did not pass.*)
ValidationStatus == IF step = "passed" THEN "completed" ELSE "failed"

Report ==
  /\ RunOver /\ shown = NotShown
  /\ shown' = [parts |-> [f \in Families |-> PartStatus(f)],
               assembly |-> AssemblyStatus, validation |-> ValidationStatus]
  /\ UNCHANGED <<vars, named, gaps, step, errors, speeches>>

RunNext ==
  \/ BuildAndPlace
  \/ OpenValidation \/ CheckCounts \/ CheckDimensions \/ CheckPositions
  \/ CheckParenting \/ CheckSymmetry \/ Speak \/ Judge \/ ValidationRaises
  \/ Report

RunSpec == RunInit /\ [][RunNext]_allVars

-----------------------------------------------------------------------------
(* The type invariant. *)
RunTypeOK ==
  /\ TypeOK
  /\ named \in [Families -> SUBSET Instances]
  /\ gaps \subseteq Families
  /\ step \in {"closed", "counts", "dimensions", "positions", "parenting", "symmetry",
               "inspector", "passed", "failed", "raised"}
  /\ errors \subseteq {"count", "dimensions", "position", "parenting", "symmetry", "planning"}
  /\ speeches \in 0 .. 3
  /\ shown \in [parts : [Families -> {"pending", "approved", "failed"}],
                assembly : {"pending", "completed"},
                validation : {"pending", "completed", "failed"}]

(* The parts the plan puts under a family that was not built.              *)
Orphaned == {f \in Families : Unready(f)}

(* The snapshot at the end of a run tells no more than the scene holds.    *)
(* An assembly shown as completed stands, every part of it: also in a run  *)
(* whose phases raised or that no gate stopped.  A validation shown as     *)
(* completed found every instance that the artifacts list, and no part     *)
(* waiting for a parent that was never built; a part that does not stand   *)
(* then was reported as failed by the assembly phase, or the assembly phase*)
(* raised.                                                                 *)
SnapshotIsCovered ==
  /\ shown.assembly = "completed" => \A f \in Families : Stands(f)
  /\ shown.validation = "completed" =>
       /\ Listed \subseteq present
       /\ Assembled => Orphaned = {}
       /\ Assembled => \A f \in Families : Stands(f) \/ verdict[f] = "failed"
=============================================================================
