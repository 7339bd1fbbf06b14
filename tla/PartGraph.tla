----------------------------- MODULE PartGraph -----------------------------
(***************************************************************************)
(* From part families to a plan that can be executed, as operators: the    *)
(* build layers (pipelines/dag_scheduler.py), the plan computed from them  *)
(* (PlanPhase._compute_plan), its structure and assembly contract          *)
(* (core/planning.py) and the execution plans the build and the assembly   *)
(* phase derive from it.                                                   *)
(*                                                                         *)
(* A job is what the plan phase is called with:                            *)
(*   families   the names of the part families                             *)
(*   parent     the parent name of each, NoFamily for a root; a name that  *)
(*              is no family is possible                                   *)
(*   spec       the names the specification has parts for                  *)
(*   points     the names whose part has a named first attachment point    *)
(*   helpers    the names that read like "anchor", "socket", ...           *)
(*   base       the name without a trailing number: base["leg_2"] = "leg"  *)
(* Names within a job differ.                                              *)
(***************************************************************************)
EXTENDS Naturals, Sequences, FiniteSets

CONSTANT NoFamily

Children(job, p) == {f \in job.families : job.parent[f] = p}

(* Layer number n of build_execution_dag, the roots being layer 1.  A      *)
(* visited family does not come back: with one parent each it cannot.      *)
Layer(job) ==
  LET layer[n \in 1 .. Cardinality(job.families)] ==
        IF n = 1 THEN Children(job, NoFamily)
        ELSE UNION {Children(job, p) : p \in layer[n - 1]}
  IN layer

Planned(job) == UNION {Layer(job)[n] : n \in DOMAIN Layer(job)}

LayerOf(job, f) == CHOOSE n \in DOMAIN Layer(job) : f \in Layer(job)[n]

(* The parents of f, their parents, and so on, as far as the job has them. *)
Ancestors(job, f) ==
  LET up[n \in 0 .. Cardinality(job.families)] ==
        IF n = 0 THEN {f} \cap job.families
        ELSE {job.parent[g] : g \in up[n - 1]} \cap job.families
  IN UNION {up[n] : n \in 1 .. Cardinality(job.families)}

(* detect_cycles: build_execution_dag raises ValueError.                   *)
Cyclic(job) == \E f \in job.families : f \in Ancestors(job, f)

(* validate_part_families and find_orphans.                                *)
Orphans(job) ==
  {f \in job.families : job.parent[f] # NoFamily /\ job.parent[f] \notin job.families}

-----------------------------------------------------------------------------
(* PlanPhase._compute_plan gives a step, a build and an assembly           *)
(* responsibility to every family of the layers: a family that is in no    *)
(* layer gets none of them, silently.                                      *)

ComputedPlanBug(job) ==
  [steps |-> job.families, build |-> job.families, assembly |-> job.families]

ComputedPlan(job) ==
  [steps |-> Planned(job), build |-> Planned(job), assembly |-> Planned(job)]

(* The contract of an assembly responsibility: a family with a parent is   *)
(* aligned to it, which takes a named point on both.  PlanPhase names the  *)
(* first attachment point of a part; _resolve_attachment_point finds it    *)
(* again when the part has one.                                            *)
HasPoint(job, f) == f \in job.points

MissingFields(job, f) ==
  IF job.parent[f] = NoFamily THEN {}
  ELSE (IF HasPoint(job, job.parent[f]) THEN {} ELSE {"attachment_target_point_id"})
         \cup (IF HasPoint(job, f) THEN {} ELSE {"local_anchor_point_id"})

ContractIssuesBug(job, plan) ==
  {<<"assembly-contract-gap", f>> :
     f \in {g \in plan.assembly : "attachment_target_point_id" \in MissingFields(job, g)}}

ContractIssues(job, plan) ==
  {<<"assembly-contract-gap", f>> : f \in {g \in plan.assembly : MissingFields(job, g) # {}}}

(* validate_plan_structure.  Every issue blocks.                           *)
Named(plan) == plan.steps \cup plan.build \cup plan.assembly

HelperNamed(job, plan) == Named(plan) \cap job.helpers

MixedIdentity(job, plan) ==
  {f \in Named(plan) : \E g \in Named(plan) \ {f} : job.base[g] = f}

(* A specification without parts allows every name.                        *)
Allowed(job, f) == job.spec = {} \/ f = NoFamily \/ f \in job.spec

StructureIssues(job, plan) ==
  {<<"helper_family_forbidden", f>> : f \in HelperNamed(job, plan)}
    \cup {<<"mixed_family_identity", f>> : f \in MixedIdentity(job, plan)}
    \cup {<<"invalid_family_reference", f>> :
            f \in {g \in Named(plan) :
                    ~(Allowed(job, g) /\ Allowed(job, job.parent[g]))}}

PlanIssues(job, plan) == StructureIssues(job, plan) \cup ContractIssues(job, plan)

-----------------------------------------------------------------------------
(* normalize_build_execution_plan and normalize_assembly_execution_plan:   *)
(* one structural issue empties the whole plan; a family whose contract    *)
(* has a gap is in the assembly plan, to be skipped.                       *)

BuildItems(job, plan) ==
  IF StructureIssues(job, plan) # {} THEN {} ELSE plan.build \cup plan.steps

AssemblyItems(job, plan) ==
  IF StructureIssues(job, plan) # {} THEN {} ELSE plan.assembly \cup plan.steps

Skipped(job, plan) ==
  {f \in AssemblyItems(job, plan) \cap plan.assembly : MissingFields(job, f) # {}}
=============================================================================
