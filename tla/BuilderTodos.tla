---------------------------- MODULE BuilderTodos ----------------------------
(***************************************************************************)
(* The Builder's todos: the build phase (phases/build_phase.py) makes the  *)
(* instances of every part family in the Blender scene, the assembly phase *)
(* (phases/assemble_phase.py) puts them where the plan says and under the  *)
(* part it names.                                                          *)
(*                                                                         *)
(* With an Agent Orchestrator (AO) a language model answers every todo: an *)
(* answer Python cannot read is replaced by Python's own actions, or fails *)
(* the todo; from a readable one the model extracts a list of actions (see *)
(* ActionPlans), which Python normalizes and executes one by one.  Any call*)
(* into Blender may fail.  The scene outlives the run, so that objects of  *)
(* earlier runs with the same names may be there.                          *)
(*                                                                         *)
(* Scales, rotations and hidden flags are left out: no check of these two  *)
(* phases reads them.                                                      *)
(***************************************************************************)
EXTENDS ActionPlans, Sublists

CONSTANTS
  Families,     (* the part families of the plan                            *)
  Count,        (* instance_count of each                                   *)
  Parent,       (* resolved_parent of each, or NoFamily                     *)
  NoFamily,
  Leftovers,    (* the objects earlier runs may have left in the scene      *)
  BuildPayloads,  (* what a model may extract from its answer to the build  *)
  PlacePayloads   (* and to the placement of a family                       *)

InstancesOf(f) == {Instance(f, i) : i \in 1 .. Count[f]}
Instances == UNION {InstancesOf(f) : f \in Families}
Objects == Instances \cup {Template(f) : f \in Families} \cup {Namesake(f) : f \in Families}

Simple == {"create", "scale", "delete", "move", "show", "rotate", "place"}
Action(S) ==
  [op : S \cap Simple, object : Objects, to : {NoObject}]
    \cup [op : S \cap {"duplicate", "parent"}, object : Objects, to : Objects]
BuildAction == Action(BuildOps)
AnyAction == Action(BuildOps \cup AssemblyOps)

(* A part of an extracted plan: source_object_name, instance_names,        *)
(* actions.                                                                *)
Parts == [template : Objects, declared : SUBSET Objects, actions : Seq(BuildAction)]

(* The template of an extracted part is the one it names, the first object *)
(* it creates, or the one Python would use.                                *)
Extracted(f, item) ==
  LET given == IF Has(item, "source") THEN item.source ELSE NoObject
      found == IF given # NoObject THEN given ELSE FirstCreated(item.actions)
  IN  [template |-> IF found # NoObject THEN found ELSE Template(f),
       declared |-> IF Has(item, "names") THEN item.names ELSE {},
       actions |-> item.actions]

(* A plan without parts is to be repaired.  No object of the model reaches *)
(* this test: Items makes one part of an empty list.                       *)
BuildResult(payload) ==
  LET p == Parsed(payload, "parts", BuildOps)
  IN  IF p.status = "ready" /\ p.parts = <<>> THEN Refused ELSE p
PlaceResult(payload) ==
  LET p == Parsed(payload, "steps", AssemblyOps \cup BuildOps)
  IN  IF p.status = "ready" /\ p.steps = <<>> THEN Refused ELSE p

(* What two tries may give for each family, the plans among it, and the    *)
(* statuses a build is refused with: failed also when the extraction raises*)
(* or the Markdown answer is refused.                                      *)
BuildTries == [f \in Families |-> Tries({BuildResult(d) : d \in BuildPayloads[f]})]
PlaceTries == [f \in Families |-> Tries({PlaceResult(d) : d \in PlacePayloads[f]})]
Plans ==
  [f \in Families |->
     {[k \in DOMAIN r.parts |-> Extracted(f, r.parts[k])] :
        r \in {t \in BuildTries[f] : t.status = "ready"}}]
Refusals ==
  [f \in Families |-> ({t.status : t \in BuildTries[f]} \ {"ready"}) \cup {"failed"}]
Placeable == {f \in Families : \E t \in PlaceTries[f] : t.status = "ready"}

ASSUME FamiliesAssumption == Families # {} /\ NoFamily \notin Families
ASSUME NoObjectAssumption == NoObject \notin Objects
ASSUME CountAssumption == Count \in [Families -> Nat \ {0}]
ASSUME ParentAssumption ==
  Parent \in [Families -> Families \cup {NoFamily}] /\ \A f \in Families : Parent[f] # f
ASSUME LeftoversAssumption == Leftovers \subseteq Objects
ASSUME PlansAssumption ==
  \A f \in Families : \A s \in Plans[f] :
    s # <<>> /\ s \in Seq(Parts)

VARIABLES
  ao,        (* the phases were given a language model                      *)
  stage,     (* build, assemble, or how the two phases ended                *)
  built,     (* status of the BuildArtifact of each family                  *)
  verdict,   (* review_verdict of the AssemblyArtifact of each family       *)
  present,   (* the objects in the scene                                    *)
  spot,      (* where each is                                               *)
  parent,    (* and under which                                             *)
  todo,      (* the family whose todo is being executed                     *)
  mode,      (* python: Python's actions, checked afterwards.  direct: the  *)
             (* same without AO, not checked.  extracted: the model's       *)
  queue,     (* the actions still to execute, one sequence per part         *)
  failed,    (* the first part has raised                                   *)
  leading,   (* the part being executed is the first                        *)
  faulty,    (* history: a call into Blender failed during this todo        *)
  answer     (* history: the model's action plan for this todo              *)

sceneVars == <<present, spot, parent>>
todoVars == <<todo, mode, queue, failed, leading, faulty, answer>>
vars == <<ao, stage, built, verdict, sceneVars, todoVars>>

(* The instance the parts of a family hang under: parent_instance.         *)
ParentInstance(f) == IF Parent[f] = NoFamily THEN NoObject ELSE Instance(Parent[f], 1)

Idle == todo = NoFamily

(* What earlier runs left is where their plan put it.                      *)
Init ==
  /\ ao \in BOOLEAN
  /\ stage = "build"
  /\ built = [f \in Families |-> "pending"]
  /\ verdict = [f \in Families |-> "pending"]
  /\ present \in SUBSET Leftovers
  /\ spot = [o \in Objects |-> IF o \in present THEN "planned" ELSE "origin"]
  /\ parent = [o \in Objects |->
                 IF o \in Instances \cap present /\ ParentInstance(o[1]) \in present
                   THEN ParentInstance(o[1]) ELSE NoObject]
  /\ todo = NoFamily
  /\ mode = "direct"
  /\ queue = <<>>
  /\ failed = FALSE
  /\ leading = TRUE
  /\ faulty = FALSE
  /\ answer = <<>>

-----------------------------------------------------------------------------
(* The actions Python writes.  A definition named ...Bug is the code with a*)
(* plausible fault; the mutation runs put it in the place of the operator  *)
(* that follows it.                                                        *)

(* _execute_create_intent and the loop of run: create, scale, duplicate,   *)
(* delete the template.                                                    *)
CreateActionsBug(f) ==
  <<Do("create", Template(f), NoObject), Do("scale", Template(f), NoObject)>>
    \o [i \in 1 .. Count[f] |-> Do("duplicate", Template(f), Instance(f, i + 1))]
    \o <<Do("delete", Template(f), NoObject)>>
CreateActions(f) ==
  <<Do("create", Template(f), NoObject), Do("scale", Template(f), NoObject)>>
    \o [i \in 1 .. Count[f] |-> Do("duplicate", Template(f), Instance(f, i))]
    \o <<Do("delete", Template(f), NoObject)>>

(* _execute_place_intent, _normalize_extracted_assembly_steps and the loop *)
(* of run: each instance is shown, moved, and put under its parent.        *)
PlaceActions(f, under) ==
  [k \in 1 .. 3 * Count[f] |->
     LET o == Instance(f, ((k - 1) \div 3) + 1) IN
     CASE k % 3 = 1 -> Do("show", o, NoObject)
       [] k % 3 = 2 -> Do("place", o, NoObject)
       [] OTHER     -> IF under = NoObject THEN Do("rotate", o, NoObject)
                                           ELSE Do("parent", o, under)]

(* Extracted placements name the parent's family where an object's name is *)
(* asked for (_normalize_extracted_assembly_steps).                        *)
ParentOfExtracted(f) == IF Parent[f] = NoFamily THEN NoObject ELSE Namesake(Parent[f])

-----------------------------------------------------------------------------
(* Normalization of an extracted part (_normalize_extracted_build_...).    *)

(* The index of the first action op, or the one behind the last.           *)
FirstAt(acts, op) ==
  LET at == {k \in DOMAIN acts : acts[k].op = op}
  IN  IF at = {} THEN Len(acts) + 1 ELSE CHOOSE k \in at : \A j \in at : k <= j

Spliced(acts, k, more) == SubSeq(acts, 1, k - 1) \o more \o SubSeq(acts, k, Len(acts))

Does(acts, op, o) == \E k \in DOMAIN acts : acts[k].op = op /\ acts[k].object = o

(* A template without a scale gets the planned one before it is duplicated.*)
WithScale(part) ==
  IF Does(part.actions, "scale", part.template) THEN part.actions
  ELSE Spliced(part.actions, FirstAt(part.actions, "duplicate"),
               <<Do("scale", part.template, NoObject)>>)

(* Expected instances that are neither declared nor duplicated ...         *)
Missing(f, part) ==
  LET known == part.declared
        \cup {part.actions[k].to : k \in {j \in DOMAIN part.actions :
                                            part.actions[j].op = "duplicate"}}
  IN  Among([i \in 1 .. Count[f] |-> Instance(f, i)], InstancesOf(f) \ known)

(* ... are duplicated before anything is deleted.                          *)
WithMissingBug(f, part) ==
  LET acts == WithScale(part)
      names == Missing(f, part)
  IN  acts \o [k \in DOMAIN names |-> Do("duplicate", part.template, names[k])]
WithMissing(f, part) ==
  LET acts == WithScale(part)
      names == Missing(f, part)
  IN  Spliced(acts, FirstAt(acts, "delete"),
              [k \in DOMAIN names |-> Do("duplicate", part.template, names[k])])

(* A template that is no instance itself is deleted in the end.            *)
Normalized(f, part) ==
  LET acts == WithMissing(f, part)
  IN  IF /\ part.template \notin InstancesOf(f)
         /\ Does(acts, "duplicate", part.template)
         /\ ~Does(acts, "delete", part.template)
      THEN Append(acts, Do("delete", part.template, NoObject))
      ELSE acts

-----------------------------------------------------------------------------
(* Blender (blender/mcp_adapter.py).                                       *)

(* The names an action needs are not there.  A duplicate removes what has  *)
(* the new name before it looks for the original.                          *)
Raises(a) ==
  CASE a.op \in {"create", "delete"} -> FALSE
    [] a.op = "duplicate" -> a.object \notin present \/ a.to = a.object
    [] a.op = "parent"    -> a.object \notin present \/ a.to \notin present
    [] OTHER              -> a.object \notin present

(* What an action removes before it makes something of that name.          *)
Replaced(a) ==
  {o \in Objects : (a.op = "duplicate" /\ a.to = o) \/ (a.op = "create" /\ a.object = o)}

(* What is left of parents when object o is removed or replaced.           *)
Unlinked(o) ==
  [q \in Objects |-> IF q = o \/ parent[q] = o THEN NoObject ELSE parent[q]]

Perform(a) ==
  /\ present' = CASE a.op = "create"    -> present \cup {a.object}
                  [] a.op = "duplicate" -> present \cup {a.to}
                  [] a.op = "delete"    -> present \ {a.object}
                  [] OTHER              -> present
  /\ spot' = CASE a.op \in {"create", "delete"} -> [spot EXCEPT ![a.object] = "origin"]
               [] a.op = "duplicate" -> [spot EXCEPT ![a.to] = spot[a.object]]
               [] a.op = "move"      -> [spot EXCEPT ![a.object] = "elsewhere"]
               [] a.op = "place"     -> [spot EXCEPT ![a.object] = "planned"]
               [] OTHER              -> spot
  /\ parent' = CASE a.op \in {"create", "delete"} -> Unlinked(a.object)
                 [] a.op = "duplicate" ->
                      [Unlinked(a.to) EXCEPT ![a.to] = Unlinked(a.to)[a.object]]
                 [] a.op = "parent"    -> [parent EXCEPT ![a.object] = a.to]
                 [] OTHER              -> parent

RemoveAll(S) ==
  /\ present' = present \ S
  /\ spot' = [o \in Objects |-> IF o \in S THEN "origin" ELSE spot[o]]
  /\ parent' = [o \in Objects |-> IF o \in S \/ parent[o] \in S THEN NoObject ELSE parent[o]]

-----------------------------------------------------------------------------
(* Executing the todo at hand.                                             *)

Begin(f, m, parts, plan) ==
  /\ todo' = f
  /\ mode' = m
  /\ queue' = parts
  /\ failed' = FALSE
  /\ leading' = TRUE
  /\ faulty' = FALSE
  /\ answer' = plan
  /\ UNCHANGED <<ao, stage, built, verdict, sceneVars>>

HasAction == queue # <<>> /\ Head(queue) # <<>>
NextAction == Head(Head(queue))

Execute ==
  /\ HasAction /\ ~Raises(NextAction)
  /\ Perform(NextAction)
  /\ queue' = <<Tail(Head(queue))>> \o Tail(queue)
  /\ UNCHANGED <<ao, stage, built, verdict, todo, mode, failed, leading, faulty, answer>>

(* The rest of the part is not executed; only the artifact of the first    *)
(* part is looked at.                                                      *)
AbandonPart ==
  /\ queue' = <<<<>>>> \o Tail(queue)
  /\ failed' = (failed \/ leading)
  /\ UNCHANGED <<ao, stage, built, verdict, todo, mode, leading, answer>>

ActionRaises ==
  /\ HasAction /\ Raises(NextAction)
  /\ RemoveAll(Replaced(NextAction))
  /\ AbandonPart
  /\ UNCHANGED faulty

(* The MCP server or Blender fails, before, in or after the action, or the *)
(* primitive asked for is none that the adapter knows.                     *)
CallFails ==
  /\ HasAction /\ ~Raises(NextAction)
  /\ Perform(NextAction) \/ RemoveAll(Replaced(NextAction)) \/ UNCHANGED sceneVars
  /\ AbandonPart
  /\ faulty' = TRUE

(* An object that cannot be looked up counts as absent, and a deletion of  *)
(* it as done.                                                             *)
DeletionIsSkipped ==
  /\ HasAction /\ NextAction.op = "delete"
  /\ queue' = <<Tail(Head(queue))>> \o Tail(queue)
  /\ faulty' = TRUE
  /\ UNCHANGED <<ao, stage, built, verdict, sceneVars, todo, mode, failed, leading, answer>>

NextPart ==
  /\ queue # <<>> /\ Head(queue) = <<>>
  /\ queue' = Tail(queue)
  /\ leading' = FALSE
  /\ UNCHANGED <<ao, stage, built, verdict, sceneVars, todo, mode, failed, faulty, answer>>

-----------------------------------------------------------------------------
(* The build phase.                                                        *)

MayBuild(f) == stage = "build" /\ Idle /\ built[f] = "pending"

(* Without AO. *)
BuildDirectly(f) ==
  /\ MayBuild(f) /\ ~ao
  /\ Begin(f, "direct", <<CreateActions(f)>>, <<>>)

(* The answer has none of the sections it should have. *)
BuildByPython(f) ==
  /\ MayBuild(f) /\ ao /\ "ignored" \in Readings
  /\ Begin(f, "python", <<CreateActions(f)>>, <<>>)

BuildExtracted(f) ==
  /\ MayBuild(f) /\ ao /\ "understood" \in Readings
  /\ \E plan \in Plans[f] :
       Begin(f, "extracted", [k \in DOMAIN plan |-> Normalized(f, plan[k])], plan)

(* The answer is malformed, blocked, or its extraction failed twice.       *)
RefuseBuild(f, status) ==
  /\ MayBuild(f) /\ ao /\ status \in Refusals[f]
  /\ built' = [built EXCEPT ![f] = status]
  /\ UNCHANGED <<ao, stage, verdict, sceneVars, todoVars>>

(* The status the artifact gets.  Only Python's own actions are followed   *)
(* by a look at the scene, which may fail too.                             *)
BuildStatuses(f) ==
  IF failed THEN {"failed"}
  ELSE IF mode = "python"
    THEN IF InstancesOf(f) \subseteq present THEN {"built", "failed"} ELSE {"failed"}
    ELSE {"built"}

FinishBuild(f) ==
  /\ stage = "build" /\ todo = f /\ queue = <<>>
  /\ \E status \in BuildStatuses(f) :
       /\ built' = [built EXCEPT ![f] = status]
       /\ faulty' = (faulty \/ (mode = "python" /\ status = "failed"))
  /\ todo' = NoFamily
  /\ UNCHANGED <<ao, stage, verdict, sceneVars, mode, queue, failed, leading, answer>>

(* A plan that validate_plan_structure objects to is not begun: every part *)
(* fails, and in the assembly phase, which looks at the same plan, every   *)
(* placement (RejectPlacements).                                           *)
RejectPlan ==
  /\ stage = "build" /\ Idle /\ \A f \in Families : built[f] = "pending"
  /\ built' = [f \in Families |-> "failed"]
  /\ UNCHANGED <<ao, stage, verdict, sceneVars, todoVars>>

(* Writing the plan of the phase before its first part and asking for an   *)
(* intent are outside every try block: an exception ends the phase, which  *)
(* hands on no artifacts.  Behind the build phase a run with AO ends then, *)
(* one without AO goes on with no part built; behind the assembly phase it *)
(* is validated and called degraded (see PipelineRun).                     *)
PhaseRaises ==
  /\ Idle
  /\ stage' = "raised"
  /\ UNCHANGED <<ao, built, verdict, sceneVars, todoVars>>
BuildRaises == ao /\ PhaseRaises /\ \E f \in Families : MayBuild(f)

BuildPlanUnwritten ==
  /\ ~ao /\ stage = "build" /\ Idle /\ \A f \in Families : built[f] = "pending"
  /\ built' = [f \in Families |-> "absent"]
  /\ UNCHANGED <<ao, stage, verdict, sceneVars, todoVars>>

(* The gate behind the phase: with AO one part that is not built ends it.  *)
AllBuilt == \A f \in Families : built[f] = "built"
EndBuild ==
  /\ stage = "build" /\ Idle /\ \A f \in Families : built[f] # "pending"
  /\ stage' = IF ao /\ ~AllBuilt THEN "stopped" ELSE "assemble"
  /\ UNCHANGED <<ao, built, verdict, sceneVars, todoVars>>

-----------------------------------------------------------------------------
(* The assembly phase.                                                     *)

MayPlace(f) == stage = "assemble" /\ Idle /\ verdict[f] = "pending"

(* The builds of the part and of its parent can be placed.                 *)
Available(f) ==
  /\ built[f] = "built"
  /\ Parent[f] # NoFamily => built[Parent[f]] = "built"

PlaceDirectly(f) ==
  /\ MayPlace(f) /\ Available(f) /\ ~ao
  /\ Begin(f, "direct", <<PlaceActions(f, ParentInstance(f))>>, <<>>)

PlaceByPython(f) ==
  /\ MayPlace(f) /\ Available(f) /\ ao /\ "ignored" \in Readings
  /\ Begin(f, "python", <<PlaceActions(f, ParentInstance(f))>>, <<>>)

(* Whatever the model extracted is replaced.                               *)
PlaceExtracted(f) ==
  /\ MayPlace(f) /\ Available(f) /\ ao
  /\ "understood" \in Readings /\ f \in Placeable
  /\ Begin(f, "extracted", <<PlaceActions(f, ParentOfExtracted(f))>>, <<>>)

(* The builds are not available, the plan has a gap at this part, or the   *)
(* answer is malformed, blocked or not to be extracted.                    *)
RefusePlace(f) ==
  /\ MayPlace(f)
  /\ verdict' = [verdict EXCEPT ![f] = "failed"]
  /\ UNCHANGED <<ao, stage, built, sceneVars, todoVars>>

RejectPlacements ==
  /\ stage = "assemble" /\ Idle /\ \A f \in Families : built[f] = "failed"
  /\ \A f \in Families : verdict[f] = "pending"
  /\ verdict' = [f \in Families |-> "failed"]
  /\ UNCHANGED <<ao, stage, built, sceneVars, todoVars>>

AssemblyRaises ==
  /\ PhaseRaises /\ \E f \in Families : MayPlace(f)
  /\ ao \/ \A f \in Families : verdict[f] = "pending"

(* Every instance is there, where the plan says, under the part it says.   *)
Stands(f) ==
  \A i \in 1 .. Count[f] :
    /\ Instance(f, i) \in present
    /\ spot[Instance(f, i)] = "planned"
    /\ Parent[f] # NoFamily => parent[Instance(f, i)] = ParentInstance(f)

(* With AO locations and parents are read back, which may fail too.        *)
VerdictsBug(f) ==
  IF ao THEN IF ~failed /\ Stands(f) THEN {"approved", "failed"} ELSE {"failed"}
  ELSE {"approved"}
Verdicts(f) ==
  IF failed THEN {"failed"}
  ELSE IF ao THEN IF Stands(f) THEN {"approved", "failed"} ELSE {"failed"}
  ELSE {"approved"}

FinishPlace(f) ==
  /\ stage = "assemble" /\ todo = f /\ queue = <<>>
  /\ \E v \in Verdicts(f) : verdict' = [verdict EXCEPT ![f] = v]
  /\ todo' = NoFamily
  /\ UNCHANGED <<ao, stage, built, sceneVars, mode, queue, failed, leading, faulty, answer>>

AllApprovedBug == \A f \in Families : verdict[f] # "pending"
AllApproved == \A f \in Families : verdict[f] = "approved"
EndAssembly ==
  /\ stage = "assemble" /\ Idle /\ \A f \in Families : verdict[f] # "pending"
  /\ stage' = IF ao /\ ~AllApproved THEN "stopped" ELSE "placed"
  /\ UNCHANGED <<ao, built, verdict, sceneVars, todoVars>>

Next ==
  \/ Execute \/ ActionRaises \/ CallFails \/ DeletionIsSkipped \/ NextPart
  \/ \E f \in Families :
       \/ BuildDirectly(f) \/ BuildByPython(f) \/ BuildExtracted(f) \/ FinishBuild(f)
       \/ \E status \in {"failed", "blocked", "needs_revision"} : RefuseBuild(f, status)
       \/ PlaceDirectly(f) \/ PlaceByPython(f) \/ PlaceExtracted(f)
       \/ RefusePlace(f) \/ FinishPlace(f)
  \/ RejectPlan \/ RejectPlacements \/ BuildPlanUnwritten \/ BuildRaises \/ AssemblyRaises
  \/ EndBuild \/ EndAssembly

Spec == Init /\ [][Next]_vars

-----------------------------------------------------------------------------
(* The type invariant. *)
TypeOK ==
  /\ ao \in BOOLEAN
  /\ stage \in {"build", "assemble", "placed", "stopped", "raised"}
  /\ built \in [Families -> {"pending", "built", "failed", "blocked", "needs_revision",
                           "absent"}]
  /\ verdict \in [Families -> {"pending", "approved", "failed"}]
  /\ present \subseteq Objects
  /\ spot \in [Objects -> {"origin", "planned", "elsewhere"}]
  /\ parent \in [Objects -> Objects \cup {NoObject}]
  /\ todo \in Families \cup {NoFamily}
  /\ mode \in {"direct", "python", "extracted"}
  /\ queue \in Seq(Seq(AnyAction))
  /\ failed \in BOOLEAN /\ leading \in BOOLEAN /\ faulty \in BOOLEAN
  /\ answer \in Seq(Parts)

(* A part whose placement was approved stands complete, at its place and   *)
(* under its parent, and stays so through all later placements; although a *)
(* build is reported without a look at the scene, may name instances that  *)
(* were never made, and may be undone by the plan of another part.         *)
ApprovedPartsStand == \A f \in Families : verdict[f] = "approved" => Stands(f)

(* With AO, a run that gets past the gate behind the assembly phase has    *)
(* the whole model in the scene.                                           *)
PlacedModelIsComplete == stage = "placed" /\ ao => \A f \in Families : Stands(f)

(* A plan that creates its template and duplicates it, with or without the *)
(* last line that deletes it (not a plan that deletes it without using it: *)
(* see ScaleComesBeforeInstances), but leaves out instances.               *)
Sound(f, plan) ==
  /\ Len(plan) = 1
  /\ LET acts == plan[1].actions
         t == plan[1].template
         n == Len(acts)
     IN  /\ t = Template(f)
         /\ n > 0 /\ acts[1] = Do("create", t, NoObject)
         /\ \A k \in 2 .. n :
              \/ acts[k].op = "duplicate" /\ acts[k].object = t /\ acts[k].to \in InstancesOf(f)
              \/ k = n /\ k > 2 /\ acts[k] = Do("delete", t, NoObject)

(* Such a plan is repaired: unless Blender fails, the part is built, every *)
(* instance the plan does not claim to have made is there, and the template*)
(* is gone unless the plan claims all.                                     *)
SoundPlanIsRepaired ==
  [][\A f \in Families :
       built[f] = "pending" /\ todo = f /\ built'[f] # "pending"
         /\ mode = "extracted" /\ Sound(f, answer) /\ ~faulty =>
           /\ built'[f] = "built"
           /\ InstancesOf(f) \ answer[1].declared \subseteq present
           /\ InstancesOf(f) \subseteq answer[1].declared \/ Template(f) \notin present]_vars

-----------------------------------------------------------------------------
(* What comments and documents say of the todos and the code does not do.  *)

(* markdown_artifacts.py:345, into every build plan: "Python validates each*)
(* builder step with scene queries before advancing".  A build by          *)
(* extracted actions is reported without a query.                          *)
BuiltPartsExist ==
  [][\A f \in Families :
       built[f] # "built" /\ built'[f] = "built" => InstancesOf(f) \subseteq present]_vars

(* build_phase.py:1101, as the reason of the scale that Python adds: "Python*)
(* normalized target bbox scale before instancing".  In a plan that deletes*)
(* the template without duplicating it, the missing duplicates go in front *)
(* of the deletion and the scale behind it, where it must fail.            *)
ScaleComesBeforeInstances ==
  [][stage = "build" /\ Idle /\ todo' # NoFamily /\ mode' = "extracted" =>
       \A p \in DOMAIN answer' :
         LET t == answer'[p].template
             acts == queue'[p]
         IN  ~Does(answer'[p].actions, "scale", t) =>
               \A k \in DOMAIN acts : acts[k].op = "duplicate" /\ acts[k].object = t =>
                 \E j \in 1 .. k : acts[j] = Do("scale", t, NoObject)]_vars

(* docs/blender_assembly_capabilities.md:17: "Only reference object names  *)
(* produced by build artifacts or earlier placement actions."  Python      *)
(* itself writes the name of a family into set_parent.                     *)
ParentsAreBuiltObjects ==
  stage = "assemble" =>
    \A p \in DOMAIN queue : \A k \in DOMAIN queue[p] :
      queue[p][k].op = "parent" => queue[p][k].to \in Instances
=============================================================================
