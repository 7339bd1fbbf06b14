------------------------------ MODULE Planning ------------------------------
(***************************************************************************)
(* The three phases that only talk: DesignPhase.run, SpecPhase.run and     *)
(* PlanPhase.run (multi_expert/phases/), their meetings held over AO.      *)
(*                                                                         *)
(* The design meeting has up to two rounds and ends with a list of parts   *)
(* that Python reads out of its text.  The specification and the planning  *)
(* phase take up one part after the other, one round each, then Python     *)
(* derives the artifact and marks which todos it covers (core/coverage.py).*)
(* The plan's contract issues are put to the meeting once more before the  *)
(* plan is computed again and returned.                                    *)
(*                                                                         *)
(* A behaviour either starts with the design, as Pipeline.run does, or is  *)
(* one call of PlanPhase.run with families of its caller, as the tests do: *)
(* parts of a design have no parents and no attachment points, so that the *)
(* dependency order and the assembly contract only matter then.            *)
(***************************************************************************)
EXTENDS Meeting, PartGraph, Sublists

CONSTANTS
  Order,        (* the part names, in the order sorted() gives them         *)
  HelperNames,  (* those that read like "anchor" or "socket"                *)
  BaseOf,       (* each name without a number at its end                    *)
  Designs,      (* the sets of names a design meeting may mention          *)
  Jobs          (* what PlanPhase.run is called with directly               *)

Names == {Order[i] : i \in DOMAIN Order}

(* A family is one of the names, and None is not a name.                   *)
ASSUME PlanningAssumption ==
  /\ Order \in Seq(Names) /\ NoFamily \notin Names
  /\ DOMAIN BaseOf = Names
  /\ Designs \subseteq SUBSET Names
  /\ \A j \in Jobs : j.families \subseteq Names

VARIABLES
  phase,    (* "design", "spec", "plan", "finished" or "failed"             *)
  job,      (* the parts of the design, or the caller's job                 *)
  target,   (* current_todo_group: the part a round is about, or NoFamily   *)
  queue,    (* the todo groups not taken up yet                             *)
  groups,   (* the status of each todo group                                *)
  plan,     (* PlanArtifact: steps and responsibilities                     *)
  notes,    (* its failure_notes                                            *)
  index     (* artifact_index.json: the status written for each document     *)

planningVars == <<phase, job, target, queue, groups, plan, notes, index>>
vars == <<aoVars, meetingVars, planningVars>>

NoPlan == [steps |-> {}, build |-> {}, assembly |-> {}]
NoFile == [NewMeeting EXCEPT !.status = "absent"]
NoJob ==
  [families |-> {}, parent |-> <<>>, spec |-> {}, points |-> {}, helpers |-> {}, base |-> <<>>]

(* build_design_artifact_from_markdown_state: parts without parents, whose *)
(* names may end in a number ("leg1", "leg-1": _clean_part_name takes only *)
(* "_1" and "_x1" off); build_spec_artifact_from_markdown_state makes a    *)
(* part without attachment points of every one of them.                    *)
DesignJob(names) ==
  [families |-> names, parent |-> [f \in names |-> NoFamily], spec |-> names,
   points |-> {}, helpers |-> names \cap HelperNames, base |-> [f \in names |-> BaseOf[f]]]

InOrder(names) == Among(Order, names)

-----------------------------------------------------------------------------
(* core/coverage.py.  The todos of one part stand and fall together: the   *)
(* plan computed by Python covers a part or leaves it out, and the spec    *)
(* has a geometry for every part, since a part the answers say nothing of  *)
(* is described by the text of its own todo group.                         *)

PlanGaps(j, p) == {f \in j.families : f \notin p.build \cap p.assembly}
SpecGaps(j) == j.families \ j.spec

(* _write_artifact and _update_index: the entry of a document in           *)
(* artifacts/artifact_index.json.                                         *)
Filed(doc, st) == index' = [index EXCEPT ![doc] = st]

Coverage(gaps) == {<<"coverage", f>> : f \in gaps}

(* _apply_coverage_to_state_and_artifact.                                  *)
WithCoverageBug(s, gaps) ==
  IF gaps = {} THEN s
  ELSE [s EXCEPT !.flags = @ \cup {"coverage_gap"}, !.open = @ \cup Coverage(gaps)]

WithCoverage(s, gaps) ==
  IF gaps = {} THEN s
  ELSE [s EXCEPT !.status = "needs_revision",
                 !.flags = @ \cup {"coverage_gap"},
                 !.open = @ \cup Coverage(gaps)]

(* sync_todo_group_status_with_coverage.                                   *)
Synced(gaps) ==
  [f \in DOMAIN groups |-> IF f \in gaps THEN "needs_revision" ELSE "accepted"]

-----------------------------------------------------------------------------
(* A phase begins: todos and their groups, and the first round, which is   *)
(* about the first group when there is one.                                *)

FirstTarget(names) == IF names = {} THEN NoFamily ELSE Head(InOrder(names))
Rest(names) == IF names = {} THEN <<>> ELSE Tail(InOrder(names))
Pending(names) == [f \in names |-> "pending"]

Init ==
  /\ AoInit /\ call = NewCall(1)
  /\ phase \in {"design", "plan"}
  /\ job \in IF phase = "plan" THEN Jobs ELSE {NoJob}
  /\ target = FirstTarget(job.families) /\ queue = Rest(job.families)
  /\ groups = Pending(job.families)
  /\ plan = NoPlan /\ notes = {}
  /\ index = [p \in {"design", "spec", "plan"} |-> "absent"]
  /\ m = [NewMeeting EXCEPT !.round = 1] /\ file = NoFile
  /\ turn = "proposal" /\ stage = "speak"
  /\ rounds = IF job.families = {} THEN 2 ELSE 1

OpenPhase(p, names) ==
  /\ phase' = p
  /\ target' = FirstTarget(names) /\ queue' = Rest(names) /\ groups' = Pending(names)
  /\ OpenRound(NewMeeting, 1) /\ file' = NoFile

Between == stage = "between" /\ phase \in {"design", "spec", "plan"}

(* _run_focused_todo_queue: a group whose round was held is accepted, and  *)
(* the next one gets a round of the same meeting.                          *)
NextGroup ==
  /\ Between /\ queue # <<>>
  /\ groups' = [groups EXCEPT ![target] = "accepted"]
  /\ target' = Head(queue) /\ queue' = Tail(queue)
  /\ OpenRound(m, m.round + 1)
  /\ UNCHANGED <<phase, job, plan, notes, index, file, mode, wireVars>>

(* The names are those the texts of the meeting mention; without any, the  *)
(* design is one "main_object".                                            *)
DesignReturns ==
  /\ Between /\ phase = "design"
  /\ \E names \in Designs : job' = DesignJob(names) /\ OpenPhase("spec", names)
  /\ Filed("design", m.status)
  /\ UNCHANGED <<plan, notes, mode, wireVars>>

(* _extract_and_validate_spec, write_spec_markdown and the last persist;   *)
(* then the pipeline calls the plan phase with the same families.          *)
SpecReturns ==
  /\ Between /\ phase = "spec" /\ queue = <<>>
  /\ SpecGaps(job) = {}
  /\ Filed("spec", m.status)
  /\ OpenPhase("plan", job.families)
  /\ UNCHANGED <<job, plan, notes, mode, wireVars>>

(* The end of PlanPhase.run: final contract issues become failure notes,   *)
(* the documents are written with the status the meeting has by then, and  *)
(* the state is persisted with its final one.                              *)
ReturnPlan(s, p) ==
  LET issues == PlanIssues(job, p)
      gaps == PlanGaps(job, p)
      flagged == IF issues = {} THEN s
                 ELSE [s EXCEPT !.flags = @ \cup {"unresolved_planning_gap",
                                                  "invalid_planning_structure"}]
      final == IF s.status = "needs_revision" THEN flagged ELSE Closed(flagged)
  IN  /\ notes' = Coverage(gaps) \cup issues
      /\ Filed("plan", s.status)
      /\ m' = final /\ file' = final
      /\ phase' = "finished" /\ HangUp

(* build_execution_dag raises on a circular dependency.                    *)
PlanRaises ==
  /\ Between /\ phase = "plan" /\ queue = <<>> /\ Cyclic(job)
  /\ phase' = "failed"
  /\ UNCHANGED <<job, target, queue, groups, plan, notes, index, meetingVars, aoVars>>

Drafted == Between /\ phase = "plan" /\ queue = <<>> /\ ~Cyclic(job)

PlanReturns ==
  LET p == ComputedPlan(job)
      gaps == PlanGaps(job, p)
  IN  /\ Drafted /\ PlanIssues(job, p) = {}
      /\ plan' = p /\ groups' = Synced(gaps)
      /\ ReturnPlan(WithCoverage(m, gaps), p)
      /\ UNCHANGED <<job, target, queue, turn, stage, rounds, mode, wireVars>>

(* _run_contract_clarification: Python puts the missing fields to the      *)
(* meeting as a challenge of its own ...                                   *)
AskToClarify ==
  LET p == ComputedPlan(job)
      gaps == PlanGaps(job, p)
      covered == WithCoverage(m, gaps)
      challenged == Challenged([covered EXCEPT !.round = @ + 1], TRUE)
  IN  /\ Drafted /\ PlanIssues(job, p) # {}
      /\ groups' = Synced(gaps)
      /\ m' = challenged /\ file' = challenged
      /\ turn' = "clarify" /\ stage' = "speak" /\ Ask
      /\ UNCHANGED <<phase, job, target, queue, plan, notes, index, rounds, mode, wireVars>>

Clarified ==
  /\ phase = "plan" /\ Speaks("clarify")
  /\ file' = m
  /\ turn' = "ruling" /\ Ask
  /\ UNCHANGED <<stage, m, rounds, planningVars, mode, wireVars>>

(* ... and computes the plan again, from what it was computed before: the  *)
(* answers do not enter it.                                                *)
Ruled ==
  LET p == ComputedPlan(job)
      gaps == PlanGaps(job, p)
  IN  /\ phase = "plan" /\ Speaks("ruling")
      /\ \E left \in 0 .. MaxOpen :
           ReturnPlan(WithCoverage(Resolved(m, left), gaps), p)
      /\ plan' = p /\ groups' = Synced(gaps)
      /\ stage' = "between"
      /\ UNCHANGED <<job, target, queue, turn, rounds, mode, wireVars>>

(* A call that fails is not caught by the phase.                           *)
PhaseFails ==
  /\ stage = "speak" /\ call.state = "failed"
  /\ phase' = "failed" /\ stage' = "between" /\ HangUp
  /\ UNCHANGED <<turn, m, rounds, file, job, target, queue, groups, plan, notes, index,
                 mode, wireVars>>

Over == phase \in {"finished", "failed"}

Next ==
  \/ MeetingNext /\ UNCHANGED <<planningVars, mode, wireVars>>
  \/ NextGroup \/ DesignReturns \/ SpecReturns
  \/ PlanRaises \/ PlanReturns \/ AskToClarify \/ Clarified \/ Ruled
  \/ PhaseFails
  \/ ~Over /\ AoNext /\ UNCHANGED <<meetingVars, planningVars>>

(* The pipeline's thread runs on and AO works on what it received; faults  *)
(* may happen and need not.                                                *)
Progress ==
  \/ MeetingNext /\ UNCHANGED <<planningVars, mode, wireVars>>
  \/ NextGroup \/ DesignReturns \/ SpecReturns
  \/ PlanRaises \/ PlanReturns \/ AskToClarify \/ Clarified \/ Ruled
  \/ PhaseFails
  \/ ~Over /\ AoProgress /\ UNCHANGED <<meetingVars, planningVars>>

Spec == Init /\ [][Next]_vars /\ WF_vars(Progress)

-----------------------------------------------------------------------------
TypeOK ==
  /\ AoTypeOK
  /\ turn \in TurnKinds /\ stage \in {"speak", "summary", "between"}
  /\ rounds \in Nat
  /\ \A s \in {m, file} :
       /\ s.round \in Nat /\ s.challenge \in 0 .. s.round
       /\ s.status \in {"absent", "in_progress", "resolved", "needs_followup",
                        "needs_revision", "completed", "completed_with_open_issues"}
  /\ phase \in {"design", "spec", "plan", "finished", "failed"}
  /\ target \in Names \cup {NoFamily}
  /\ queue \in Seq(Names)
  /\ \A f \in DOMAIN groups : groups[f] \in {"pending", "accepted", "needs_revision"}
  /\ plan \in [steps : SUBSET Names, build : SUBSET Names, assembly : SUBSET Names]

(* A crash loses at most the turn in progress: whenever an expert is asked *)
(* to speak, everything the turns before it decided (open issues, settled  *)
(* challenges, flags, status) is in the phase's meeting_state file, except *)
(* for the number of the round just opened (persist_phase_meeting_state    *)
(* after every turn).                                                      *)
CrashLosesOneTurn ==
  ~Over /\ stage = "speak" /\ ~(m.round = 1 /\ turn = "proposal") =>
    [file EXCEPT !.round = m.round, !.challenge = m.challenge] = m

(* What the plan phase found out about its plan is told in three places    *)
(* that must agree when it returns: the failure notes of the artifact,     *)
(* which stop the pipeline, the meeting state on disk, which the bridge    *)
(* shows, and the todo groups.  A status "completed" goes with no open     *)
(* issue, and build_plan.md is not marked accepted when the state says it  *)
(* needs revision.                                                         *)
VerdictIsRecorded ==
  phase = "finished" =>
    /\ (notes # {}) <=> \/ file.status = "needs_revision"
                        \/ "unresolved_planning_gap" \in file.flags
    /\ file.status = "completed" => file.open = {}
    /\ (file.status = "needs_revision") <=> (index["plan"] = "needs_revision")
    /\ \A f \in job.families :
         (groups[f] = "needs_revision") <=> (<<"coverage", f>> \in notes)

(* No family is lost between the decomposition and the plan without a      *)
(* word: those the layers of the dependency graph leave out (they hang,    *)
(* directly or not, under a parent nobody defines) are exactly those whose *)
(* coverage gap is among the failure notes.                                *)
NoFamilyLost ==
  phase = "finished" =>
    \A f \in job.families :
      /\ (f \notin plan.steps) <=> (<<"coverage", f>> \in notes)
      /\ (f \notin plan.steps) <=> ({f} \cup Ancestors(job, f)) \cap Orphans(job) # {}

(* A plan returned without failure notes can be executed: the build and    *)
(* the assembly phase get an item for every family and skip none, and the  *)
(* parent of every family is planned in an earlier layer, so that it is    *)
(* built and placed first.                                                 *)
CleanPlanIsExecutable ==
  phase = "finished" /\ notes = {} =>
    /\ BuildItems(job, plan) = job.families
    /\ AssemblyItems(job, plan) = job.families
    /\ Skipped(job, plan) = {}
    /\ \A f \in job.families :
         job.parent[f] # NoFamily =>
           /\ job.parent[f] \in job.families
           /\ LayerOf(job, job.parent[f]) < LayerOf(job, f)

(* Nobody but the moderator takes an issue off the list: while a phase is  *)
(* discussed an open issue goes away only by a resolution, and a challenge *)
(* only by the resolution of its own round, never because a group's round  *)
(* is over, the next one begins or the plan is computed.                   *)
ModeratorSettles ==
  [][ phase' \in {phase, "finished", "failed"} =>
        /\ ~(m.open \subseteq m'.open) => stage = "speak" /\ turn \in {"resolution", "ruling"}
        /\ \A r \in 1 .. m.round :
             Raised(r) \in m.open \ m'.open => r = m.round ]_vars

(* Every planning run ends: rounds are bounded, a failing summary does not *)
(* stop a meeting, retries are bounded and a failed call ends its phase.   *)
PlanningEnds == <>(phase \in {"finished", "failed"})
=============================================================================
