---------------------------- MODULE PipelineRun ----------------------------
(***************************************************************************)
(* One run of the multi-expert pipeline: run_pipeline (pipelines/          *)
(* runners.py) opens a conversation with the Agent Orchestrator (AO), runs *)
(* the six phases of Pipeline.run (multi_expert/pipeline/pipeline.py),     *)
(* reports through progress.json and destroys the conversation.            *)
(*                                                                         *)
(* Pipeline.run is also called without an AO conversation.  Then no result *)
(* ends the run early and the runner has no part in it.                    *)
(*                                                                         *)
(* A phase is what it hands to the next one, and whether it raised.  Every *)
(* call that leaves the process (AO, progress.json, meetings.jsonl) may    *)
(* fail.                                                                   *)
(***************************************************************************)
EXTENDS Integers, Sequences

Design == 1
Specify == 2
Plan == 3
Build == 4
Assemble == 5
Validate == 6
PhaseIds == Design .. Validate
PhaseName == <<"design", "spec", "plan", "build", "assemble", "validate">>

(* PHASE_ORDER of the adapter, by which it looks up phase_statuses.        *)
AdapterName == <<"design", "specs", "plan", "build", "assembly", "validation">>

VARIABLES
  ao,            (* the run has an AO conversation (action_llm is not None) *)
  destroy,       (* agent_orchestrator_destroy_on_finish                    *)
  pc,            (* the next thing the run does                             *)
  phase,         (* the phase it is at                                      *)
  product,       (* what each phase handed on                               *)
  statuses,      (* phase_statuses                                          *)
  degraded,      (* degraded_parts: the phases that failed, as they failed  *)
  verdict,       (* the status of the result, or raised                     *)
  file,          (* progress.json                                           *)
  conversation   (* the AO conversation of the run                          *)

phaseVars == <<phase, product, statuses, degraded>>
vars == <<ao, destroy, pc, phaseVars, verdict, file, conversation>>

Pcs == {"begin", "provision", "configure", "start", "work", "end", "flush", "gate",
        "report", "close", "delete", "ended"}

(* none: not run.  good: the artifact is usable.  flawed: it says itself   *)
(* what is wrong (failure notes, a blocked build or assembly step, a       *)
(* validation that did not pass).  empty: the default artifact that stands *)
(* in for one that was never made, or a build without results.             *)
Products == {"none", "good", "flawed", "empty"}

Snapshot(status, stage, health) == [status |-> status, stage |-> stage, health |-> health]
NoFile == Snapshot("absent", "", "")
TornFile == Snapshot("torn", "", "")

Files ==
  [status : {"absent", "torn", "running", "completed", "degraded", "partial", "failed"},
   stage : {"", "unknown", "completed"} \cup {PhaseName[p] : p \in PhaseIds}
             \cup {AdapterName[p] : p \in PhaseIds},
   health : {"", "running", "completed", "degraded", "partial", "failed"}]

Verdicts == {"none", "SUCCESS", "DEGRADED", "PARTIAL", "FAILED", "raised"}
Results == Verdicts \ {"none", "raised"}

Init ==
  /\ ao \in BOOLEAN
  /\ destroy \in BOOLEAN
  /\ pc = IF ao THEN "begin" ELSE "start"
  /\ phase = Design
  /\ product = [p \in PhaseIds |-> "none"]
  /\ statuses = [p \in PhaseIds |-> "none"]
  /\ degraded = <<>>
  /\ verdict = "none"
  /\ file = NoFile
  /\ conversation = "none"

-----------------------------------------------------------------------------
(* What the steps compute.  A definition named ...Bug is the code with a   *)
(* plausible fault; the mutation runs put it in the place of the operator  *)
(* that follows it.                                                        *)

Listed(p) == \E i \in DOMAIN degraded : degraded[i] = p

(* What a phase can return, when it returns.                               *)
Returns(p) ==
  {"good"} \cup (IF p = Design THEN {} ELSE {"flawed"})
           \cup (IF p = Build THEN {"empty"} ELSE {})

(* With AO, the result of phase p ends the run: failure notes of the       *)
(* specification or the plan, no plan, no or blocked builds, a blocked     *)
(* assembly step.                                                          *)
EndsRunBug(p) == ao /\ p \in Specify .. Assemble /\ product[p] = "flawed"
EndsRun(p) ==
  /\ ao
  /\ \/ p \in Specify .. Assemble /\ product[p] = "flawed"
     \/ p \in {Plan, Build} /\ product[p] = "empty"

(* statuses.setdefault(...): the phases that will not run count as failed. *)
CondemnedBug(p) == [statuses EXCEPT ![p] = "FAILED"]
Condemned(p) == [q \in PhaseIds |-> IF q >= p THEN "FAILED" ELSE statuses[q]]

(* degraded.append at a gate; the build gate looks first.                  *)
GateDegradedBug(p) == Append(degraded, p)
GateDegraded(p) ==
  IF product[p] = "flawed" \/ ~Listed(p) THEN Append(degraded, p) ELSE degraded

(* A validation that did not pass fails the last phase.                    *)
FinalStatuses ==
  IF product[Validate] = "good" THEN statuses ELSE [statuses EXCEPT ![Validate] = "FAILED"]

(* The overall status of a run no gate ended.                              *)
OverallStatus(st) ==
  IF \A p \in PhaseIds : st[p] = "SUCCESS" THEN "SUCCESS"
  ELSE IF \E p \in PhaseIds : st[p] = "FAILED" THEN "DEGRADED" ELSE "PARTIAL"

(* _map_overall_status and _STATUS_MAP *)
StatusOf(v) ==
  [SUCCESS |-> "completed", DEGRADED |-> "degraded", PARTIAL |-> "partial",
   FAILED |-> "failed"][v]

(* phase_statuses.get(name) of the adapter finds something.                *)
Finds(k, st) == \E p \in PhaseIds : PhaseName[p] = AdapterName[k] /\ statuses[p] \in st

(* _determine_current_stage *)
CurrentStage ==
  LET failing == {k \in PhaseIds : Finds(k, {"FAILED"})}
      known   == {k \in PhaseIds : Finds(k, {"SUCCESS", "FAILED"})}
  IN  IF verdict # "FAILED" THEN "completed"
      ELSE IF failing # {}
        THEN AdapterName[CHOOSE k \in failing : \A j \in failing : k <= j]
      ELSE IF known # {}
        THEN AdapterName[CHOOSE k \in known : \A j \in known : k >= j]
      ELSE "unknown"

(* final_artifact_to_snapshot *)
FinalSnapshotBug == Snapshot(verdict, CurrentStage, verdict)
FinalSnapshot == Snapshot(StatusOf(verdict), CurrentStage, StatusOf(verdict))

(* A write of progress.json that may fail: the file is opened for writing, *)
(* which empties it, and then filled.                                      *)
Write(snapshot) == file' \in {snapshot, file, TornFile}

(* The final write: when it fails, run_pipeline raises.                    *)
WriteResultBug == Write(FinalSnapshot) /\ UNCHANGED verdict
WriteResult ==
  \/ file' = FinalSnapshot /\ UNCHANGED verdict
  \/ file' \in {file, TornFile} /\ verdict' = "raised"

(* progress_callback: a failed write must not disturb the pipeline.        *)
ShowProgress(health) ==
  IF ao THEN Write(Snapshot("running", PhaseName[phase], health)) ELSE UNCHANGED file

(* Leaving run_pipeline's try block: the AO conversation is cleaned up.    *)
Leave == pc' = IF ao THEN "close" ELSE "ended"

-----------------------------------------------------------------------------
(* The runner, up to the pipeline.                                         *)

(* The settings name no AO server, or the first snapshot cannot be written.*)
BeginRaises ==
  /\ pc = "begin"
  /\ file' \in {file, TornFile}
  /\ verdict' = "raised"
  /\ pc' = "ended"
  /\ UNCHANGED <<ao, destroy, phaseVars, conversation>>

Begin ==
  /\ pc = "begin"
  /\ file' = Snapshot("running", PhaseName[Design], "running")
  /\ pc' = "provision"
  /\ UNCHANGED <<ao, destroy, phaseVars, verdict, conversation>>

(* provision_agent_orchestrator, first half: health and the conversation.  *)
CreateConversation ==
  /\ pc = "provision"
  /\ conversation' = "open"
  /\ pc' = "configure"
  /\ UNCHANGED <<ao, destroy, phaseVars, verdict, file>>

(* ... second half: configuration, skills, agents, start, ready, connect.  *)
ConversationReady ==
  /\ pc = "configure"
  /\ pc' = "start"
  /\ UNCHANGED <<ao, destroy, phaseVars, verdict, file, conversation>>

(* Provisioning is outside the try block that destroys the conversation.   *)
ProvisionRaises ==
  /\ pc \in {"provision", "configure"}
  /\ verdict' = "raised"
  /\ pc' = "ended"
  /\ UNCHANGED <<ao, destroy, phaseVars, file, conversation>>

-----------------------------------------------------------------------------
(* Pipeline.run.                                                           *)

StartPhase ==
  /\ pc = "start"
  /\ ShowProgress("running")
  /\ pc' = "work"
  /\ UNCHANGED <<ao, destroy, phaseVars, verdict, conversation>>

(* prompt_observer, called by Pipeline.run and after each AO answer.  An   *)
(* OSError raised in the second place fails the phase (PhaseRaises).       *)
ObservePrompt ==
  /\ pc = "work" /\ ao
  /\ ShowProgress("running")
  /\ UNCHANGED <<ao, destroy, pc, phaseVars, verdict, conversation>>

PhaseReturns(artifact) ==
  /\ pc = "work"
  /\ artifact \in Returns(phase)
  /\ product' = [product EXCEPT ![phase] = artifact]
  /\ statuses' = [statuses EXCEPT ![phase] = "SUCCESS"]
  /\ pc' = "end"
  /\ UNCHANGED <<ao, destroy, phase, degraded, verdict, file, conversation>>

(* The exception is logged and an empty artifact takes the result's place. *)
PhaseRaises ==
  /\ pc = "work"
  /\ product' = [product EXCEPT ![phase] = "empty"]
  /\ statuses' = [statuses EXCEPT ![phase] = "FAILED"]
  /\ degraded' = Append(degraded, phase)
  /\ pc' = "end"
  /\ UNCHANGED <<ao, destroy, phase, verdict, file, conversation>>

EndPhase ==
  /\ pc = "end"
  /\ ShowProgress("completed")
  /\ pc' = "flush"
  /\ UNCHANGED <<ao, destroy, phaseVars, verdict, conversation>>

(* _flush_events: an OSError of meetings.jsonl leaves Pipeline.run.        *)
FlushEvents ==
  /\ pc = "flush"
  /\ \/ pc' = "gate" /\ UNCHANGED verdict
     \/ Leave /\ verdict' = "raised"
  /\ UNCHANGED <<ao, destroy, phaseVars, file, conversation>>

StopEarly ==
  /\ pc = "gate"
  /\ EndsRun(phase)
  /\ statuses' = Condemned(phase)
  /\ degraded' = GateDegraded(phase)
  /\ verdict' = "FAILED"
  /\ pc' = "report"
  /\ UNCHANGED <<ao, destroy, phase, product, file, conversation>>

NextPhase ==
  /\ pc = "gate"
  /\ ~EndsRun(phase)
  /\ phase < Validate
  /\ phase' = phase + 1
  /\ pc' = "start"
  /\ UNCHANGED <<ao, destroy, product, statuses, degraded, verdict, file, conversation>>

Conclude ==
  /\ pc = "gate"
  /\ phase = Validate
  /\ statuses' = FinalStatuses
  /\ degraded' = IF product[Validate] = "good" \/ Listed(Validate)
                 THEN degraded ELSE Append(degraded, Validate)
  /\ verdict' = OverallStatus(statuses')
  /\ pc' = "report"
  /\ UNCHANGED <<ao, destroy, phase, product, file, conversation>>

-----------------------------------------------------------------------------
(* The runner, after the pipeline.                                         *)

Report ==
  /\ pc = "report"
  /\ \/ ao /\ WriteResult
     \/ ~ao /\ UNCHANGED <<file, verdict>>
  /\ Leave
  /\ UNCHANGED <<ao, destroy, phaseVars, conversation>>

(* ao_client.close(): closing the socket may raise, and then the           *)
(* conversation is not deleted.                                            *)
CloseConnection ==
  /\ pc = "close"
  /\ \/ pc' = "delete" /\ UNCHANGED verdict
     \/ pc' = "ended" /\ verdict' = "raised"
  /\ UNCHANGED <<ao, destroy, phaseVars, file, conversation>>

(* A refusal by AO is ignored.                                             *)
DeleteConversationBug == conversation' = conversation
DeleteConversation == conversation' \in (IF destroy THEN {"deleted", "refused"} ELSE {"open"})

Finish ==
  /\ pc = "delete"
  /\ DeleteConversation
  /\ pc' = "ended"
  /\ UNCHANGED <<ao, destroy, phaseVars, verdict, file>>

Next ==
  \/ BeginRaises \/ Begin
  \/ CreateConversation \/ ConversationReady \/ ProvisionRaises
  \/ StartPhase \/ ObservePrompt
  \/ \E artifact \in Products : PhaseReturns(artifact)
  \/ PhaseRaises \/ EndPhase \/ FlushEvents
  \/ StopEarly \/ NextPhase \/ Conclude
  \/ Report \/ CloseConnection \/ Finish

Spec == Init /\ [][Next]_vars

-----------------------------------------------------------------------------
(* The type invariant. *)
TypeOK ==
  /\ ao \in BOOLEAN
  /\ destroy \in BOOLEAN
  /\ pc \in Pcs
  /\ phase \in PhaseIds
  /\ product \in [PhaseIds -> Products]
  /\ statuses \in [PhaseIds -> {"none", "SUCCESS", "FAILED"}]
  /\ degraded \in Seq(PhaseIds)
  /\ verdict \in Verdicts
  /\ file \in Files
  /\ conversation \in {"none", "open", "deleted", "refused"}

(* A result of status SUCCESS means what it says: all six phases ran, none *)
(* worked on the empty artifact of one that raised, nothing is listed as   *)
(* degraded, the validation passed, and with AO no artifact said that      *)
(* something is wrong.                                                     *)
SuccessIsClean ==
  verdict = "SUCCESS" =>
    /\ degraded = <<>>
    /\ \A p \in PhaseIds : statuses[p] = "SUCCESS" /\ product[p] # "none"
    /\ product[Validate] = "good"
    /\ ao => \A p \in PhaseIds : product[p] = "good"

(* A result of status FAILED comes from a gate: only a run with AO has it, *)
(* no phase behind the gate has run, and each of them is reported as       *)
(* failed, so that no reader of phase_statuses takes it for skipped.       *)
FailedRunStoppedAtGate ==
  verdict = "FAILED" =>
    /\ ao /\ product[phase] \in {"flawed", "empty"}
    /\ \A p \in PhaseIds :
         /\ p < phase => product[p] # "none"
         /\ p > phase => product[p] = "none"
         /\ p >= phase => statuses[p] = "FAILED"

(* degraded_parts, from which the stop reason is made, names every phase   *)
(* that ran and failed, once, and no other.                                *)
DegradedNamesFailedPhases ==
  verdict \in Results =>
    /\ \A p \in PhaseIds : Listed(p) <=> statuses[p] = "FAILED" /\ product[p] # "none"
    /\ \A i, j \in DOMAIN degraded : degraded[i] = degraded[j] => i = j

(* When run_pipeline returns, progress.json tells the status of what it    *)
(* returns, whatever writes failed on the way.                             *)
ResultIsOnFile ==
  pc = "ended" /\ ao /\ verdict \in Results =>
    /\ file.status = StatusOf(verdict)
    /\ file.health = StatusOf(verdict)

(* When run_pipeline returns and was told to destroy the conversation, it  *)
(* has asked AO to.  (When it raises, the conversation may be left open.)  *)
ConversationDestroyed ==
  pc = "ended" /\ ao /\ destroy /\ verdict \in Results => conversation \in {"deleted", "refused"}

-----------------------------------------------------------------------------
(* What comments and documents say of a run and the code does not do.      *)

(* _determine_current_stage (adapter.py:138-141): of a FAILED run the stage*)
(* is "the first phase that has a FAILED status".  The adapter looks for   *)
(* specs, assembly and validation under names the pipeline does not use.   *)
StageIsFirstFailedPhase ==
  file.status = "failed" =>
    \E p \in PhaseIds :
      /\ file.stage \in {PhaseName[p], AdapterName[p]}
      /\ statuses[p] = "FAILED"
      /\ \A q \in PhaseIds : q < p => statuses[q] # "FAILED"

-----------------------------------------------------------------------------
(* Refinement: a run keeps the contract of RunContract.                    *)
Contract == INSTANCE RunContract WITH
  PhaseCount <- 6,
  FirstGate  <- Specify,
  finished   <- IF product[phase] = "none" THEN phase - 1 ELSE phase,
  failed     <- {p \in PhaseIds : statuses[p] = "FAILED"},
  verdict    <- verdict
ImplementsContract == Contract!Spec

=============================================================================
