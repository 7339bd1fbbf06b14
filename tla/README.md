# A verification of the Blender multi-expert agent

TLA+ models of the agent that turns a prompt into a Blender scene, TLC
configurations that check them on small instances, and TLAPS proofs of what
matters most for every value of the constants. `PROJECT.json` lists the
components, runs, mutants, findings, hazards and theorems and maps every
modelled definition to the lines of source it stands for.

Paths below are relative to the repository; `agent/` abbreviates
`src/ai_3d_modeling_agent/`.

## 1. Inventory

A browser workspace talks over HTTP and a WebSocket to the **bridge**, a Python
process. A start request spawns a **pipeline thread** in that process. The
pipeline runs six phases; most of them ask language-model experts through an
**Agent Orchestrator** (AO) server and two of them act on **Blender** through an
MCP server. What a run does is reported through files of the session
(`progress.json`, `meetings.jsonl`, `activity.jsonl`) and through events the
bridge pushes to the browser.

| component | source | state it keeps | operations |
| --- | --- | --- | --- |
| Bridge run lifecycle | `agent/gui/bridge.py`, `scripts/run_ui_bridge.py` | run_statuses, retry_plans, last_run_payloads, the session directories, pending_interaction.json, the process-wide sys.stdout | create, save, delete a session; start, retry, decline a retry; the pipeline thread; restart |
| Pipeline of a run | `agent/pipelines/runners.py`, `agent/multi_expert/pipeline/` | phase artifacts, phase_statuses, degraded_parts, progress.json, the AO conversation | provision AO, run a phase, gate, conclude, report, clean up |
| Event persistence | `agent/io/buffered_writer.py`, `agent/io/flush_manager.py` | buffer, lock, flusher thread, meetings.jsonl | append, flush, start, stop |
| AO client | `agent/services/agent_orchestrator.py` | connection, request ids, conversation | provision, post, send, receive, retry, reconnect, close |
| Build phase | `agent/multi_expert/phases/build_phase.py`, `core/builder_intent.py`, `core/action_plan.py` | per-part artifacts, the scene | fail-fast rules, todo loop, reading of answers, normalization, execution |
| Assembly phase | `agent/multi_expert/phases/assemble_phase.py` | per-part steps, the scene | place todos, transforms, parents |
| Design, specification and plan phases | `phases/design_phase.py`, `phases/spec_phase.py`, `phases/plan_phase.py`, `core/planning.py`, `core/markdown_artifacts.py`, `core/coverage.py` | todo groups, plan, failure notes, artifact_index.json | discuss a todo group, derive an artifact, check it, clarify, return |
| Validation phase | `phases/validate_phase.py`, `core/validator.py` | errors, warnings, the verdict | five checks of the scene, the inspector, the verdict |
| Expert meetings | `core/meeting.py`; `core/convener.py` and `core/termination.py`, which no moderated phase uses | PhaseMeetingState, meeting_state_<phase>.json | propose, challenge, respond, resolve, summarize, close |
| Review and corrections | `multi_expert/review/` | correction queue, round | request, gate; called by tests only |
| Part scheduling | `agent/pipelines/dag_scheduler.py` | none (pure) | batches of a dependency graph |
| Checkpoints | `agent/pipelines/checkpoint_manager.py` | checkpoint files | save, load; used by tests only |
| Session index | `agent/gui/bridge.py`, `agent/memory/session_paths.py` | ui_state.json | list, create, save, make current, delete |
| Activity stream | `agent/gui/bridge.py`, `scripts/run_ui_bridge.py` | subscribers, their queues, cursors, activity.jsonl | publish, subscribe, forward, ask for a snapshot |
| React workspace | `ui/src` | store of one tab, local storage | activate, synchronize, socket events, reconnect, poll, save, start, create, delete, reload |
| Blender adapter | `agent/blender/mcp_adapter.py` | the scene, in Blender | create, duplicate, delete, move, parent, query |
| Legacy coordinator, perception, prompts, settings | `agent/decision`, `agent/perception`, ... | none of their own the runs depend on | not modelled (section 11) |

### How the parts interact

* Every HTTP request has a thread of its own (`ThreadingHTTPServer`), every
  accepted start a daemon thread. They share the dictionaries of
  `GuiBridgeService` under `process_lock`, the session directory without a lock,
  and `sys.stdout`, which each pipeline thread replaces by a TeeWriter.
* The pipeline thread calls the phases; each phase hands an artifact to the next.
  Callbacks write `progress.json` before and after a phase and after AO answers.
* Each run has a `BufferedWriter` filled by the pipeline thread and flushed by it
  and by the thread of its `FlushManager`; two runs of one session share the file.
* The browser polls snapshots and receives activity events; both are derived from
  the same files and dictionaries.

### What is hard

Overlapping runs of one session (a start does not look whether one is running);
state read before a lock and written after it; exceptions on every call that
leaves the process, half-way writes included; phases that fail but do not end the
run; a session deleted under its run; a restart that loses memory and keeps disk;
flushes by two threads and retried after a failure; AO retries of messages that
may have been acted upon. `PROJECT.json` lists each at its line.

### What makes each component correct

* **Bridge**: a status that says "running" or "starting" is true and is followed
  by one that says how it ended; one that says "ended" means nothing runs; output
  never disappears into a tee that forwards to itself; the user is asked to retry
  only while nothing runs; deleting a session removes it.
* **Pipeline**: a status of success means that all phases ran and worked; a failed
  run names where it stopped; what was reported to disk is what was returned; the
  AO conversation is cleaned up.
* **Event persistence**: no event lost, doubled or out of order, none kept in
  memory for good.
* **Build and assembly**: a part reported built exists in the scene; the parts of an
  assembly stand where the plan says, under the parent it names.
* **Snapshot**: a model that is shown as assembled or validated is in the scene.
* **AO client**: an answer belongs to the prompt it is handed out for; a prompt is
  not sent without bound.
* **Meetings and planning**: an issue goes away only by a decision; what was decided
  survives a crash; a family is planned or reported missing; a plan returned as clean
  can be executed; planning ends.
* **Sessions and browser**: no update of the list is lost; a tab that has nothing
  more to wait for shows the session as the bridge has it, each activity once.

## 2. Plan

Core first, because everything else runs inside it. Done:

1. `BridgeRuns` with `BridgeRunsProofs`.
2. `RunContract`, the abstract run; `PipelineRun`, the runner and the pipeline,
   shown to implement it; `PipelineRunProofs`.
3. `EventBuffer` with `EventBufferProofs`.
4. `ActionPlans`, what Python makes of an answer; `BuilderTodos`, the build and
   placement loops with a scene, which extends it and `Sublists`, what a comprehension
   with a condition keeps of a list.
5. `Inspection`, which carries `BuilderTodos` on through validation to the final
   snapshot; `BuilderTodosProofs` for both, on the lemmas of `SublistProofs`.
6. `AoClient`, one prompt over HTTP or WebSocket; `Meeting`, the turns that are such
   prompts, on top of it; `PartGraph`, layers, plan and contract as operators;
   `Planning`, the three talking phases, composed of `Meeting` and `PartGraph`;
   `PlanningProofs` for all three, on the facts about graphs in `PartGraphProofs`.
7. `SessionIndex`, `ActivityStream`, `Requests`, each extending the one before: the
   bridge seen from the browser; `Workspace`, the tab on top of them;
   `WorkspaceProofs`.

Composition: `RunContract` <- `PipelineRun`; `ActionPlans` <- `BuilderTodos` <-
`Inspection`; `AoClient` <- `Meeting` <- `Planning` -> `PartGraph`; `SessionIndex` <-
`ActivityStream` <- `Requests` <- `Workspace`.

`Sublists` is used by `BuilderTodos`, `Planning` and `Workspace`.

Left, in this order: retry and stop in `Workspace`; two runs that share a scene. Every
safety invariant the runs check has its theorem. The modules are written for proofs as well as for
TLC: constants have named assumptions, each operation is one action, invariants are
conjunctions of named parts, nothing is `RECURSIVE` (the layers of a graph and the
elements kept of a list are recursive functions).

## 3. BridgeRuns

One step is what runs between two points at which another thread can be seen:
entry to and exit from `process_lock`, a file-system call, the MCP call, an access
to `sys.stdout`.

| TLA+ | code |
| --- | --- |
| `workflow`, `attempt` | `run_statuses[s]["workflow_status"]`, `["attempt_index"]` |
| `decision`, `remaining`, `payloads` | `retry_plans[s]`, `last_run_payloads` |
| `listed`, `dirs`, `pending` | `ui_state.json`, the runtime directories, `pending_interaction.json` |
| `reqPc`, `reqSession`, `reqAttempt` | the local state of request threads; `reqAttempt` is the index a refused start read outside the lock |
| `runPc`, `runSession` | pipeline threads, `_run_inprocess_thread` |
| `stdout`, `original` | `sys.stdout` and the stream each TeeWriter forwards to |
| `StartRun`, `RetryRun`, `ClearRetryPrompt` | `start_run`, `retry_run`, `clear_retry_prompt` |
| `McpConnected`, `McpRefused`, `ReportRefusal`, `Launch`, `Spawn` | `start_inprocess_run`, in order |
| `SetupRaises`, `SpawnRaises`, `FlushStartRaises` | an exception before the status "starting" is written (953-957), behind it (970-1007), and at `flush_mgr.start()`, which stands before the `try` of the thread (1284) |
| `McpCall`, `McpAnswers` | a tool call of the running pipeline, which has no timeout |
| `DeleteSession`, `RemoveRuntimeDir` | `delete_session`; for a run in a thread `stop_run` does nothing |
| `CaptureStdout` ... `StopFlushing` | the body, `except` and `finally` of the thread |
| `Restart` | the process ends: memory is gone, disk stays |

`removed`, `stranded`, `contended` and `crossed` are history variables: sessions that
were deleted, sessions whose last status is the "starting" of a launch that died where
no handler is (until the next status is written), sessions asked to run while running,
and whether two runs held `sys.stdout` together. They say in which cases the code keeps a promise: for
example an overlapped run may report "completed" while a newer one still runs, and
two runs that end in the order they started leave `sys.stdout` at the first one's
tee.

Properties: `TeeChainIsGrounded`, `StdoutRestoredAfterRuns`, `BusyHasActor`,
`EndedMeansQuiet`, the action property `AttemptGoesBackOnlyByRefusal`, the liveness
property `RunsAreReported`.

A launch that raises behind its status leaves the session "starting" with nobody to
change it: a disk that is full, a thread the process cannot make, a directory that
cannot be written. `BusyHasActor` says how far that goes: "running" always has a thread
inside its `try` block, "starting" has a thread that will still write the status or is
such a launch, whatever else overlapped, and the next run of the session mends it.

**Bounds** (`BridgeRuns.cfg`): one session, two request threads, two pipeline
threads, attempt index up to 3, one restart, retry count 1. Sessions share only
`sys.stdout` and request threads with each other, and two runs of *one* session
already contend for both these and the status, so the second session adds only
states in which the runs do not meet; the proofs hold for any number. Two
overlapping runs are what a crossed restore or a stale status needs; one restart
between two runs is what stale disk state needs.

**Fairness**: request threads are scheduled except in "connect", where the MCP
client has no timeout; pipeline threads are scheduled, except inside a call of the
Blender MCP server, which has none either (`services/mcp_client.py`). Reporting the
outcome is strongly fair while the pipeline works: it makes finitely many MCP calls, so
it does not go from one to the next for ever, and AO and HTTP calls have timeouts.
Nothing makes the server answer: `RunsAreReported` says of every session no run of which
stays in a call for good that its run is reported. Nothing is assumed of users or
restarts.

## 4. PipelineRun and RunContract

`RunContract` is what the caller of a run may rely on: phases finish one after the
other, a failure is never forgotten, a run is stopped only by the result of the last
finished phase, and the verdict follows from the failures. `PipelineRun` is the
runner with `Pipeline.run`: every phase may return any artifact it can return, or
raise; every write of `progress.json` may fail, also half-way; AO provisioning,
the socket's close and the deletion of the conversation may fail.

| TLA+ | code |
| --- | --- |
| `Begin`, `BeginRaises` | first progress snapshot, `runners.py` |
| `CreateConversation`, `ConversationReady`, `ProvisionRaises` | `provision_agent_orchestrator`, which stands outside the `try` |
| `StartPhase`, `PhaseReturns`, `PhaseRaises`, `EndPhase`, `FlushEvents` | one phase of `Pipeline.run`, the same shape six times |
| `ObservePrompt` | the prompt observer, which writes `progress.json` during a phase |
| `StopEarly`, `NextPhase`, `Conclude` | the gates and the verdict |
| `Report`, `CloseConnection`, `Finish` | the final snapshot and the `finally` block |
| `FinalSnapshot`, `CurrentStage`, `StatusOf` | `pipeline/adapter.py` |

`product` is what a phase handed on: a good artifact, one that says itself what is
wrong, or the empty default that stands in for one never made. `ao` covers both
callers: with AO the gates apply, without it none does.

The module has no constants; its state space is finite and complete (25,782
states), so the run has no bound to justify. There is no liveness property: the
run is a sequential program whose only loop is over six phases, and whether a phase
ends is a question about AO and Blender.

The refinement mapping: `finished` is the phase before the one that has no product
yet, `failed` the phases with status FAILED, `verdict` itself.

## 5. EventBuffer

`AppendEvent` with the flush it starts at the threshold, the flush at the end of a
phase, `FlushManager.start`, its interval tick, `stop` with the join that may time
out and the last flush; each flush writes line by line and may fail after any
part. A line is two pieces because a chunk of the file buffer need not end where a
line ends; a reader finds an event only where both pieces stand alone on a line.

Properties: `NoEventLost`, `EventsInOrder`, `OnceWithoutFault`, `EndedRunIsOnDisk`
and the liveness property `BufferDrains`. The first two hold until a line is *cut*,
which a failed flush, a crash, or two runs flushing at the same time can cause:
each writer has a lock of its own on the one file. That lines of overlapping runs can mix
is a weakness of the code, recorded as a hazard.

**Bounds** (`EventBuffer.cfg`): two runs, a threshold of 2, three events
in all, one fault (the types are unbounded: an event is its number in its run). Three events make a buffer that fills once and one that does not; two runs
make overlapping flushes; one fault is enough to keep a buffer and write it twice.
**Fairness**: threads are scheduled, the flusher wakes up; the pipeline may stop
emitting, which is the case the interval flush is for.

## 6. ActionPlans, BuilderTodos and Inspection

The build phase makes `<family>_01 .. _n` from a template `<family>_source`, the
assembly phase shows, moves and parents them, one todo per family. With AO every
todo is an answer of a language model: one that lacks its sections is replaced by
Python's own actions, from a readable one the model extracts a list of actions that
Python normalizes and executes; a malformed or blocked one fails the todo.

`ActionPlans` is the reading of these answers. An answer is what `parse_builder_intent`
looks for in it (`Answers`, `Reading`); an extracted JSON object is a function from its
keys to their values, so that a payload that leaves a key out is one whose domain
lacks it. `Shaped` applies the eight rewritings of `parse_agent_action_plan` in the order
of the code (wrapped, renamed lists, action sequences, placement rules, primitives, one
action, one command, a bare list), `Items` and `Filled` make parts of them, `Parsed`
gives the status, `Tries` the two attempts.

| TLA+ | code |
| --- | --- |
| `present`, `spot`, `parent` | the objects of the Blender scene, each one's own location and its parent |
| `built`, `verdict` | `BuildArtifact.status`, `AssemblyArtifact.review_verdict` |
| `todo`, `mode`, `queue` | the todo of the loop, where its actions come from, the actions left |
| `failed`, `leading` | whether the first part of a plan raised; only `artifacts[0]` is looked at |
| `CreateActions`, `PlaceActions` | `_execute_create_intent`, `_execute_place_intent`, the loops without AO |
| `WithScale`, `Missing` (with `Among`, in the order of the plan), `WithMissing`, `Normalized` | `_normalize_extracted_build_instances`, in its order |
| `ParentOfExtracted` | `_normalize_extracted_assembly_steps`, which discards what the model extracted |
| `Execute`, `ActionRaises`, `CallFails`, `DeletionIsSkipped` | one call through `BlenderMcpAdapter`: done, refused because a name is missing, failed before, in or after, or a deletion that takes a failed lookup for "absent" |
| `BuildStatuses`, `Verdicts`, `Stands` | what is read back: instances after Python's own builds, locations and parents after every placement with AO, nothing without AO or after an extracted build |
| `BuildDirectly`, `BuildByPython`, `BuildExtracted`, `RefuseBuild` and the same for placements | what a todo becomes: without AO, an answer without sections, a readable one, a refused one |
| `RejectPlan`, `RejectPlacements` | the fail-fast rules of a plan with structural errors |
| `BuildPlanUnwritten`, `BuildRaises`, `AssemblyRaises` (`PhaseRaises`) | writing the execution plan before the first part, with AO and without, and the request for an intent: both outside the `try` of the loops |
| `EndBuild`, `EndAssembly` | the gates of `Pipeline.run` behind the two phases |

`faulty` and `answer` are history variables for `SoundPlanIsRepaired`. The scene
outlives a run, so it begins with any of the `Leftovers` of earlier ones, where
the plan wants them: the leftovers that are easiest to mistake for this run's.
`BuildPayloads` and `PlacePayloads` are what may be extracted for a family; all that is
assumed is that the plans read from them are of the right type (`PlansAssumption`). Families may be taken in any order, since the order of the plan is data.

`ApprovedPartsStand` relates each verdict to the scene through all later todos,
although a build may be reported without a look, may list instances never made and
may delete those of another part; `PlacedModelIsComplete` adds the gate;
`SoundPlanIsRepaired` says what normalization is for.

`Inspection` lets the validation phase look at the scene the two phases left.

| TLA+ | code |
| --- | --- |
| `named`, `gaps` | `instance_names` of the build artifacts; families skipped for a planning gap |
| `step`, `errors` | where `validate_phase.py` is and what it found |
| `CheckCounts`, `CheckDimensions`, `CheckPositions`, `CheckParenting`, `CheckSymmetry` | the five checks of `core/validator.py`, in order |
| `Speak`, `Judge`, `ValidationRaises` | the inspector's three turns, the verdict, an exception |
| `Report`, `shown` | `final_artifact_to_snapshot` and the statuses it writes |

Every query but the object list may fail without notice and then checks nothing; sizes
and symmetry are inputs; the position of a child under a parent that moves or scales it
is open, because the adapter sets a parent without the inverse matrix
(`mcp_adapter.py:325-335`), so that a correct placement may fail the check. With AO,
the last placement of a family is the only one that is checked; without AO, one
placement names all instances. `AtRest` names the families under which children
stay where their own locations say; the run takes none.

`SnapshotIsCovered` is about what the page says at the end, over all ways to get there:
gates, phases that raise, runs without gates. It says less than one may wish,
because less holds: behind an assembly phase that raised, or for a part whose placement
failed, the validation may pass with a part missing.

**Bounds** (`Inspection.cfg`, the instance of `MCBuilderTodos`): a body and two legs under it,
three possible leftovers, 74 answers to the build of the body, 130 to the legs', 10 to each
placement. Among them are plans with and without the creation, every choice of duplicates, a
template of its own or one of the instances, nothing or the last instance
declared, a deletion of nothing, the template, an own or a foreign instance, one plan
of two parts, each of the other shapes, and six that are refused or empty; they come down to 58
and 115 different plans. Two families are what one part needs to disturb another, two
instances what a plan needs to leave one out. Every call may fail, any number of
times. There is no liveness property: the loops go over finite lists and the calls are
AO's and Blender's.

Left out: scales, rotations and hidden flags (no check of the two phases reads them), world
transforms in the assembly (it compares an object's own location), phases run without
Blender, several placements of one family, `_run_agent_action_plan` (no caller), runs
that share the scene at the same time. `json` is not imported in `validate_phase.py`,
which matters for items of a kind its caller never passes. The writes of `todo.md` and
`build_log.md` behind the last todo are outside the `try` of the loops; that they fail
is modelled only while a todo is pending (`BuildRaises`, `AssemblyRaises`).

## 7. AoClient, Meeting, PartGraph and Planning

`AoClient` is the way of one prompt to AO and back. A run that provisioned its conversation
posts over HTTP, without a retry; a client that was merely connected sends JSON-RPC
over a WebSocket and retries.

| TLA+ | code |
| --- | --- |
| `mode` | `_conversation_id` known or not, which decides between `_send_message_rest` and `_send_message_with_retry` |
| `sock`, `rpc` | the socket, `_rpc_id` |
| `call` | the local state of `call`: id waited for, attempt |
| `working`, `inbox` | AO (external): messages accepted, frames written and not yet read |
| `PostMessage`, `AnswerPost`, `PostFails` | the HTTP request |
| `SendOnce`, `CannotSend`, `ReadFrame`, `ReceiveRaises`, `DeadlinePasses`, `RetryOrRaise` | `_send_message_once`, `request` and the retry loop |
| `AnswerFrame`, `PeerCloses` | what AO and the network do |

`Meeting` is `run_moderated_phase`: each turn is one call of `AoClient`, followed by a call
for a summary whose failure is swallowed, and a write of the meeting state (`file`).
`m` is `PhaseMeetingState` reduced to what the code reads again: round, open issues,
the current challenge, flags and status. `PartGraph` holds pure operators:
`Layer` is `build_execution_dag`, `ComputedPlan` is `_compute_plan`, `StructureIssues` and
`ContractIssues` are `validate_plan_structure` and the contract checks, `BuildItems`,
`AssemblyItems` and `Skipped` the execution plans the later phases derive; `Among` is a
sorted list of the names of a set. `Planning`
composes both: `DesignReturns`, `SpecReturns`, `PlanReturns` and `PlanRaises` are the
ends of the phases, `NextGroup` the loop over todo groups, `AskToClarify`,
`Clarified`, `Ruled` the one clarification of contract issues, `PhaseFails` an exception.

| property | says |
| --- | --- |
| `AnswerIsOwn`, `CopiesBounded` | an answer belongs to its prompt although late answers come over the same socket; how often AO may get one prompt |
| `CrashLosesOneTurn` | the file holds everything the turns before decided |
| `VerdictIsRecorded` | failure notes, meeting state, index and todo groups agree |
| `NoFamilyLost`, `CleanPlanIsExecutable` | a family the layers leave out is in the notes; a plan without notes gives every family an item, parents first (checked against ancestors, which the code does not compute) |
| `ModeratorSettles` | an open issue disappears only by a resolution |
| `PlanningEnds` | liveness |

**Bounds** (`Planning.cfg`): one reconnect, two faults of the network, the clock or AO, at most
one open issue per resolution, five names, one set a design may mention (a part beside the
same with a number, which `_clean_part_name` does not always take off) and eight
jobs the plan phase is called with (`MCPlanning` lists what each is for). One fault
loses a message, the second hits the retry or a later turn; more of both repeat
these. An issue more would be settled by the same resolution. **Fairness**:
`WF_vars(Progress)`, the one thread of the run goes on and AO answers what it has
received. A server that never answers is no exception: every call is under a timeout
(`PostFails`, `ReceiveRaises`, `DeadlinePasses`), which fails it and ends its phase.

Met while reading: the answers of a clarification do not enter the plan that is
computed after it, so a phase may end "completed" with `unresolved_planning_gap`; the specification always covers its parts, because one that
is not described gets the text of its own group, so the targeted revision of
`spec_phase.py` is never entered, against `docs/decisions/0004`; a resolution replaces the
list of open issues as a whole.

## 8. SessionIndex, ActivityStream, Requests and Workspace

What a tab shows of a session is put together from snapshots, socket events and its own
optimistic updates. The modules are layers: the file of sessions, the run and the
socket thread, the HTTP requests with their threads, the tab.

| TLA+ | code |
| --- | --- |
| `index`, `Updates` | `ui_state.json` and what create, save, select and delete make of it under `ui_state_lock` |
| `hist`, `status`, `prog`, `run` | `activity.jsonl`, `run_statuses`, `progress.json` (written in place; what it says of the result), the pipeline thread as far as the page can see it: it emits, writes, returns, or raises at any point |
| `link` | one activity WebSocket: its handler thread, its queue, whether its cursor is still true, frames under way |
| `RunEmits`, `RunPublishes`, `RunPuts` | `on_event`: append, copy the subscribers, put |
| `HandlerRegisters`, `HandlerForwards`, `HandlerSignals` | `ActivityWebSocketHandler` |
| `reqs` | requests under way, each in the steps of its handler and then answered or failed; what the awaiting function remembers; `Among` keeps those a reload leaves to the bridge |
| `run.lost` | not in the code: the session of the run was deleted, with the events it had emitted |
| `ServeStatus`, `ServeProgress`, `ServeHistory` | `get_session_state`, which reads status, `progress.json` and `activity.jsonl` one after the other |
| `ServeStart` | `start_run`, accepted or, without a Blender MCP server, refused |
| `ServeWrite`, `ServeWipe`, `ServeDrop` | `delete_session`: the list, the directory, the subscribers, in three steps; anything may come between them |
| `ServeBoot`, `ServeList`, `ServeLocked`, `ServeAppend` | `bootstrap`, the handlers of the list, `append_activity` |
| `Derived` | `deriveActivityUpdatesFromProgress`: an item of a completed result, one of a failed one unless the retry card takes its place, or none |
| `cur`, `list`, `view` | the store: `currentSessionId`, the side bar, activity, progress and status per session |
| `effects` | runs of the effect of `useActivitySocket`; those cleaned up are kept (`Waiting`, with `Among`) while their socket is open |
| `SnapshotApplies` ... `BootReturns` | the continuation after each `await`; a start waits for the save, for the user's item and for its answer, and a refused one leaves a second item |
| `Selects`, `Creates`, `Types`, `Starts`, `Deletes`, `Batches`, `Cancels`, `Reloads` | the gestures; the dialog of a deletion can be closed while its request goes on |

`ShownAsItIs` is the promise of the synchronization: quiet means true. `astray` is the
history variable that names its exceptions. All three are real:

* Answers of one session's requests are applied in the order in which they arrive
  (`useWorkspaceController.ts:189-211` compares only activation numbers), so that an old
  one may be the last. The answer of a deletion counts (`Replaces`): `removeSession` takes
  what is shown away, and during a batch the deleted session may still be the current
  one, with a snapshot asked for after the deletion and applied before its answer.
* A snapshot that fails is not asked for again.
* A run goes on when its session is deleted under it. What it had published before is in
  no file any more (`run.lost`), but a frame on the way still puts it in what is shown.

In the scripts below no batch meets a run: the script `{"starts", "creates", "batches"}`,
which does, is too large for a run and is covered by the theorem.

An item that the page derives has no id of its own, since `createActivityItem` overwrites
the one it makes with `undefined` (`domain/activity.ts:45-56`), so that nothing would
remove a second copy: `NoItemTwice` rests on each snapshot replacing all that is shown.

`NoItemTwice`, `OneListener` and the action property `UpdatesAreSerial` are about
duplicates, abandoned sockets and two requests that change the list at the same time.

**Bounds** (`Workspace.cfg`): one session and one that may be created, symmetric (no liveness
property is checked); one event of a run, one write of its `progress.json` and one frame on
the way, because an event or a change that overtakes or is overtaken by a snapshot needs one;
two requests at a time; and sixteen `Scripts`, sets of what may happen together, each
once, in any order and at any time: gestures, faults of the network, and whether the run
emits, writes, raises or is refused. Together they pair every gesture, but for a batch and a
start, with the faults and gestures it can collide with, and with a run that does at least
one of these; any interleaving within a script is explored (one million distinct states). `HistoryLimit` is
the code's own bound: a snapshot carries the last 500 items of a session, and
`HistoryAssumption` keeps to histories below it; beyond it a page that has shown more
would lose its oldest items with the next snapshot. No fairness is assumed: no liveness
property is stated, since the page of a silent network stays as it is.

Left out: retry and stop (a stop finds no process for a run in a thread), and with them
the answers to the retry card and the item of an automatic retry; a second start of a
session (`BridgeRuns` has it) and a second confirmation of a deletion; the item that a
start leaves while it is blocked by a missing connection, which sends nothing else; the
calls of the MCP tools, whose file `mcp_tool_calls.jsonl` is in the snapshot and not in the
cursor; drafts, titles, settings, diagnostics, rendering; sequence numbers of the
stream, which no code reads.

Met while reading: a save or a start that was under way when its session was deleted
puts the session back on the list; a batch deletion that fails half-way leaves
the current session pointing at a removed one; until a batch is through, the tab goes on
asking for and listening to the current session it has deleted, and may show an empty page
for a run the bridge still reports as running; calls of MCP tools alone do not make the tab fetch; after a reload the tab keeps sessions the
server no longer has; a failing snapshot leaves the transport shown as "resyncing".

## 9. Runs

| run | shows |
| --- | --- |
| `bridge_runs` | statuses are true, output is never lost, every run that gets under way and is answered is reported, through deletes, retries, refused starts, launches that raise, a server that hangs and a restart |
| `pipeline_run` | what each verdict means and that it reaches the disk; the refinement of `RunContract` |
| `event_buffer` | events are kept, ordered and written, whatever thread flushes and whichever flush fails |
| `builder_todos` (`MCInspection`) | approved parts stand, the finished model is complete, the snapshot says no more than the scene holds, incomplete plans are repaired, whatever the language model answers and Blender refuses |
| `planning` | answers reach their prompts, decisions survive, families are planned or reported, planning ends, through lost connections, late answers, errors and timeouts |
| `workspace` | the list loses no update, and a tab shows what the bridge has, once, through switches, reloads, lost sockets, failed requests, refused and raising runs and deletions |
| `bridge_retry_card` (violation) | `docs/react_ui.md:170` promises a retry card after a failed run; after a failed *retry* there is none, because `decision_state` stays "retrying" |
| `bridge_delete` (violation) | `docs/react_ui.md:207` promises that deleting a session removes its directory; a run in flight makes it again |
| `pipeline_stage` (violation) | `adapter.py:138` promises the first failed phase as the stage of a failed run; the adapter spells three phases differently |
| `builder_unchecked_build` (violation) | `markdown_artifacts.py:345` promises scene queries after each builder step; an extracted build is reported built without one, with no instance in the scene |
| `builder_late_scale` (violation) | `build_phase.py:1101` calls the scale it adds "before instancing"; for a plan of create and delete it comes after duplicates and deletion, and fails the part |
| `builder_family_parent` (violation) | `docs/blender_assembly_capabilities.md:17` allows only names of built objects; Python writes the name of a family as parent, so that every extracted placement under a parent fails |

Every property of a passing run has a mutant: an operator named `...Bug` beside the one it
replaces, the code with a plausible fault (a status not replaced, an attempt index
reset, a gate that misses an empty plan, a buffer cleared on failure ...), with
which TLC finds the property violated.

Other disagreements met while reading, without a run: `progress.json` stays
"running" after a failed provisioning though `docs/current_runtime_flow.md:64` says
the failure is recorded in session state; a failed phase is shown as
`stage_status` "completed"; the comment "Remaining phases still execute" in
`pipeline.py` holds only without AO; `PARTIAL` is never returned; an extracted plan without parts counts as one with an empty part,
so that "Build Markdown extraction is ready but contains no parts" (`build_phase.py:544`, and
`assemble_phase.py:669` for steps) is never raised and no repair is asked for; an answer that
names another operation or another target than the todo is extracted all the same; no in-process run
writes the `pending_interaction.json` that `docs/react_ui.md` describes; one OSError
ends the flusher thread for good.

## 10. Proofs

`BridgeRunsProofs` (any sets of sessions and request threads, any bounds):

* `TypeCorrect`. `TypeOK` alone is not inductive: a thread's session must be one the
  bridge has handed out before `workflow[reqSession[w]]` means anything, and unspawned
  threads must not have begun. `ThreadsInv` adds that.
* `TeeChainGrounded` is inductive with types: the stream a run remembers existed before
  it.
* `StdoutRestored` needs `StreamInv`: while no two runs held the stream together, at
  most one run holds it and remembers the terminal.
* `BusyHasAnActor` is inductive with types. A step leaves a session it is not about its
  status and its threads (`Keeps`); the sessions it is about are one case per action.
* `EndedIsQuiet` needs `SingleRunInv`: a session that was never
  contended has at most one thread in flight, and while it has one its status is not
  final.
* `AttemptOrder` is the action property, from the last conjunct of `SingleRunInv`: the
  index an uncontended refusal has read is still the next one.

`PipelineRunProofs` (no constants; the invariants are proved symbolically, and carry
over if phases gain artifacts):

* `RunInv` strengthens `TypeOK` by `Progressed` (which phases have a product and a
  status at each `pc`), `Passed` (with AO, every finished phase got through its gate)
  and `Recorded` (until the verdict, `degraded_parts` names exactly the failed phases).
* `SuccessMeansClean`, `FailedMeansStopped` follow from it; `RunImplementsContract`
  shows that every step is a step of `RunContract` or a stutter.
* `DegradedIsExact`: behind the verdict `Recorded` is no longer enough, since a gate or
  an exception may condemn a phase late. `FailedAreEmpty`, `ListedOnce` and
  `ListedFailed` say that a gate, which looks at a flawed artifact first, never lists a
  phase that is on the list already, and that the list holds nothing else.
* `ReturnedResultIsOnFile` needs `FileTells`: what the file holds from the final write
  on, whatever callbacks failed before. `ReturnedRunCleansUp` is inductive with the
  types.

`EventBufferProofs` (any runs, threshold and bounds). None of the properties is
inductive: a flush in progress has written a part of a buffer it still holds.
`BufferInv` says what that means for the file:

* `Consecutive`: a buffer holds the last events of its run without a gap, so that
  `Written`, the number emitted less those held, is the number that have left it.
* `Holding`, `DeadStaysDead`: only the holder of the lock has begun to write, and a run
  that died with the bridge has no thread.
* `Lines`, `Tails`, `OnDisk`: while no line was cut, the file ends with what the flush
  in progress has written, and what has left a buffer stands in the file. Hence
  `NothingIsLost`.
* `InOrder`: an event is in the file only behind all earlier ones of its run. Hence
  `FileIsInOrder`, also with copies of a flush that failed and was done again.
* `Bounded` orders the pieces of a run by a `Rank` that no piece in the file exceeds
  when there was no fault; a piece appended has a higher one. Hence `WrittenOnce`.
* `EndsEmpty` for `NothingIsLeft`.

`BuilderTodosProofs` (any families, counts, leftovers and payloads whose plans have the
right type), about the two phases alone and about whole runs of `Inspection`, whose
steps are theirs or only look at the scene (`Looks`):

* `TodosTypeCorrect`, `RunTypeCorrect`: the work is in the queue. What Python makes of
  an extracted plan is a sequence of actions on objects there may be; this goes through
  each stage of the normalization.
* `ApprovedStand`, `PlacedIsComplete`, `RunKeepsApproved`, `RunPlacesAll`: while the
  assembly phase works on a part, that part has no verdict and the queue names only its
  instances (`PlacesOnlyTodo`), so that a step cannot disturb an approved part. With AO
  a part is approved only when it was read back. Without AO it is not, and
  `DirectPlacing` follows Python's own actions: a part in work either failed or its
  first `p` actions have had their effect (`Follows`). The invariant says nothing of
  what the build phase left: the argument needs nothing.
* `SoundIsRepaired`, `RunRepairsSound`: first, as lemmas, what the normalization makes
  of a sound plan: copies of the template to the plan's instances, then at most its
  removal (`Orderly`), with every instance made that the plan neither makes nor claims,
  and the template removed unless the plan claims every instance (`Repairs`,
  `Accounted`). Then the invariant `RepairGoesOn`: in the middle of such a plan, what
  was executed is in the scene (`Made`) and what is left is still to come (`Rests`). TLC
  checked it as an invariant before it was proved.
* `SnapshotTellsNoMore`: `RunInv` adds that a part approved or being placed was built,
  and the part it hangs under as well (`Judged`), that all verdicts are in when the
  phase is through (`EveryVerdictIsIn`), that nothing is validated before
  (`ValidatedLate`), that a validation without errors has seen all listed instances
  (`AllThere`, `PassedClean`), and that a snapshot shown does not change
  (`ShownIsFinal`).

`PlanningProofs` (any names, designs and jobs, any number of prompts, reconnects and
faults):

* `AnswerIsOwn` is not inductive, because a frame that waits in the socket may carry any
  id. `Wire` adds that no message has an id that was not given out yet, and that the one
  with the id a call waits for carries its prompt; `Counted` that a prompt about to be
  sent has at most one copy per reconnect before. The steps of the meetings and phases
  only make a call or hang up (`LeavesWire`), so one lemma covers all of them; the steps
  of the client either add the message of a new id, move one from AO to the socket, or
  take messages away (`Shrink`). This gives `AnswersAreOwn` and `CopiesAreBounded`.
* `OneTurnIsLost` needs `TalkInv`: `SavedState` (between two turns the file holds
  everything but the round just opened) and the parts that say when a turn changes what
  is not saved yet (`Stopped`, `Closing`, `RaisedNow`).
* `VerdictsAgree`, `FamiliesAreAccountedFor`, `CleanPlansAreExecutable` need `PlanInv`:
  there is a todo group for each family (`Grouped`), and notes, state, index and groups
  are those that go with the plan of a graph without a cycle when the phase returned
  (`Concluded`). The last two rest on the graph: a family has at most one layer, its
  parent's is an earlier one, the child of a planned family is planned, and without a
  cycle the families left out are exactly those with an orphan among themselves and
  their ancestors (`PartGraphProofs`, for finitely many families; the names are those of
  a list).
* `OnlyTheModeratorSettles` is the action property: no other step takes an issue from
  the list.

`WorkspaceProofs` (any sessions, any scripts, any number of requests). The list of
requests is what makes it long: every gesture and every answer takes some away and
appends others. `Origin` and `Comes` relate the positions in the list before and after a
step, so that what holds of a request is carried over by position, once for all steps.
The invariant is `Inv`:

* `AllTypes`: what the server, the requests and the tab hold; `Carries` says what a
  request has at each of its steps, such as a snapshot once it is answered.
* `Locks`: a request that holds `ui_state_lock` has read the file as it is; hence
  `ListChangesSerially`.
* `OneStart`, `Histories`, `SnapshotsOnce`: at most one request belongs to a start under
  way, a script starts a run at most once, and so no history on the server, in an answer
  or in a frame can hold the same event, or the same of the two items of the tab, twice. With
  `NoItemTwice` itself, about the views, this is inductive: `ShownOnce`.
* `OneListener`: each change of the session cleans up the effect before and makes at
  most one (`Listens`, `Tidy`); hence `ListensToWhatItShows`.

`ShownAsOnTheBridge`, the theorem for `ShownAsItIs`, is about eventual truth without time:
it needs to know in every state why what is still wrong will be put right. Its invariant
is `Inv` with `Sync`, which relates the list of requests, the socket, the run, the tab
and the files of the bridge:

* `Synced`: once the tab has been told of the last change of its session (`Told`: the
  handler's cursor is true and no signal is on its way), the session is `Covered`. Either
  a snapshot that will be applied was asked for since (`AskedIn`: neither it nor an
  answer behind it brings anything older), or nothing older is on its way that is not
  marked late (`CleanIn`) and what is shown is the truth, but for the user's own item
  that is still to be written (`Noting`). `UpToDate` says what a request in the middle of
  being served may hold: a snapshot that has read the status, or the status and
  `progress.json`, is as good as one not yet begun as long as these have not changed.
* `LateFirst`: of one session's requests the late ones come first, so that a snapshot
  that is not late is not followed by one that is.
* `RunStreams`, `LinkIs`: what the socket carries are events of the run of the session
  shown, and, unless that was deleted, they are in its history: an event that is put
  in what is shown is in every snapshot still to come.

A step that changes a session's files either leaves `Told` false (the handler has not
looked at the cursor since, or its signal is under way), or is a request of the tab
itself, whose answer is then on its way. A step that takes a request from the list
was either the one asked for, and then what is shown is the truth
(`SnapshotsSync`), or leaves what is behind it as it was (`LeavingKeeps`,
`OvertakingKeeps`). Nothing is assumed of the network or of the number of requests.

`SublistProofs` holds what several of these need: that `Among` keeps exactly the
elements of a list that are in the set, each as often and in the same order, and that
the recursive functions have the values their equations describe. Induction is over sets
of numbers: a non-empty set of naturals has a smallest element, so a set with 0 and all
successors holds them all. This is how the layers and ancestors of `PartGraph` are
reasoned about as well.

The only assumptions are the `ASSUME`s on the constants, which TLC evaluates in every
run. They ask for no more than that bounds are numbers, that histories stay below the
500 items a snapshot carries (`HistoryAssumption`), that `None` is not a name and
not an object (`NoSessionAssumption`, `FamiliesAssumption`, `NoObjectAssumption`,
`PlanningAssumption`), that every part has at least one instance and is not its own
parent, that leftovers are objects (`CountAssumption`, `ParentAssumption`,
`LeftoversAssumption`), and that what Python reads from an answer is a non-empty list of
parts (`PlansAssumption`).

**Only model-checked**:

* The liveness properties `RunsAreReported`, `BufferDrains` and `PlanningEnds`: the
  prover handles neither fairness nor `ENABLED`.
* The six refutations, each a behaviour of one instance.

## 11. Not modelled

* The launcher-process path of the bridge: `_start_run_from_payload` is reached only
  from the status refresh of a process it alone would start; `start_run` and
  `retry_run` go to `start_inprocess_run`.
* The Blender adapter's captures, collections and queries, and the Python text it
  makes for Blender: `BuilderTodos` has what the text does; prompts, settings
  and launchers read files; perception and model runtimes call external models. No
  protocol, no state the runs depend on.
* The legacy coordinator is not reachable from the bridge or the runner.
* The contents of artifacts, of prompts and of snapshots: the properties tell only
  apart whether they are usable.
* Code that only tests reach at this commit: checkpoints, the review and correction queue,
  `core/extraction.py`, constraints, the convener and the termination rules, the gap
  report, the parallel batches of the scheduler.
* Reading parts and issues out of markdown text: what a text says is an input of
  `Planning` and `Meeting`.
* Two runs that work in one Blender scene at the same time: nothing in the code keeps
  them apart, and there is no promise to check.
