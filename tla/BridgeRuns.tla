----------------------------- MODULE BridgeRuns -----------------------------
(***************************************************************************)
(* The life of a modeling run inside the GUI bridge (GuiBridgeService in   *)
(* gui/bridge.py).  Every HTTP request is served by a thread of its own    *)
(* (ThreadingHTTPServer in scripts/run_ui_bridge.py) and every accepted    *)
(* start spawns a daemon thread that runs the pipeline, so requests,       *)
(* pipeline threads and a restart of the bridge interleave.                *)
(*                                                                         *)
(* One step is what runs between two points where another thread can be    *)
(* seen: the entry and exit of process_lock, a file-system call, the call  *)
(* to the Blender MCP server, an access to the process-wide sys.stdout.    *)
(***************************************************************************)
EXTENDS Integers, FiniteSets

CONSTANTS
  Sessions,      (* session ids the bridge can hand out                     *)
  NoSession,     (* the session of a thread that has none yet               *)
  Workers,       (* HTTP request threads that can be busy at one time       *)
  MaxRuns,       (* bound: pipeline threads spawned in a behaviour          *)
  MaxAttempts,   (* bound: the attempt index of a session                   *)
  MaxRestarts,   (* bound: restarts of the bridge in a behaviour            *)
  MaxRetryCount  (* bound: the largest retry count a user asks for          *)

ASSUME NoSessionAssumption == NoSession \notin Sessions
ASSUME MaxRunsAssumption == MaxRuns \in Nat
ASSUME MaxAttemptsAssumption == MaxAttempts \in Nat
ASSUME MaxRestartsAssumption == MaxRestarts \in Nat
ASSUME MaxRetryCountAssumption == MaxRetryCount \in Nat \ {0}

Runs == 1 .. MaxRuns

(* sys.stdout before any run replaced it: the terminal of the bridge.      *)
Terminal == 0

VARIABLES
  used,        (* ids create_session has handed out: they are never reused  *)
  listed,      (* sessions of ui_state.json                                 *)
  dirs,        (* sessions with a directory under data/runtime/session_data *)
  pending,     (* pending_interaction.json of each session                  *)
  payloads,    (* sessions with an entry in last_run_payloads               *)
  workflow,    (* run_statuses[s]["workflow_status"]                        *)
  attempt,     (* run_statuses[s]["attempt_index"]                          *)
  decision,    (* retry_plans[s]["decision_state"]                          *)
  remaining,   (* retry_plans[s]["remaining_retries"]                       *)
  reqPc,       (* where each request thread is                              *)
  reqSession,  (* the session its request names                             *)
  reqAttempt,  (* the attempt index it read outside process_lock            *)
  runPc,       (* where each pipeline thread is                             *)
  runSession,  (* the session it runs                                       *)
  spawned,     (* pipeline threads spawned so far                           *)
  stdout,      (* sys.stdout: Terminal, or the TeeWriter of a run           *)
  original,    (* the stream each run's TeeWriter forwards to and restores  *)
  restarts,    (* restarts so far                                           *)
  removed,     (* history: sessions delete_session was called for           *)
  stranded,    (* history: sessions whose last status is that of a launch   *)
               (* that died before the try block of its thread              *)
  contended,   (* history: sessions asked to run while already running      *)
  crossed      (* history: two runs replaced sys.stdout at the same time    *)

diskVars == <<used, listed, dirs, pending, removed>>
planVars == <<payloads, decision, remaining>>
reqVars  == <<reqPc, reqSession, reqAttempt>>
runVars  == <<runPc, runSession, spawned>>
teeVars  == <<stdout, original, crossed>>
vars == <<diskVars, planVars, workflow, attempt, reqVars, runVars, teeVars,
          restarts, contended, stranded>>

RequestPcs == {"idle", "connect", "refuse", "launch", "console", "rmtree"}
RunPcs     == {"none", "spawned", "captured", "teed", "working", "calling",
               "reported", "restored", "done"}

(* A pipeline thread that has not reported its outcome yet.                *)
Unreported == {"spawned", "captured", "teed", "working", "calling"}

(* A pipeline thread between reading sys.stdout and putting it back.       *)
Holding == {"captured", "teed", "working", "calling", "reported"}

Starting(w) == reqPc[w] \in {"connect", "refuse", "launch", "console"}

(* Some request or pipeline thread is carrying out a run of session s.     *)
InFlight(s) ==
  \/ \E w \in Workers : Starting(w) /\ reqSession[w] = s
  \/ \E r \in Runs : runPc[r] \in Unreported /\ runSession[r] = s

(* A request past its status "starting", or the pipeline thread it spawned, *)
(* that has still to write the next status of session s.                   *)
Launching(s) ==
  \/ \E w \in Workers : reqPc[w] = "console" /\ reqSession[w] = s
  \/ \E r \in Runs : runPc[r] \in Unreported /\ runSession[r] = s

Busy(s) == workflow[s] \in {"starting", "running"}

(* _build_retry_prompt: whether a snapshot of the session shows the card   *)
(* that asks the user to retry.                                            *)
RetryPrompt(s) ==
  /\ s \in payloads
  /\ workflow[s] = "failed"
  /\ decision[s] \notin {"retrying", "stopped"}
  /\ pending[s] \in {"absent", "pending"}

Init ==
  \E old \in SUBSET Sessions :
    (* Sessions an earlier bridge process left on disk.  A launcher process *)
    (* of that bridge may have left its question to the user with them.     *)
    /\ used = old /\ listed = old /\ dirs = old
    /\ pending \in [Sessions -> {"absent", "pending", "resolved"}]
    /\ \A s \in Sessions \ old : pending[s] = "absent"
    /\ payloads = {}
    /\ workflow = [s \in Sessions |-> "idle"]
    /\ attempt = [s \in Sessions |-> 0]
    /\ decision = [s \in Sessions |-> "none"]
    /\ remaining = [s \in Sessions |-> 0]
    /\ reqPc = [w \in Workers |-> "idle"]
    /\ reqSession = [w \in Workers |-> NoSession]
    /\ reqAttempt = [w \in Workers |-> 0]
    /\ runPc = [r \in Runs |-> "none"]
    /\ runSession = [r \in Runs |-> NoSession]
    /\ spawned = 0
    /\ stdout = Terminal
    /\ original = [r \in Runs |-> Terminal]
    /\ restarts = 0
    /\ removed = {}
    /\ contended = {}
    /\ stranded = {}
    /\ crossed = FALSE

-----------------------------------------------------------------------------
(* What the steps write.  A definition named ...Bug is the code with a     *)
(* plausible fault; the mutation runs put it in the place of the operator  *)
(* that follows it.                                                        *)

(* _next_attempt_index *)
NextAttempt(s) == attempt[s] + 1

(* retry_run: the retries left after the one that starts now.              *)
RetryBudgetBug(n) == n - 2
RetryBudget(n) == n - 1

(* start_inprocess_run: the status replaces that of an earlier run.        *)
LaunchStatusBug(s) == workflow[s]
LaunchStatus(s) == "starting"

(* _run_inprocess_thread: {**current, ...} keeps the attempt index.        *)
CarriedAttemptBug(s) == 0
CarriedAttempt(s) == attempt[s]

(* The except clause turns an exception of the pipeline into a status.     *)
OutcomeStatusBug(s, outcome) == IF outcome = "failed" THEN workflow[s] ELSE outcome
OutcomeStatus(s, outcome) == outcome

(* original_stdout is read before sys.stdout is replaced, and put back.    *)
StreamToRestoreBug(r) == r
StreamToRestore(r) == stdout
StreamAfterBug(r) == stdout
StreamAfter(r) == original[r]

-----------------------------------------------------------------------------
(* Requests.                                                               *)

(* create_session: a fresh id, listed in ui_state.json; no directory yet.  *)
CreateSession(s) ==
  /\ s \notin used
  /\ used' = used \cup {s}
  /\ listed' = listed \cup {s}
  /\ UNCHANGED <<dirs, pending, removed, planVars, workflow, attempt, reqVars, runVars,
                 teeVars, restarts, contended, stranded>>

(* save_session_workspace: writes the entry of the session it names, also  *)
(* when a delete request has just removed it.                              *)
SaveWorkspace(s) ==
  /\ s \in used
  /\ listed' = listed \cup {s}
  /\ UNCHANGED <<used, dirs, pending, removed, planVars, workflow, attempt,
                 reqVars, runVars, teeVars, restarts, contended, stranded>>

(* The request thread w starts on session s.                               *)
Accept(w, s, pc) ==
  /\ reqPc[w] = "idle"
  /\ s \in listed
  /\ reqPc' = [reqPc EXCEPT ![w] = pc]
  /\ reqSession' = [reqSession EXCEPT ![w] = s]
  /\ UNCHANGED reqAttempt

(* The request thread w answers; its local state goes with it.             *)
Answer(w) ==
  /\ reqPc' = [reqPc EXCEPT ![w] = "idle"]
  /\ reqSession' = [reqSession EXCEPT ![w] = NoSession]
  /\ reqAttempt' = [reqAttempt EXCEPT ![w] = 0]

(* The bounds, counting the pipeline threads about to be spawned.          *)
MayStart(s) ==
  LET starts(S) == Cardinality({w \in Workers : Starting(w) /\ reqSession[w] \in S})
  IN  /\ spawned + starts(Sessions) < MaxRuns
      /\ attempt[s] + starts({s}) < MaxAttempts

NoteContention(s) == contended' = IF InFlight(s) THEN contended \cup {s} ELSE contended

(* start_run: remembers the payload and goes on to start_inprocess_run,    *)
(* which does not look whether the session is already running.             *)
StartRun(w, s) ==
  /\ MayStart(s)
  /\ Accept(w, s, "connect")
  /\ payloads' = payloads \cup {s}
  /\ NoteContention(s)
  /\ UNCHANGED <<diskVars, decision, remaining, workflow, attempt, runVars,
                 teeVars, restarts, stranded>>

(* retry_run: without a remembered payload it refuses and changes nothing, *)
(* otherwise it records the plan, answers the pending question and starts. *)
RetryRun(w, s, n) ==
  /\ MayStart(s)
  /\ s \in payloads
  /\ Accept(w, s, "connect")
  /\ decision' = [decision EXCEPT ![s] = "retrying"]
  /\ remaining' = [remaining EXCEPT ![s] = RetryBudget(n)]
  /\ pending' = [pending EXCEPT ![s] = IF @ = "absent" THEN @ ELSE "resolved"]
  /\ NoteContention(s)
  /\ UNCHANGED <<used, listed, removed, dirs, payloads, workflow, attempt, runVars,
                 teeVars, restarts, stranded>>

(* clear_retry_prompt: the user does not want to retry.                    *)
ClearRetryPrompt(s) ==
  /\ s \in listed
  /\ decision' = [decision EXCEPT ![s] = "stopped"]
  /\ remaining' = [remaining EXCEPT ![s] = 0]
  /\ pending' = [pending EXCEPT ![s] = IF @ = "absent" THEN @ ELSE "resolved"]
  /\ UNCHANGED <<used, listed, removed, dirs, payloads, workflow, attempt, reqVars,
                 runVars, teeVars, restarts, contended, stranded>>

(* connect_blender_mcp answered that it is connected.                      *)
McpConnected(w) ==
  /\ reqPc[w] = "connect"
  /\ reqPc' = [reqPc EXCEPT ![w] = "launch"]
  /\ UNCHANGED <<diskVars, planVars, workflow, attempt, reqSession, reqAttempt,
                 runVars, teeVars, restarts, contended, stranded>>

(* The connection failed.  The status of the refused start is built before *)
(* process_lock is taken: the attempt index is read here and written later.*)
McpRefused(w) ==
  /\ reqPc[w] = "connect"
  /\ reqPc' = [reqPc EXCEPT ![w] = "refuse"]
  /\ reqAttempt' = [reqAttempt EXCEPT ![w] = NextAttempt(reqSession[w])]
  /\ UNCHANGED <<diskVars, planVars, workflow, attempt, reqSession, runVars,
                 teeVars, restarts, contended, stranded>>

ReportRefusal(w) ==
  LET s == reqSession[w] IN
  /\ reqPc[w] = "refuse"
  /\ workflow' = [workflow EXCEPT ![s] = "failed"]
  /\ attempt' = [attempt EXCEPT ![s] = reqAttempt[w]]
  /\ stranded' = stranded \ {s}
  /\ Answer(w)
  /\ UNCHANGED <<diskVars, planVars, runVars, teeVars, restarts, contended>>

(* The setup of start_inprocess_run: the session directory, no pending     *)
(* question, the status "starting" with the next attempt index.            *)
Launch(w) ==
  LET s == reqSession[w] IN
  /\ reqPc[w] = "launch"
  /\ dirs' = dirs \cup {s}
  /\ pending' = [pending EXCEPT ![s] = "absent"]
  /\ workflow' = [workflow EXCEPT ![s] = LaunchStatus(s)]
  /\ attempt' = [attempt EXCEPT ![s] = NextAttempt(s)]
  /\ stranded' = stranded \ {s}
  /\ reqPc' = [reqPc EXCEPT ![w] = "console"]
  /\ UNCHANGED <<used, listed, removed, planVars, reqSession, reqAttempt, runVars,
                 teeVars, restarts, contended>>

(* The directory cannot be made or the question not removed: the request   *)
(* dies before it wrote a status.                                          *)
SetupRaises(w) ==
  /\ reqPc[w] = "launch"
  /\ dirs' \in {dirs, dirs \cup {reqSession[w]}}
  /\ Answer(w)
  /\ UNCHANGED <<used, listed, removed, pending, planVars, workflow, attempt, runVars,
                 teeVars, restarts, contended, stranded>>

(* The session directory is made again if a deletion removed it meanwhile, *)
(* the console log is truncated and the pipeline thread started.           *)
Spawn(w) ==
  LET s == reqSession[w]
      r == spawned + 1
  IN
  /\ reqPc[w] = "console"
  /\ spawned < MaxRuns
  /\ spawned' = r
  /\ dirs' = dirs \cup {s}
  /\ runPc' = [runPc EXCEPT ![r] = "spawned"]
  /\ runSession' = [runSession EXCEPT ![r] = s]
  /\ Answer(w)
  /\ UNCHANGED <<used, listed, removed, pending, planVars, workflow, attempt, teeVars,
                 restarts, contended, stranded>>

(* The directory, the console log or the thread cannot be made: no handler *)
(* is around them and the request dies with the status left at "starting". *)
SpawnRaises(w) ==
  LET s == reqSession[w] IN
  /\ reqPc[w] = "console"
  /\ dirs' \in {dirs, dirs \cup {s}}
  /\ stranded' = stranded \cup {s}
  /\ Answer(w)
  /\ UNCHANGED <<used, listed, removed, pending, planVars, workflow, attempt, runVars,
                 teeVars, restarts, contended>>

(* delete_session: stop_run finds no process for an in-process run and     *)
(* changes nothing; the session leaves ui_state.json.                      *)
DeleteSession(w, s) ==
  /\ Accept(w, s, "rmtree")
  /\ listed' = listed \ {s}
  /\ removed' = removed \cup {s}
  /\ UNCHANGED <<used, dirs, pending, planVars, workflow, attempt, runVars,
                 teeVars, restarts, contended, stranded>>

(* ... and then the runtime directory is removed with all that is in it.   *)
RemoveRuntimeDir(w) ==
  LET s == reqSession[w] IN
  /\ reqPc[w] = "rmtree"
  /\ dirs' = dirs \ {s}
  /\ pending' = [pending EXCEPT ![s] = "absent"]
  /\ Answer(w)
  /\ UNCHANGED <<used, listed, removed, planVars, workflow, attempt, runVars,
                 teeVars, restarts, contended, stranded>>

-----------------------------------------------------------------------------
(* Pipeline threads (_run_inprocess_thread).                               *)

(* flush_mgr.start() cannot make its thread.  It stands before the try     *)
(* block: the pipeline thread dies with the status it found.               *)
FlushStartRaises(r) ==
  /\ runPc[r] = "spawned"
  /\ stranded' = stranded \cup {runSession[r]}
  /\ runPc' = [runPc EXCEPT ![r] = "done"]
  /\ runSession' = [runSession EXCEPT ![r] = NoSession]
  /\ UNCHANGED <<diskVars, planVars, workflow, attempt, reqVars, spawned, teeVars,
                 restarts, contended>>

(* original_stdout = sys.stdout                                            *)
CaptureStdout(r) ==
  /\ runPc[r] = "spawned"
  /\ original' = [original EXCEPT ![r] = StreamToRestore(r)]
  /\ crossed' = (crossed \/ \E q \in Runs : runPc[q] \in Holding)
  /\ runPc' = [runPc EXCEPT ![r] = "captured"]
  /\ UNCHANGED <<diskVars, planVars, workflow, attempt, reqVars, runSession,
                 spawned, stdout, restarts, contended, stranded>>

(* sys.stdout = TeeWriter(console_log_path, original_stdout)               *)
InstallTee(r) ==
  /\ runPc[r] = "captured"
  /\ stdout' = r
  /\ runPc' = [runPc EXCEPT ![r] = "teed"]
  /\ UNCHANGED <<diskVars, planVars, workflow, attempt, reqVars, runSession,
                 spawned, original, crossed, restarts, contended, stranded>>

(* The status becomes "running"; the other fields are those it finds.      *)
MarkRunning(r) ==
  LET s == runSession[r] IN
  /\ runPc[r] = "teed"
  /\ workflow' = [workflow EXCEPT ![s] = "running"]
  /\ attempt' = [attempt EXCEPT ![s] = CarriedAttempt(s)]
  /\ stranded' = stranded \ {s}
  /\ runPc' = [runPc EXCEPT ![r] = "working"]
  /\ UNCHANGED <<diskVars, planVars, reqVars, runSession, spawned,
                 teeVars, restarts, contended>>

(* run_pipeline writes progress.json, activity.jsonl and the artifacts;    *)
(* each writer makes the session directory when it is not there.           *)
WriteSessionFiles(r) ==
  /\ runPc[r] = "working"
  /\ dirs' = dirs \cup {runSession[r]}
  /\ UNCHANGED <<used, listed, removed, pending, planVars, workflow, attempt, reqVars,
                 runVars, teeVars, restarts, contended, stranded>>

(* The pipeline calls a tool of the Blender MCP server: the call has no    *)
(* timeout, and a server that does not answer keeps the thread in it.      *)
McpCall(r) ==
  /\ runPc[r] = "working"
  /\ runPc' = [runPc EXCEPT ![r] = "calling"]
  /\ UNCHANGED <<diskVars, planVars, workflow, attempt, reqVars, runSession, spawned,
                 teeVars, restarts, contended, stranded>>

(* The server answers, or its process ends and the call raises inside the  *)
(* pipeline.                                                               *)
McpAnswers(r) ==
  /\ runPc[r] = "calling"
  /\ runPc' = [runPc EXCEPT ![r] = "working"]
  /\ UNCHANGED <<diskVars, planVars, workflow, attempt, reqVars, runSession, spawned,
                 teeVars, restarts, contended, stranded>>

(* run_pipeline returned ("completed") or raised ("failed").  It may raise *)
(* before the status was set to "running" (missing settings).              *)
ReportOutcome(r, outcome) ==
  LET s == runSession[r] IN
  /\ \/ runPc[r] = "working"
     \/ runPc[r] = "teed" /\ outcome = "failed"
  /\ workflow' = [workflow EXCEPT ![s] = OutcomeStatus(s, outcome)]
  /\ stranded' = stranded \ {s}
  /\ runPc' = [runPc EXCEPT ![r] = "reported"]
  /\ UNCHANGED <<diskVars, planVars, attempt, reqVars, runSession, spawned,
                 teeVars, restarts, contended>>

(* finally: sys.stdout = original_stdout                                   *)
RestoreStdout(r) ==
  /\ runPc[r] = "reported"
  /\ stdout' = StreamAfter(r)
  /\ original' = [original EXCEPT ![r] = Terminal]
  /\ runPc' = [runPc EXCEPT ![r] = "restored"]
  /\ UNCHANGED <<diskVars, planVars, workflow, attempt, reqVars, runSession,
                 spawned, crossed, restarts, contended, stranded>>

(* flush_mgr.stop(): events still in the buffer are written to             *)
(* meetings.jsonl, which makes the directory again; then the thread ends.  *)
StopFlushing(r) ==
  /\ runPc[r] = "restored"
  /\ dirs' \in {dirs, dirs \cup {runSession[r]}}
  /\ runPc' = [runPc EXCEPT ![r] = "done"]
  /\ runSession' = [runSession EXCEPT ![r] = NoSession]
  /\ UNCHANGED <<used, listed, removed, pending, planVars, workflow, attempt, reqVars,
                 spawned, teeVars, restarts, contended, stranded>>

-----------------------------------------------------------------------------
(* The bridge process dies and is started again: everything in memory is   *)
(* gone, daemon threads with it; what is on disk stays.                    *)
Restart ==
  /\ restarts < MaxRestarts
  /\ restarts' = restarts + 1
  /\ payloads' = {}
  /\ workflow' = [s \in Sessions |-> "idle"]
  /\ attempt' = [s \in Sessions |-> 0]
  /\ decision' = [s \in Sessions |-> "none"]
  /\ remaining' = [s \in Sessions |-> 0]
  /\ reqPc' = [w \in Workers |-> "idle"]
  /\ reqSession' = [w \in Workers |-> NoSession]
  /\ reqAttempt' = [w \in Workers |-> 0]
  /\ runPc' = [r \in Runs |-> IF runPc[r] = "none" THEN "none" ELSE "done"]
  /\ runSession' = [r \in Runs |-> NoSession]
  /\ stdout' = Terminal
  /\ original' = [r \in Runs |-> Terminal]
  /\ crossed' = FALSE
  /\ contended' = {}
  /\ stranded' = {}
  /\ UNCHANGED <<diskVars, spawned>>

RequestStep(w) ==
  \/ McpConnected(w)
  \/ McpRefused(w)
  \/ ReportRefusal(w)
  \/ Launch(w)
  \/ SetupRaises(w)
  \/ Spawn(w)
  \/ SpawnRaises(w)
  \/ RemoveRuntimeDir(w)

(* The step that takes a pipeline thread one statement further.            *)
RunAdvances(r) ==
  \/ FlushStartRaises(r)
  \/ CaptureStdout(r)
  \/ InstallTee(r)
  \/ MarkRunning(r)
  \/ \E outcome \in {"completed", "failed"} : ReportOutcome(r, outcome)
  \/ RestoreStdout(r)
  \/ StopFlushing(r)

UserStep ==
  \/ \E s \in Sessions : CreateSession(s) \/ SaveWorkspace(s) \/ ClearRetryPrompt(s)
  \/ \E w \in Workers, s \in Sessions :
       \/ StartRun(w, s)
       \/ DeleteSession(w, s)
       \/ \E n \in 1 .. MaxRetryCount : RetryRun(w, s, n)

Next ==
  \/ UserStep
  \/ \E w \in Workers : RequestStep(w)
  \/ \E r \in Runs : RunAdvances(r) \/ WriteSessionFiles(r) \/ McpCall(r) \/ McpAnswers(r)
  \/ Restart

(* Threads keep running.  The pipeline makes finitely many calls of the    *)
(* Blender MCP server: when each is answered, it returns or raises (its    *)
(* HTTP and WebSocket calls have a timeout).  Nothing makes that server    *)
(* answer, a start may wait for its own MCP connection for ever, and users *)
(* and restarts owe nothing.                                               *)
Fairness ==
  /\ \A w \in Workers : WF_vars(RequestStep(w) /\ reqPc[w] # "connect")
  /\ \A r \in Runs : /\ WF_vars(RunAdvances(r))
                      /\ SF_vars(RunAdvances(r) /\ runPc[r] = "working")

Spec == Init /\ [][Next]_vars
FairSpec == Spec /\ Fairness

-----------------------------------------------------------------------------
(* The type invariant. *)
TypeOK ==
  /\ used \subseteq Sessions
  /\ listed \subseteq used /\ removed \subseteq used
  /\ dirs \subseteq used
  /\ pending \in [Sessions -> {"absent", "pending", "resolved"}]
  /\ payloads \subseteq used
  /\ workflow \in [Sessions -> {"idle", "starting", "running", "completed", "failed"}]
  /\ attempt \in [Sessions -> Nat]
  /\ decision \in [Sessions -> {"none", "retrying", "stopped"}]
  /\ remaining \in [Sessions -> Nat]
  /\ reqPc \in [Workers -> RequestPcs]
  /\ reqSession \in [Workers -> used \cup {NoSession}]
  /\ reqAttempt \in [Workers -> Nat]
  /\ runPc \in [Runs -> RunPcs]
  /\ runSession \in [Runs -> used \cup {NoSession}]
  /\ spawned \in 0 .. MaxRuns
  /\ stdout \in {Terminal} \cup Runs
  /\ original \in [Runs -> {Terminal} \cup Runs]
  /\ restarts \in 0 .. MaxRestarts
  /\ contended \subseteq used /\ stranded \subseteq used
  /\ crossed \in BOOLEAN

(* Writing to sys.stdout terminates: a TeeWriter is created with a stream  *)
(* that existed before it, so nothing prints through a tee that is not     *)
(* there yet and the chain of "original" streams cannot close on itself.   *)
(* It is about the order of the read of sys.stdout and its replacement in  *)
(* _run_inprocess_thread, whatever runs overlap.                           *)
TeeChainIsGrounded ==
  \A r \in Runs :
    runPc[r] \in {"none", "spawned", "captured"} =>
      stdout # r /\ \A q \in Runs : original[q] # r

(* When the runs of this bridge process never held sys.stdout together,    *)
(* the stream is the terminal again as soon as no run holds it: every exit *)
(* of the thread, the one through an exception before the status became    *)
(* "running" included, passes the finally block.                           *)
StdoutRestoredAfterRuns ==
  ~crossed /\ (\A r \in Runs : runPc[r] \notin Holding) => stdout = Terminal

(* A status that tells the UI a run is under way is true, however starts,  *)
(* retries, deletions, outcomes and restarts overlapped: "running" has a   *)
(* pipeline thread inside its try block, "starting" a thread that is still *)
(* going to change it.  The only exception is the launch that raised       *)
(* outside every handler, and only until another run of the session writes *)
(* a status.                                                               *)
BusyHasActor ==
  \A s \in Sessions :
    /\ workflow[s] = "running" =>
         \E r \in Runs : runPc[r] \in {"working", "calling"} /\ runSession[r] = s
    /\ workflow[s] = "starting" => Launching(s) \/ s \in stranded

(* A status that tells the UI the run has ended is true for a session that *)
(* was never asked to run while a run of it was in flight.                 *)
EndedMeansQuiet ==
  \A s \in Sessions \ contended :
    workflow[s] \in {"completed", "failed"} =>
      \A r \in Runs : runSession[r] = s => runPc[r] \notin Unreported

(* The attempt index a session reports goes back only when a start refused *)
(* by the MCP connection writes the index it read before taking the lock,  *)
(* or with the bridge process.                                             *)
AttemptGoesBackOnlyByRefusal ==
  [][\A s \in Sessions :
       attempt'[s] < attempt[s] =>
         \/ restarts' # restarts
         \/ \E w \in Workers : /\ reqPc[w] = "refuse" /\ reqPc'[w] = "idle"
                              /\ reqSession[w] = s
                              /\ s \in contended]_vars

(* Every run the UI sees under way ends in a status that says so, unless   *)
(* its own launch died outside every handler or its own pipeline waits for *)
(* the Blender MCP server for good.  A call that hangs and a launch that   *)
(* dies hold up their own session only: no interleaving of requests,       *)
(* pipeline threads, deletions and restarts leaves another one "running".  *)
RunsAreReported ==
  \A s \in Sessions :
    (\A r \in Runs : []<>~(runPc[r] = "calling" /\ runSession[r] = s))
      => (Busy(s) ~> (~Busy(s) \/ s \in stranded))

-----------------------------------------------------------------------------
(* What the documents say of the bridge and the code does not do.          *)

(* docs/react_ui.md:170-177: when a run fails, "Activity renders a retry   *)
(* decision card" with the choices retry 1, retry 3 and do not retry.      *)
(* After retry_run the plan stays "retrying" and the card never returns.   *)
FailedRunOffersRetry ==
  [][\A r \in Runs, s \in listed \ contended :
       /\ runPc[r] \in Unreported /\ runPc'[r] = "reported" /\ runSession[r] = s
       /\ workflow'[s] = "failed" /\ decision[s] # "stopped"
       => RetryPrompt(s)']_vars

(* docs/react_ui.md:207: "Deleting a session is expected to remove the     *)
(* full session runtime directory".  A run in flight makes it again.       *)
DeletedSessionHasNoDir ==
  \A s \in removed \ listed :
    (\A w \in Workers : reqSession[w] # s) => s \notin dirs
=============================================================================
