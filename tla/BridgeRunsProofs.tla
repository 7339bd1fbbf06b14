-------------------------- MODULE BridgeRunsProofs --------------------------
(***************************************************************************)
(* Proofs about BridgeRuns, for every number of sessions, request threads, *)
(* runs, attempts and restarts.                                            *)
(***************************************************************************)
EXTENDS BridgeRuns, TLAPS

(* A thread that carries a request or a run names a session the bridge     *)
(* has handed out, and the threads not yet spawned have not begun.         *)
ThreadsInv ==
  /\ \A w \in Workers : reqPc[w] # "idle" => reqSession[w] \in used
  /\ \A r \in Runs : runPc[r] \notin {"none", "done"} => runSession[r] \in used
  /\ \A r \in Runs : r > spawned => runPc[r] = "none"

TypeInv == TypeOK /\ ThreadsInv

-----------------------------------------------------------------------------
LEMMA TypeInit == Init => TypeInv
<1> SUFFICES ASSUME Init PROVE TypeInv
  OBVIOUS
<1>1. PICK old \in SUBSET Sessions : used = old /\ listed = old /\ dirs = old
  BY DEF Init
<1>2. used \subseteq Sessions /\ listed \subseteq used /\ removed \subseteq used
      /\ dirs \subseteq used /\ payloads \subseteq used /\ contended \subseteq used
      /\ stranded \subseteq used
  BY <1>1 DEF Init
<1>3. /\ pending \in [Sessions -> {"absent", "pending", "resolved"}]
      /\ workflow \in [Sessions -> {"idle", "starting", "running", "completed", "failed"}]
      /\ attempt \in [Sessions -> Nat]
      /\ decision \in [Sessions -> {"none", "retrying", "stopped"}]
      /\ remaining \in [Sessions -> Nat]
  BY DEF Init
<1>4. /\ reqPc \in [Workers -> RequestPcs]
      /\ reqSession \in [Workers -> used \cup {NoSession}]
      /\ reqAttempt \in [Workers -> Nat]
      /\ \A w \in Workers : reqPc[w] = "idle"
  BY DEF Init, RequestPcs
<1>5. /\ runPc \in [Runs -> RunPcs]
      /\ runSession \in [Runs -> used \cup {NoSession}]
      /\ original \in [Runs -> {Terminal} \cup Runs]
      /\ \A r \in Runs : runPc[r] = "none"
  BY DEF Init, RunPcs
<1>6. /\ spawned \in 0 .. MaxRuns /\ restarts \in 0 .. MaxRestarts
      /\ stdout \in {Terminal} \cup Runs /\ crossed \in BOOLEAN
  <2>1. spawned = 0 /\ restarts = 0 /\ stdout = Terminal /\ crossed = FALSE
    BY DEF Init
  <2>2. 0 \in 0 .. MaxRuns /\ 0 \in 0 .. MaxRestarts
    BY MaxRunsAssumption, MaxRestartsAssumption
  <2> QED
    BY <2>1, <2>2
<1>7. TypeOK
  BY <1>2, <1>3, <1>4, <1>5, <1>6 DEF TypeOK
<1>8. ThreadsInv
  BY <1>4, <1>5 DEF ThreadsInv
<1> QED
  BY <1>7, <1>8 DEF TypeInv

LEMMA TypeStep == TypeInv /\ [Next]_vars => TypeInv'
<1> SUFFICES ASSUME TypeInv, [Next]_vars PROVE TypeInv'
  OBVIOUS
<1> USE NoSessionAssumption, MaxRunsAssumption, MaxRestartsAssumption,
        MaxRetryCountAssumption
    DEF TypeInv, TypeOK, ThreadsInv, RequestPcs, RunPcs, Runs, Terminal,
        diskVars, planVars, reqVars, runVars, teeVars
<1>1. ASSUME NEW s \in Sessions, CreateSession(s) PROVE TypeInv'
  BY <1>1 DEF CreateSession
<1>2. ASSUME NEW s \in Sessions, SaveWorkspace(s) PROVE TypeInv'
  BY <1>2 DEF SaveWorkspace
<1>3. ASSUME NEW s \in Sessions, ClearRetryPrompt(s) PROVE TypeInv'
  BY <1>3 DEF ClearRetryPrompt
<1>4. ASSUME NEW w \in Workers, NEW s \in Sessions, StartRun(w, s) PROVE TypeInv'
  BY <1>4 DEF StartRun, Accept, NoteContention
<1>5. ASSUME NEW w \in Workers, NEW s \in Sessions, DeleteSession(w, s) PROVE TypeInv'
  BY <1>5 DEF DeleteSession, Accept
<1>6. ASSUME NEW w \in Workers, NEW s \in Sessions, NEW n \in 1 .. MaxRetryCount,
             RetryRun(w, s, n)
      PROVE TypeInv'
  BY <1>6 DEF RetryRun, Accept, NoteContention, RetryBudget
<1>7. ASSUME NEW w \in Workers, McpConnected(w) PROVE TypeInv'
  BY <1>7 DEF McpConnected
<1>8. ASSUME NEW w \in Workers, McpRefused(w) PROVE TypeInv'
  BY <1>8 DEF McpRefused, NextAttempt
<1>9. ASSUME NEW w \in Workers, ReportRefusal(w) PROVE TypeInv'
  BY <1>9 DEF ReportRefusal, Answer
<1>10. ASSUME NEW w \in Workers, Launch(w) PROVE TypeInv'
  BY <1>10 DEF Launch, LaunchStatus, NextAttempt
<1>11. ASSUME NEW w \in Workers, Spawn(w) PROVE TypeInv'
  BY <1>11 DEF Spawn, Answer
<1>12. ASSUME NEW w \in Workers, SpawnRaises(w) PROVE TypeInv'
  BY <1>12 DEF SpawnRaises, Answer
<1>13. ASSUME NEW w \in Workers, RemoveRuntimeDir(w) PROVE TypeInv'
  BY <1>13 DEF RemoveRuntimeDir, Answer
<1>14. ASSUME NEW r \in Runs, CaptureStdout(r) PROVE TypeInv'
  BY <1>14 DEF CaptureStdout, StreamToRestore
<1>15. ASSUME NEW r \in Runs, InstallTee(r) PROVE TypeInv'
  BY <1>15 DEF InstallTee
<1>16. ASSUME NEW r \in Runs, MarkRunning(r) PROVE TypeInv'
  BY <1>16 DEF MarkRunning, CarriedAttempt
<1>17. ASSUME NEW r \in Runs, NEW o \in {"completed", "failed"}, ReportOutcome(r, o)
       PROVE TypeInv'
  BY <1>17 DEF ReportOutcome, OutcomeStatus
<1>18. ASSUME NEW r \in Runs, RestoreStdout(r) PROVE TypeInv'
  BY <1>18 DEF RestoreStdout, StreamAfter
<1>19. ASSUME NEW r \in Runs, StopFlushing(r) PROVE TypeInv'
  BY <1>19 DEF StopFlushing
<1>20. ASSUME NEW r \in Runs, WriteSessionFiles(r) PROVE TypeInv'
  BY <1>20 DEF WriteSessionFiles
<1>21. ASSUME Restart PROVE TypeInv'
  <2>1. /\ reqPc' \in [Workers -> RequestPcs]
        /\ reqSession' \in [Workers -> used' \cup {NoSession}]
        /\ reqAttempt' \in [Workers -> Nat]
        /\ \A w \in Workers : reqPc'[w] = "idle"
    BY <1>21 DEF Restart
  <2>2. /\ runPc' \in [Runs -> RunPcs]
        /\ runSession' \in [Runs -> used' \cup {NoSession}]
        /\ original' \in [Runs -> {Terminal} \cup Runs]
        /\ \A r \in Runs : runPc'[r] \in {"none", "done"}
        /\ \A r \in Runs : r > spawned => runPc'[r] = "none"
    BY <1>21 DEF Restart
  <2>3. /\ workflow' \in [Sessions -> {"idle", "starting", "running", "completed", "failed"}]
        /\ attempt' \in [Sessions -> Nat]
        /\ decision' \in [Sessions -> {"none", "retrying", "stopped"}]
        /\ remaining' \in [Sessions -> Nat]
    BY <1>21 DEF Restart
  <2>4. /\ UNCHANGED <<used, listed, dirs, pending, removed, spawned>>
        /\ payloads' = {} /\ contended' = {} /\ stranded' = {} /\ crossed' = FALSE /\ stdout' = Terminal
        /\ restarts' \in 0 .. MaxRestarts
    BY <1>21 DEF Restart
  <2> QED
    BY <2>1, <2>2, <2>3, <2>4
<1>22. CASE UNCHANGED vars
  BY <1>22 DEF vars
<1>23. ASSUME NEW w \in Workers, SetupRaises(w) PROVE TypeInv'
  BY <1>23 DEF SetupRaises, Answer
<1>24. ASSUME NEW r \in Runs, FlushStartRaises(r) PROVE TypeInv'
  BY <1>24 DEF FlushStartRaises
<1>25. ASSUME NEW r \in Runs, McpCall(r) PROVE TypeInv'
  BY <1>25 DEF McpCall
<1>26. ASSUME NEW r \in Runs, McpAnswers(r) PROVE TypeInv'
  BY <1>26 DEF McpAnswers
<1> HIDE DEF TypeInv
<1> QED
  BY <1>1, <1>2, <1>3, <1>4, <1>5, <1>6, <1>7, <1>8, <1>9, <1>10, <1>11, <1>12, <1>13,
     <1>14, <1>15, <1>16, <1>17, <1>18, <1>19, <1>20, <1>21, <1>22,
     <1>23, <1>24, <1>25, <1>26
     DEF Next, UserStep, RequestStep, RunAdvances
(* Every reachable state is of the declared types: a thread always names a *)
(* session the bridge has handed out, whatever was deleted meanwhile.      *)
THEOREM TypeCorrect == Spec => []TypeOK
<1>1. TypeInv => TypeOK
  BY DEF TypeInv
<1> QED
  BY TypeInit, TypeStep, <1>1, PTL DEF Spec

-----------------------------------------------------------------------------
(* sys.stdout.                                                             *)

(* The steps that move a pipeline thread or touch sys.stdout.              *)
LEMMA StreamSteps ==
  ASSUME [Next]_vars
  PROVE  \/ UNCHANGED <<runVars, teeVars>>
         \/ \E w \in Workers : Spawn(w)
         \/ \E r \in Runs : RunAdvances(r) \/ McpCall(r) \/ McpAnswers(r)
         \/ Restart
<1>1. CASE UserStep
  BY <1>1 DEF UserStep, CreateSession, SaveWorkspace, ClearRetryPrompt, StartRun, RetryRun,
              DeleteSession
<1>2. ASSUME NEW w \in Workers, RequestStep(w), ~Spawn(w)
      PROVE  UNCHANGED <<runVars, teeVars>>
  BY <1>2 DEF RequestStep, McpConnected, McpRefused, ReportRefusal, Launch, SetupRaises,
              SpawnRaises, RemoveRuntimeDir
<1>3. ASSUME NEW r \in Runs, WriteSessionFiles(r) PROVE UNCHANGED <<runVars, teeVars>>
  BY <1>3 DEF WriteSessionFiles
<1>4. CASE UNCHANGED vars
  BY <1>4 DEF vars
<1> QED
  BY <1>1, <1>2, <1>3, <1>4 DEF Next

LEMMA TeeStep == TypeInv /\ TeeChainIsGrounded /\ [Next]_vars => TeeChainIsGrounded'
<1> SUFFICES ASSUME TypeInv, TeeChainIsGrounded, [Next]_vars PROVE TeeChainIsGrounded'
  OBVIOUS
<1> USE DEF TypeInv, TypeOK, TeeChainIsGrounded, Runs, Terminal, diskVars, planVars,
            reqVars, runVars, teeVars
<1>1. ASSUME UNCHANGED <<runVars, teeVars>> PROVE TeeChainIsGrounded'
  BY <1>1
<1>2. ASSUME NEW w \in Workers, Spawn(w) PROVE TeeChainIsGrounded'
  BY <1>2, MaxRunsAssumption DEF Spawn, ThreadsInv, RunPcs
<1>3. ASSUME NEW r \in Runs, CaptureStdout(r) PROVE TeeChainIsGrounded'
  BY <1>3 DEF CaptureStdout, StreamToRestore, RunPcs
<1>4. ASSUME NEW r \in Runs, InstallTee(r) PROVE TeeChainIsGrounded'
  BY <1>4 DEF InstallTee, RunPcs
<1>5. ASSUME NEW r \in Runs, MarkRunning(r) PROVE TeeChainIsGrounded'
  BY <1>5 DEF MarkRunning, RunPcs
<1>6. ASSUME NEW r \in Runs, NEW o \in {"completed", "failed"}, ReportOutcome(r, o)
      PROVE TeeChainIsGrounded'
  BY <1>6 DEF ReportOutcome, RunPcs
<1>7. ASSUME NEW r \in Runs, RestoreStdout(r) PROVE TeeChainIsGrounded'
  BY <1>7 DEF RestoreStdout, StreamAfter, RunPcs
<1>8. ASSUME NEW r \in Runs, StopFlushing(r) PROVE TeeChainIsGrounded'
  BY <1>8 DEF StopFlushing, RunPcs
<1>9. ASSUME Restart PROVE TeeChainIsGrounded'
  BY <1>9 DEF Restart, RunPcs
<1>10. ASSUME NEW r \in Runs, FlushStartRaises(r) PROVE TeeChainIsGrounded'
  BY <1>10 DEF FlushStartRaises, RunPcs
<1>11. ASSUME NEW r \in Runs, McpCall(r) PROVE TeeChainIsGrounded'
  BY <1>11 DEF McpCall, RunPcs
<1>12. ASSUME NEW r \in Runs, McpAnswers(r) PROVE TeeChainIsGrounded'
  BY <1>12 DEF McpAnswers, RunPcs
<1> HIDE DEF TeeChainIsGrounded
<1> QED
  BY StreamSteps, <1>1, <1>2, <1>3, <1>4, <1>5, <1>6, <1>7, <1>8, <1>9, <1>10, <1>11,
     <1>12
     DEF RunAdvances

(* Printing terminates: no run's TeeWriter forwards, directly or through   *)
(* others, to itself, because sys.stdout is read before it is replaced.    *)
THEOREM TeeChainGrounded == Spec => []TeeChainIsGrounded
<1>1. Init => TeeChainIsGrounded
  BY DEF Init, TeeChainIsGrounded, Runs, Terminal
<1> QED
  BY TypeInit, TypeStep, TeeStep, <1>1, PTL DEF Spec

(* As long as no two runs replaced sys.stdout together, at most one run    *)
(* holds it, it will restore the terminal, and sys.stdout is the terminal  *)
(* until that run replaces it.                                             *)
StreamInv ==
  ~crossed =>
    /\ \A q, r \in Runs : runPc[q] \in Holding /\ runPc[r] \in Holding => q = r
    /\ \A r \in Runs : runPc[r] \in Holding => original[r] = Terminal
    /\ (\A r \in Runs : runPc[r] \notin Holding) => stdout = Terminal

LEMMA StreamStep == TypeInv /\ StreamInv /\ [Next]_vars => StreamInv'
<1> SUFFICES ASSUME TypeInv, StreamInv, [Next]_vars PROVE StreamInv'
  OBVIOUS
<1> USE DEF TypeInv, TypeOK, StreamInv, Runs, Holding, diskVars, planVars,
            reqVars, runVars, teeVars
<1>1. ASSUME UNCHANGED <<runVars, teeVars>> PROVE StreamInv'
  BY <1>1
<1>2. ASSUME NEW w \in Workers, Spawn(w) PROVE StreamInv'
  BY <1>2, MaxRunsAssumption DEF Spawn, ThreadsInv, RunPcs
<1>3. ASSUME NEW r \in Runs, CaptureStdout(r) PROVE StreamInv'
  BY <1>3 DEF CaptureStdout, StreamToRestore, RunPcs
<1>4. ASSUME NEW r \in Runs, InstallTee(r) PROVE StreamInv'
  BY <1>4 DEF InstallTee, RunPcs
<1>5. ASSUME NEW r \in Runs, MarkRunning(r) PROVE StreamInv'
  BY <1>5 DEF MarkRunning, RunPcs
<1>6. ASSUME NEW r \in Runs, NEW o \in {"completed", "failed"}, ReportOutcome(r, o)
      PROVE StreamInv'
  BY <1>6 DEF ReportOutcome, RunPcs
<1>7. ASSUME NEW r \in Runs, RestoreStdout(r) PROVE StreamInv'
  BY <1>7 DEF RestoreStdout, StreamAfter, RunPcs
<1>8. ASSUME NEW r \in Runs, StopFlushing(r) PROVE StreamInv'
  BY <1>8 DEF StopFlushing, RunPcs
<1>9. ASSUME Restart PROVE StreamInv'
  BY <1>9 DEF Restart, RunPcs
<1>10. ASSUME NEW r \in Runs, FlushStartRaises(r) PROVE StreamInv'
  BY <1>10 DEF FlushStartRaises, RunPcs
<1>11. ASSUME NEW r \in Runs, McpCall(r) PROVE StreamInv'
  BY <1>11 DEF McpCall, RunPcs
<1>12. ASSUME NEW r \in Runs, McpAnswers(r) PROVE StreamInv'
  BY <1>12 DEF McpAnswers, RunPcs
<1> HIDE DEF StreamInv
<1> QED
  BY StreamSteps, <1>1, <1>2, <1>3, <1>4, <1>5, <1>6, <1>7, <1>8, <1>9, <1>10, <1>11,
     <1>12
     DEF RunAdvances

(* Runs that did not overlap leave sys.stdout as they found it, on every   *)
(* path through the pipeline thread.                                       *)
THEOREM StdoutRestored == Spec => []StdoutRestoredAfterRuns
<1>1. Init => StreamInv
  BY DEF Init, StreamInv, Runs, Holding
<1>2. StreamInv => StdoutRestoredAfterRuns
  BY DEF StreamInv, StdoutRestoredAfterRuns
<1> QED
  BY TypeInit, TypeStep, StreamStep, <1>1, <1>2, PTL DEF Spec
-----------------------------------------------------------------------------
(* What the status of a session says of its threads.                       *)

LEMMA BusyStep == TypeInv /\ BusyHasActor /\ [Next]_vars => BusyHasActor'
<1> SUFFICES ASSUME TypeInv, BusyHasActor, [Next]_vars PROVE BusyHasActor'
  OBVIOUS
<1> DEFINE
      Inside(s)   == \E r \in Runs : runPc[r] \in {"working", "calling"} /\ runSession[r] = s
      Told(s)     == /\ workflow[s] = "running" => Inside(s)
                     /\ workflow[s] = "starting" => Launching(s) \/ s \in stranded
      Launches(w, s) == reqPc[w] = "console" /\ reqSession[w] = s
      Carries(r, s)  == runPc[r] \in Unreported /\ runSession[r] = s
      (* What a step leaves to a session it is not about.                  *)
      Keeps(s) ==
        /\ workflow'[s] = workflow[s] /\ (s \in stranded => s \in stranded')
        /\ \A w \in Workers : Launches(w, s) => Launches(w, s)'
        /\ \A r \in Runs : Carries(r, s) =>
             /\ Carries(r, s)'
             /\ runPc[r] \in {"working", "calling"} => runPc'[r] \in {"working", "calling"}
<1>1. ASSUME NEW s \in Sessions, Keeps(s) PROVE Told(s)'
  <2>1. Told(s)
    BY DEF BusyHasActor
  <2>2. Inside(s) => Inside(s)'
    BY <1>1 DEF Unreported
  <2>3. Launching(s) => Launching(s)'
    BY <1>1 DEF Launching
  <2> QED
    BY <1>1, <2>1, <2>2, <2>3
<1>2. (\A s \in Sessions : Told(s)') => BusyHasActor'
  BY DEF BusyHasActor
<1> USE DEF TypeInv, TypeOK, ThreadsInv, RequestPcs, RunPcs, Runs, diskVars, planVars, reqVars,
            runVars, teeVars
(* The requests.                                                           *)
<1>3. ASSUME UserStep PROVE \A s \in Sessions : Keeps(s)
  <2>1. UNCHANGED <<workflow, stranded, runVars>>
    BY <1>3 DEF UserStep, CreateSession, SaveWorkspace, ClearRetryPrompt, StartRun, RetryRun,
                DeleteSession
  <2>2. \A w \in Workers : reqPc[w] = "console" =>
          reqPc'[w] = "console" /\ reqSession'[w] = reqSession[w]
    BY <1>3 DEF UserStep, CreateSession, SaveWorkspace, ClearRetryPrompt, StartRun, RetryRun,
                DeleteSession, Accept
  <2> QED
    BY <2>1, <2>2
<1>4. ASSUME NEW w \in Workers,
             \/ McpConnected(w) \/ McpRefused(w) \/ SetupRaises(w) \/ RemoveRuntimeDir(w)
      PROVE  \A s \in Sessions : Keeps(s)
  <2>1. UNCHANGED <<workflow, stranded, runVars>> /\ reqPc[w] # "console"
    BY <1>4 DEF McpConnected, McpRefused, SetupRaises, RemoveRuntimeDir
  <2>2. \A v \in Workers \ {w} : reqPc'[v] = reqPc[v] /\ reqSession'[v] = reqSession[v]
    BY <1>4 DEF McpConnected, McpRefused, SetupRaises, RemoveRuntimeDir, Answer
  <2> QED
    BY <2>1, <2>2
<1>5. ASSUME NEW w \in Workers, ReportRefusal(w), NEW s \in Sessions PROVE Told(s)'
  <2>1. /\ reqPc[w] = "refuse" /\ workflow'[reqSession[w]] = "failed"
        /\ \A v \in Workers \ {w} : reqPc'[v] = reqPc[v] /\ reqSession'[v] = reqSession[v]
        /\ UNCHANGED runVars
    BY <1>5 DEF ReportRefusal, Answer
  <2>2. CASE s = reqSession[w]
    BY <2>1, <2>2
  <2>3. CASE s # reqSession[w]
    <3>1. workflow'[s] = workflow[s] /\ (s \in stranded => s \in stranded')
      BY <1>5, <2>3 DEF ReportRefusal
    <3>2. Keeps(s)
      BY <2>1, <3>1
    <3> QED
      BY <1>1, <3>2
  <2> QED
    BY <2>2, <2>3
<1>6. ASSUME NEW w \in Workers, Launch(w), NEW s \in Sessions PROVE Told(s)'
  <2>1. /\ workflow'[reqSession[w]] = "starting"
        /\ reqPc[w] # "console" /\ reqPc'[w] = "console" /\ reqSession' = reqSession
        /\ \A v \in Workers \ {w} : reqPc'[v] = reqPc[v]
        /\ UNCHANGED runVars
    BY <1>6 DEF Launch, LaunchStatus
  <2>2. CASE s = reqSession[w]
    BY <2>1, <2>2 DEF Launching
  <2>3. CASE s # reqSession[w]
    <3>1. workflow'[s] = workflow[s] /\ (s \in stranded => s \in stranded')
      BY <1>6, <2>3 DEF Launch
    <3>2. Keeps(s)
      BY <2>1, <3>1
    <3> QED
      BY <1>1, <3>2
  <2> QED
    BY <2>2, <2>3
<1>7. ASSUME NEW w \in Workers, Spawn(w), NEW s \in Sessions PROVE Told(s)'
  <2> DEFINE q == spawned + 1
  <2>1. /\ q \in Runs /\ runPc[q] = "none"
        /\ runPc'[q] = "spawned" /\ runSession'[q] = reqSession[w]
        /\ \A r \in Runs : r # q => runPc'[r] = runPc[r] /\ runSession'[r] = runSession[r]
        /\ \A v \in Workers : v # w => reqPc'[v] = reqPc[v] /\ reqSession'[v] = reqSession[v]
        /\ workflow' = workflow /\ stranded' = stranded
    BY <1>7, MaxRunsAssumption DEF Spawn, Answer
  <2> HIDE DEF q
  <2>2. \A r \in Runs : Carries(r, s) => Carries(r, s)' /\ runPc'[r] = runPc[r]
    BY <2>1 DEF Unreported
  <2>3. CASE s = reqSession[w]
    <3>1. Launching(s)'
      BY <2>1, <2>3 DEF Launching, Unreported
    <3>2. Inside(s) => Inside(s)'
      BY <2>2 DEF Unreported
    <3> QED
      BY <2>1, <3>1, <3>2 DEF BusyHasActor
  <2>4. CASE s # reqSession[w]
    <3>1. Keeps(s)
      BY <2>1, <2>2, <2>4
    <3> QED
      BY <1>1, <3>1
  <2> QED
    BY <2>3, <2>4
<1>8. ASSUME NEW w \in Workers, SpawnRaises(w), NEW s \in Sessions PROVE Told(s)'
  <2>1. /\ stranded' = stranded \cup {reqSession[w]} /\ workflow' = workflow /\ UNCHANGED runVars
        /\ \A v \in Workers : v # w => reqPc'[v] = reqPc[v] /\ reqSession'[v] = reqSession[v]
    BY <1>8 DEF SpawnRaises, Answer
  <2>2. CASE s = reqSession[w]
    BY <2>1, <2>2 DEF BusyHasActor
  <2>3. CASE s # reqSession[w]
    <3>1. Keeps(s)
      BY <2>1, <2>3
    <3> QED
      BY <1>1, <3>1
  <2> QED
    BY <2>2, <2>3
(* The pipeline threads.                                                   *)
<1>9. ASSUME NEW r \in Runs, FlushStartRaises(r), NEW s \in Sessions PROVE Told(s)'
  <2>1. /\ stranded' = stranded \cup {runSession[r]} /\ workflow' = workflow /\ UNCHANGED reqVars
        /\ runPc[r] = "spawned"
        /\ \A q \in Runs : q # r => runPc'[q] = runPc[q] /\ runSession'[q] = runSession[q]
    BY <1>9 DEF FlushStartRaises
  <2>2. CASE s = runSession[r]
    <3>1. Inside(s) => Inside(s)'
      BY <2>1
    <3> QED
      BY <2>1, <2>2, <3>1 DEF BusyHasActor
  <2>3. CASE s # runSession[r]
    <3>1. Keeps(s)
      BY <2>1, <2>3
    <3> QED
      BY <1>1, <3>1
  <2> QED
    BY <2>2, <2>3
<1>10. ASSUME NEW r \in Runs,
              \/ CaptureStdout(r) \/ InstallTee(r) \/ McpCall(r) \/ McpAnswers(r)
              \/ RestoreStdout(r)
       PROVE  \A s \in Sessions : Keeps(s)
  <2>1. UNCHANGED <<workflow, stranded, reqVars, runSession>>
    BY <1>10 DEF CaptureStdout, InstallTee, McpCall, McpAnswers, RestoreStdout
  <2>2. PICK pc \in RunPcs :
          /\ runPc' = [runPc EXCEPT ![r] = pc]
          /\ \/ runPc[r] \in {"spawned", "captured"} /\ pc \in {"captured", "teed"}
             \/ runPc[r] \in {"working", "calling"} /\ pc \in {"working", "calling"}
             \/ runPc[r] = "reported"
    <3>1. CASE CaptureStdout(r)
      BY <3>1 DEF CaptureStdout
    <3>2. CASE InstallTee(r)
      BY <3>2 DEF InstallTee
    <3>3. CASE McpCall(r)
      BY <3>3 DEF McpCall
    <3>4. CASE McpAnswers(r)
      BY <3>4 DEF McpAnswers
    <3>5. CASE RestoreStdout(r)
      BY <3>5 DEF RestoreStdout
    <3> QED
      BY <1>10, <3>1, <3>2, <3>3, <3>4, <3>5
  <2>3. /\ \A q \in Runs : q # r => runPc'[q] = runPc[q]
        /\ runPc[r] \in Unreported => runPc'[r] \in Unreported
        /\ runPc[r] \in {"working", "calling"} => runPc'[r] \in {"working", "calling"}
    BY <2>2 DEF Unreported
  <2>4. ASSUME NEW s \in Sessions, NEW q \in Runs, Carries(q, s)
        PROVE  /\ Carries(q, s)'
               /\ runPc[q] \in {"working", "calling"} => runPc'[q] \in {"working", "calling"}
    <3>1. CASE q = r
      BY <2>1, <2>3, <2>4, <3>1
    <3>2. CASE q # r
      <4>1. runPc'[q] = runPc[q] /\ runSession'[q] = runSession[q]
        BY <2>1, <2>3, <3>2
      <4> QED
        BY <2>4, <4>1
    <3> QED
      BY <3>1, <3>2
  <2>5. ASSUME NEW s \in Sessions, NEW w \in Workers, Launches(w, s) PROVE Launches(w, s)'
    BY <2>1, <2>5
  <2> HIDE DEF Carries, Launches
  <2> QED
    BY <2>1, <2>4, <2>5
<1>11. ASSUME NEW r \in Runs, MarkRunning(r), NEW s \in Sessions PROVE Told(s)'
  <2>1. /\ workflow'[runSession[r]] = "running" /\ runPc[r] = "teed" /\ runPc'[r] = "working"
        /\ \A q \in Runs : q # r => runPc'[q] = runPc[q]
        /\ runSession' = runSession /\ UNCHANGED reqVars
    BY <1>11 DEF MarkRunning
  <2>2. CASE s = runSession[r]
    BY <2>1, <2>2
  <2>3. CASE s # runSession[r]
    <3>1. workflow'[s] = workflow[s] /\ (s \in stranded => s \in stranded')
      BY <1>11, <2>3 DEF MarkRunning
    <3>2. Keeps(s)
      BY <2>1, <2>3, <3>1
    <3> QED
      BY <1>1, <3>2
  <2> QED
    BY <2>2, <2>3
<1>12. ASSUME NEW r \in Runs, NEW o \in {"completed", "failed"}, ReportOutcome(r, o),
              NEW s \in Sessions
       PROVE  Told(s)'
  <2>1. /\ workflow'[runSession[r]] \in {"completed", "failed"}
        /\ \A q \in Runs : q # r => runPc'[q] = runPc[q]
        /\ runSession' = runSession /\ UNCHANGED reqVars
    BY <1>12 DEF ReportOutcome, OutcomeStatus
  <2>2. CASE s = runSession[r]
    BY <2>1, <2>2
  <2>3. CASE s # runSession[r]
    <3>1. workflow'[s] = workflow[s] /\ (s \in stranded => s \in stranded')
      BY <1>12, <2>3 DEF ReportOutcome
    <3>2. Keeps(s)
      BY <2>1, <2>3, <3>1
    <3> QED
      BY <1>1, <3>2
  <2> QED
    BY <2>2, <2>3
<1>13. ASSUME NEW r \in Runs, StopFlushing(r) PROVE \A s \in Sessions : Keeps(s)
  <2>1. /\ runPc[r] = "restored"
        /\ \A q \in Runs : q # r => runPc'[q] = runPc[q] /\ runSession'[q] = runSession[q]
        /\ workflow' = workflow /\ stranded' = stranded /\ UNCHANGED reqVars
    BY <1>13 DEF StopFlushing
  <2>2. ASSUME NEW s \in Sessions, NEW q \in Runs, Carries(q, s)
        PROVE  Carries(q, s)' /\ runPc'[q] = runPc[q]
    BY <2>1, <2>2 DEF Unreported
  <2> QED
    BY <2>1, <2>2
<1>14. ASSUME NEW r \in Runs, WriteSessionFiles(r) PROVE \A s \in Sessions : Keeps(s)
  BY <1>14 DEF WriteSessionFiles
<1>15. ASSUME Restart PROVE BusyHasActor'
  BY <1>15 DEF Restart, BusyHasActor
<1>16. ASSUME UNCHANGED vars PROVE \A s \in Sessions : Keeps(s)
  BY <1>16 DEF vars
<1> HIDE DEF Told, Keeps
<1> QED
  BY <1>1, <1>2, <1>3, <1>4, <1>5, <1>6, <1>7, <1>8, <1>9, <1>10, <1>11, <1>12, <1>13, <1>14,
     <1>15, <1>16
     DEF Next, RequestStep, RunAdvances

(* A session shown as running has a pipeline thread inside its try block,  *)
(* and one shown as starting a thread that will still write its status,    *)
(* unless the launch itself died outside every handler.                    *)
THEOREM BusyHasAnActor == Spec => []BusyHasActor
<1>1. Init => BusyHasActor
  BY DEF Init, BusyHasActor
<1> QED
  BY TypeInit, TypeStep, BusyStep, <1>1, PTL DEF Spec

(* A session that was never asked to run while it was running has at most  *)
(* one thread of a run, its status is not an ended one while a pipeline    *)
(* thread has something to report, and the index a refused start has read  *)
(* is still the next one.                                                  *)
SingleRunInv ==
  \A s \in Sessions \ contended :
    /\ \A v, w \in Workers :
         Starting(v) /\ Starting(w) /\ reqSession[v] = s /\ reqSession[w] = s => v = w
    /\ \A w \in Workers, r \in Runs :
         Starting(w) /\ reqSession[w] = s /\ runSession[r] = s => runPc[r] \notin Unreported
    /\ \A q, r \in Runs :
         /\ runPc[q] \in Unreported /\ runPc[r] \in Unreported
         /\ runSession[q] = s /\ runSession[r] = s
         => q = r
    /\ \A w \in Workers : reqPc[w] = "console" /\ reqSession[w] = s => Busy(s)
    /\ \A r \in Runs : runPc[r] \in Unreported /\ runSession[r] = s => Busy(s)
    /\ \A w \in Workers :
         reqPc[w] = "refuse" /\ reqSession[w] = s => reqAttempt[w] = attempt[s] + 1

LEMMA SingleRunStep == TypeInv /\ SingleRunInv /\ [Next]_vars => SingleRunInv'
<1> SUFFICES ASSUME TypeInv, SingleRunInv, [Next]_vars PROVE SingleRunInv'
  OBVIOUS
<1> USE MaxRunsAssumption, MaxRetryCountAssumption, NoSessionAssumption
    DEF TypeInv, TypeOK, ThreadsInv, SingleRunInv, Busy, InFlight, Starting, Unreported, RequestPcs, RunPcs,
        Runs, diskVars, planVars, reqVars, runVars, teeVars
<1>1. ASSUME NEW s \in Sessions, CreateSession(s) PROVE SingleRunInv'
  BY <1>1 DEF CreateSession
<1>2. ASSUME NEW s \in Sessions, SaveWorkspace(s) PROVE SingleRunInv'
  BY <1>2 DEF SaveWorkspace
<1>3. ASSUME NEW s \in Sessions, ClearRetryPrompt(s) PROVE SingleRunInv'
  BY <1>3 DEF ClearRetryPrompt
<1>4. ASSUME NEW w \in Workers, NEW s \in Sessions, StartRun(w, s) PROVE SingleRunInv'
  BY <1>4 DEF StartRun, Accept, NoteContention
<1>5. ASSUME NEW w \in Workers, NEW s \in Sessions,
             DeleteSession(w, s)
      PROVE  SingleRunInv'
  BY <1>5 DEF DeleteSession, Accept
<1>6. ASSUME NEW w \in Workers, NEW s \in Sessions, NEW n \in 1 .. MaxRetryCount,
             RetryRun(w, s, n)
      PROVE  SingleRunInv'
  BY <1>6 DEF RetryRun, Accept, NoteContention
<1>7. ASSUME NEW w \in Workers, McpConnected(w) PROVE SingleRunInv'
  BY <1>7 DEF McpConnected
<1>8. ASSUME NEW w \in Workers, McpRefused(w) PROVE SingleRunInv'
  BY <1>8 DEF McpRefused, NextAttempt
<1>9. ASSUME NEW w \in Workers, ReportRefusal(w) PROVE SingleRunInv'
  BY <1>9 DEF ReportRefusal, Answer
<1>10. ASSUME NEW w \in Workers, Launch(w) PROVE SingleRunInv'
  BY <1>10 DEF Launch, LaunchStatus, NextAttempt
<1>11. ASSUME NEW w \in Workers, Spawn(w) PROVE SingleRunInv'
  <2> DEFINE q == spawned + 1
  <2>1. /\ q \in Runs /\ runPc[q] = "none" /\ reqPc[w] = "console"
        /\ runPc' = [runPc EXCEPT ![q] = "spawned"]
        /\ runSession' = [runSession EXCEPT ![q] = reqSession[w]]
        /\ reqPc' = [reqPc EXCEPT ![w] = "idle"]
        /\ reqSession' = [reqSession EXCEPT ![w] = NoSession]
        /\ reqAttempt' = [reqAttempt EXCEPT ![w] = 0]
        /\ UNCHANGED <<workflow, attempt, contended>>
    BY <1>11 DEF Spawn, Answer
  <2> HIDE DEF q
  <2> QED
    BY <2>1
<1>12. ASSUME NEW w \in Workers, SpawnRaises(w) PROVE SingleRunInv'
  BY <1>12 DEF SpawnRaises, Answer
<1>13. ASSUME NEW w \in Workers, RemoveRuntimeDir(w) PROVE SingleRunInv'
  BY <1>13 DEF RemoveRuntimeDir, Answer
<1>14. ASSUME NEW r \in Runs, CaptureStdout(r) PROVE SingleRunInv'
  BY <1>14 DEF CaptureStdout
<1>15. ASSUME NEW r \in Runs, InstallTee(r) PROVE SingleRunInv'
  BY <1>15 DEF InstallTee
<1>16. ASSUME NEW r \in Runs, MarkRunning(r) PROVE SingleRunInv'
  BY <1>16 DEF MarkRunning, CarriedAttempt
<1>17. ASSUME NEW r \in Runs, NEW o \in {"completed", "failed"},
             ReportOutcome(r, o)
      PROVE  SingleRunInv'
  BY <1>17 DEF ReportOutcome, OutcomeStatus
<1>18. ASSUME NEW r \in Runs, RestoreStdout(r) PROVE SingleRunInv'
  BY <1>18 DEF RestoreStdout
<1>19. ASSUME NEW r \in Runs, StopFlushing(r) PROVE SingleRunInv'
  BY <1>19 DEF StopFlushing
<1>20. ASSUME NEW r \in Runs, WriteSessionFiles(r) PROVE SingleRunInv'
  BY <1>20 DEF WriteSessionFiles
<1>21. ASSUME Restart PROVE SingleRunInv'
  BY <1>21 DEF Restart
<1>22. CASE UNCHANGED vars
  BY <1>22 DEF vars
<1>23. ASSUME NEW w \in Workers, SetupRaises(w) PROVE SingleRunInv'
  BY <1>23 DEF SetupRaises, Answer
<1>24. ASSUME NEW r \in Runs, FlushStartRaises(r) PROVE SingleRunInv'
  BY <1>24 DEF FlushStartRaises
<1>25. ASSUME NEW r \in Runs, McpCall(r) PROVE SingleRunInv'
  BY <1>25 DEF McpCall
<1>26. ASSUME NEW r \in Runs, McpAnswers(r) PROVE SingleRunInv'
  BY <1>26 DEF McpAnswers
<1> HIDE DEF SingleRunInv
<1> QED
  BY <1>1, <1>2, <1>3, <1>4, <1>5, <1>6, <1>7, <1>8, <1>9, <1>10, <1>11, <1>12, <1>13,
     <1>14, <1>15, <1>16, <1>17, <1>18, <1>19, <1>20, <1>21, <1>22,
     <1>23, <1>24, <1>25, <1>26
     DEF Next, UserStep, RequestStep, RunAdvances

(* A session that was never asked to run while it was running shows no     *)
(* ended status while a pipeline thread of it has something to report.     *)
THEOREM EndedIsQuiet == Spec => []EndedMeansQuiet
<1>1. Init => SingleRunInv
  BY DEF Init, SingleRunInv, Starting, Unreported
<1>2. SingleRunInv => EndedMeansQuiet
  BY DEF SingleRunInv, EndedMeansQuiet, Busy
<1> QED
  BY TypeInit, TypeStep, SingleRunStep, <1>1, <1>2, PTL DEF Spec

(* A refused start writes an index older than the one it finds only when   *)
(* the session was started twice; every other step keeps or raises it.     *)
THEOREM AttemptOrder == Spec => AttemptGoesBackOnlyByRefusal
<1> DEFINE Order(s) ==
      attempt'[s] < attempt[s] =>
        \/ restarts' # restarts
        \/ \E w \in Workers : /\ reqPc[w] = "refuse" /\ reqPc'[w] = "idle"
                             /\ reqSession[w] = s
                             /\ s \in contended
<1>1. ASSUME TypeInv, SingleRunInv, [Next]_vars PROVE \A s \in Sessions : Order(s)
  <2>1. ASSUME attempt' = attempt PROVE \A s \in Sessions : Order(s)
    BY <2>1, <1>1 DEF TypeInv, TypeOK
  <2>2. ASSUME NEW w \in Workers, ReportRefusal(w) PROVE \A s \in Sessions : Order(s)
    BY <2>2, <1>1 DEF ReportRefusal, Answer, SingleRunInv, TypeInv, TypeOK, Starting
  <2>3. ASSUME NEW w \in Workers, Launch(w) PROVE \A s \in Sessions : Order(s)
    BY <2>3, <1>1 DEF Launch, NextAttempt, TypeInv, TypeOK
  <2>4. ASSUME NEW r \in Runs, MarkRunning(r) PROVE \A s \in Sessions : Order(s)
    BY <2>4, <1>1 DEF MarkRunning, CarriedAttempt, TypeInv, TypeOK
  <2>5. ASSUME Restart PROVE \A s \in Sessions : Order(s)
    BY <2>5, <1>1, MaxRestartsAssumption DEF Restart, TypeInv, TypeOK
  <2>6. ASSUME UserStep PROVE attempt' = attempt
    BY <2>6 DEF UserStep, CreateSession, SaveWorkspace, ClearRetryPrompt, StartRun, RetryRun,
                DeleteSession
  <2>7. ASSUME NEW w \in Workers, RequestStep(w), ~ReportRefusal(w), ~Launch(w)
        PROVE  attempt' = attempt
    BY <2>7 DEF RequestStep, McpConnected, McpRefused, SetupRaises, Spawn, SpawnRaises,
                RemoveRuntimeDir
  <2>8. ASSUME NEW r \in Runs, ~MarkRunning(r),
               RunAdvances(r) \/ WriteSessionFiles(r) \/ McpCall(r) \/ McpAnswers(r)
        PROVE  attempt' = attempt
    BY <2>8 DEF RunAdvances, WriteSessionFiles, McpCall, McpAnswers, FlushStartRaises,
                CaptureStdout, InstallTee, ReportOutcome, RestoreStdout, StopFlushing
  <2>9. ASSUME UNCHANGED vars PROVE attempt' = attempt
    BY <2>9 DEF vars
  <2> HIDE DEF Order
  <2> QED
    BY <1>1, <2>1, <2>2, <2>3, <2>4, <2>5, <2>6, <2>7, <2>8, <2>9 DEF Next
<1>2. ASSUME TypeInv, SingleRunInv, [Next]_vars
      PROVE  [\A s \in Sessions : Order(s)]_vars
  BY <1>1, <1>2
<1>3. Init => SingleRunInv
  BY DEF Init, SingleRunInv, Starting, Unreported
<1> QED
  BY TypeInit, TypeStep, SingleRunStep, <1>2, <1>3, PTL
     DEF Spec, AttemptGoesBackOnlyByRefusal
=============================================================================
