------------------------- MODULE PipelineRunProofs -------------------------
(***************************************************************************)
(* Proofs about PipelineRun: its type, what its results mean, and that it  *)
(* keeps the contract of RunContract.                                      *)
(***************************************************************************)
EXTENDS PipelineRun, TLAPS

BeforeWork == {"begin", "provision", "configure", "start", "work"}
AfterWork == {"end", "flush", "gate"}

(* How far the run is: the phases behind it have products and statuses,    *)
(* those ahead of it have none until a gate condemns them.                 *)
Progressed ==
  /\ verdict = "none" <=> pc \in BeforeWork \cup AfterWork
  /\ pc = "report" => verdict \in {"SUCCESS", "DEGRADED", "FAILED"}
  /\ pc \in BeforeWork => product[phase] = "none"
  /\ pc \in AfterWork => product[phase] # "none"
  /\ \A p \in PhaseIds : p < phase => product[p] # "none"
  /\ \A p \in PhaseIds : p > phase => product[p] = "none"
  /\ verdict = "none" =>
       \A p \in PhaseIds : statuses[p] = "none" <=> product[p] = "none"

(* A phase that succeeded handed on what it returned, and with AO it has   *)
(* passed its gate once the run is at a later phase.                       *)
Passed ==
  verdict = "none" =>
    /\ \A p \in PhaseIds : statuses[p] = "SUCCESS" => product[p] \in Returns(p)
    /\ \A p \in PhaseIds : p < phase => ~EndsRun(p)

(* degraded_parts has an entry for each failure.                           *)
Recorded == verdict = "none" => \A p \in PhaseIds : Listed(p) <=> statuses[p] = "FAILED"

(* A phase that raised handed on the empty artifact; so the build gate,    *)
(* which looks at a flawed one first, never lists a phase a second time.   *)
FailedAreEmpty ==
  verdict = "none" => \A p \in PhaseIds : statuses[p] = "FAILED" => product[p] = "empty"
ListedOnce == \A i, j \in DOMAIN degraded : degraded[i] = degraded[j] => i = j
ListedFailed ==
  verdict \in Results =>
    \A p \in PhaseIds : Listed(p) <=> statuses[p] = "FAILED" /\ product[p] # "none"

(* From the final write on progress.json tells the result, or the run has  *)
(* raised.                                                                 *)
FileTells ==
  ao /\ verdict \in Results /\ pc \in {"close", "delete", "ended"} =>
    file.status = StatusOf(verdict) /\ file.health = StatusOf(verdict)

RunInv ==
  /\ TypeOK /\ Progressed /\ Passed /\ Recorded
  /\ FailedAreEmpty /\ ListedOnce /\ ListedFailed /\ FileTells
  /\ SuccessIsClean /\ FailedRunStoppedAtGate /\ ConversationDestroyed

-----------------------------------------------------------------------------
LEMMA EarliestAndLatest ==
  ASSUME NEW S \in SUBSET PhaseIds, S # {}
  PROVE  /\ \E k \in S : \A j \in S : k <= j
         /\ \E k \in S : \A j \in S : k >= j
<1>1. \A j \in S : j \in Int /\ 1 <= j /\ j <= 6
  BY DEF PhaseIds, Design, Validate
<1>2. 1 \in S \/ 2 \in S \/ 3 \in S \/ 4 \in S \/ 5 \in S \/ 6 \in S
  BY <1>1
<1>3. \E k \in S : \A j \in S : k <= j
  <2>1. CASE 1 \in S
    BY <1>1, <2>1
  <2>2. CASE 1 \notin S /\ 2 \in S
    BY <1>1, <2>2
  <2>3. CASE 1 \notin S /\ 2 \notin S /\ 3 \in S
    BY <1>1, <2>3
  <2>4. CASE 1 \notin S /\ 2 \notin S /\ 3 \notin S /\ 4 \in S
    BY <1>1, <2>4
  <2>5. CASE 1 \notin S /\ 2 \notin S /\ 3 \notin S /\ 4 \notin S /\ 5 \in S
    BY <1>1, <2>5
  <2>6. CASE \A k \in 1 .. 5 : k \notin S
    BY <1>1, <1>2, <2>6
  <2> QED
    BY <1>2, <2>1, <2>2, <2>3, <2>4, <2>5, <2>6
<1>4. \E k \in S : \A j \in S : k >= j
  <2>1. CASE 6 \in S
    BY <1>1, <2>1
  <2>2. CASE 6 \notin S /\ 5 \in S
    BY <1>1, <2>2
  <2>3. CASE 6 \notin S /\ 5 \notin S /\ 4 \in S
    BY <1>1, <2>3
  <2>4. CASE 6 \notin S /\ 5 \notin S /\ 4 \notin S /\ 3 \in S
    BY <1>1, <2>4
  <2>5. CASE 6 \notin S /\ 5 \notin S /\ 4 \notin S /\ 3 \notin S /\ 2 \in S
    BY <1>1, <2>5
  <2>6. CASE \A k \in 2 .. 6 : k \notin S
    BY <1>1, <1>2, <2>6
  <2> QED
    BY <1>2, <2>1, <2>2, <2>3, <2>4, <2>5, <2>6
<1> QED
  BY <1>3, <1>4

(* The stage of the final snapshot is one the adapter knows.               *)
LEMMA StageTyped ==
  CurrentStage \in {"unknown", "completed"} \cup {AdapterName[p] : p \in PhaseIds}
<1> DEFINE failing == {k \in PhaseIds : Finds(k, {"FAILED"})}
           known   == {k \in PhaseIds : Finds(k, {"SUCCESS", "FAILED"})}
           first   == CHOOSE k \in failing : \A j \in failing : k <= j
           last    == CHOOSE k \in known : \A j \in known : k >= j
<1>1. failing # {} => first \in PhaseIds
  BY EarliestAndLatest
<1>2. known # {} => last \in PhaseIds
  BY EarliestAndLatest
<1> QED
  BY <1>1, <1>2 DEF CurrentStage

LEMMA TypeStep == TypeOK /\ Progressed /\ [Next]_vars => TypeOK'
<1> SUFFICES ASSUME TypeOK, Progressed, [Next]_vars PROVE TypeOK'
  OBVIOUS
<1> USE DEF TypeOK, Pcs, Products, Verdicts, phaseVars, PhaseIds, Design, Specify, Plan,
            Build, Assemble, Validate
<1>1. \A st, h : st \in {"running", "completed", "degraded", "partial", "failed"}
                 /\ h \in {"running", "completed", "degraded", "partial", "failed"}
                 => \A p \in PhaseIds : Snapshot(st, PhaseName[p], h) \in Files
  BY DEF Snapshot, Files
<1>2. TornFile \in Files
  BY DEF Snapshot, Files, TornFile
<1>3. CASE BeginRaises
  BY <1>3, <1>2 DEF BeginRaises
<1>4. CASE Begin
  BY <1>4, <1>1 DEF Begin
<1>5. CASE CreateConversation \/ ConversationReady \/ ProvisionRaises
  BY <1>5 DEF CreateConversation, ConversationReady, ProvisionRaises
<1>6. CASE StartPhase \/ ObservePrompt
  BY <1>6, <1>1, <1>2 DEF StartPhase, ObservePrompt, ShowProgress, Write
<1>7. ASSUME NEW a \in Products, PhaseReturns(a) PROVE TypeOK'
  BY <1>7 DEF PhaseReturns
<1>8. CASE PhaseRaises
  BY <1>8 DEF PhaseRaises
<1>9. CASE EndPhase
  BY <1>9, <1>1, <1>2 DEF EndPhase, ShowProgress, Write
<1>10. CASE FlushEvents
  BY <1>10 DEF FlushEvents, Leave
<1>11. CASE StopEarly
  BY <1>11 DEF StopEarly, Condemned, GateDegraded
<1>12. CASE NextPhase
  BY <1>12 DEF NextPhase
<1>13. CASE Conclude
  BY <1>13 DEF Conclude, FinalStatuses, OverallStatus
<1>14. CASE Report
  <2>1. verdict \in {"SUCCESS", "DEGRADED", "FAILED"}
    BY <1>14 DEF Report, Progressed
  <2>2. StatusOf(verdict) \in {"completed", "degraded", "failed"}
    BY <2>1 DEF StatusOf
  <2>3. FinalSnapshot \in Files
    BY <2>2, StageTyped DEF FinalSnapshot, Snapshot, Files
  <2> QED
    BY <1>14, <1>2, <2>3 DEF Report, WriteResult, Leave
<1>15. CASE CloseConnection \/ Finish
  BY <1>15 DEF CloseConnection, Finish, DeleteConversation
<1>16. CASE UNCHANGED vars
  BY <1>16 DEF vars
<1> HIDE DEF TypeOK
<1> QED
  BY <1>3, <1>4, <1>5, <1>6, <1>7, <1>8, <1>9, <1>10, <1>11, <1>12, <1>13, <1>14, <1>15,
     <1>16 DEF Next

LEMMA ProgressStep == TypeOK /\ Progressed /\ [Next]_vars => Progressed'
<1> SUFFICES ASSUME TypeOK, Progressed, [Next]_vars PROVE Progressed'
  OBVIOUS
<1> USE DEF TypeOK, Progressed, BeforeWork, AfterWork, Pcs, Products, Verdicts,
        phaseVars, PhaseIds, Design, Specify, Plan, Build, Assemble, Validate,
        EndsRun, Returns
<1>1. CASE BeginRaises
  BY <1>1 DEF BeginRaises
<1>2. CASE Begin
  BY <1>2 DEF Begin
<1>3. CASE CreateConversation \/ ConversationReady \/ ProvisionRaises
  BY <1>3 DEF CreateConversation, ConversationReady, ProvisionRaises
<1>4. CASE StartPhase \/ ObservePrompt
  BY <1>4 DEF StartPhase, ObservePrompt
<1>5. ASSUME NEW a \in Products, PhaseReturns(a) PROVE Progressed'
  BY <1>5 DEF PhaseReturns
<1>6. CASE PhaseRaises
  BY <1>6 DEF PhaseRaises
<1>7. CASE EndPhase
  BY <1>7 DEF EndPhase
<1>8. CASE FlushEvents
  BY <1>8 DEF FlushEvents, Leave
<1>9. CASE StopEarly
  BY <1>9 DEF StopEarly, Condemned, GateDegraded
<1>10. CASE NextPhase
  BY <1>10 DEF NextPhase
<1>11. CASE Conclude
  BY <1>11 DEF Conclude, FinalStatuses, OverallStatus
<1>12. CASE Report
  BY <1>12 DEF Report, WriteResult, Leave
<1>13. CASE CloseConnection \/ Finish
  BY <1>13 DEF CloseConnection, Finish
<1>14. CASE UNCHANGED vars
  BY <1>14 DEF vars
<1> HIDE DEF Progressed
<1> QED
  BY <1>1, <1>2, <1>3, <1>4, <1>5, <1>6, <1>7, <1>8, <1>9, <1>10, <1>11,
     <1>12, <1>13, <1>14 DEF Next

LEMMA PassedStep == TypeOK /\ Progressed /\ Passed /\ [Next]_vars => Passed'
<1> SUFFICES ASSUME TypeOK, Progressed, Passed, [Next]_vars PROVE Passed'
  OBVIOUS
<1> USE DEF TypeOK, Progressed, Passed, BeforeWork, AfterWork, phaseVars,
        PhaseIds, Design, Specify, Plan, Build, Assemble, Validate, EndsRun, Returns
<1>1. CASE BeginRaises
  BY <1>1 DEF BeginRaises
<1>2. CASE Begin
  BY <1>2 DEF Begin
<1>3. CASE CreateConversation \/ ConversationReady \/ ProvisionRaises
  BY <1>3 DEF CreateConversation, ConversationReady, ProvisionRaises
<1>4. CASE StartPhase \/ ObservePrompt
  BY <1>4 DEF StartPhase, ObservePrompt
<1>5. ASSUME NEW a \in Products, PhaseReturns(a) PROVE Passed'
  BY <1>5 DEF PhaseReturns
<1>6. CASE PhaseRaises
  BY <1>6 DEF PhaseRaises
<1>7. CASE EndPhase
  BY <1>7 DEF EndPhase
<1>8. CASE FlushEvents
  BY <1>8 DEF FlushEvents, Leave
<1>9. CASE StopEarly
  BY <1>9 DEF StopEarly, Condemned, GateDegraded
<1>10. CASE NextPhase
  BY <1>10 DEF NextPhase
<1>11. CASE Conclude
  BY <1>11 DEF Conclude, FinalStatuses, OverallStatus
<1>12. CASE Report
  BY <1>12 DEF Report, WriteResult, Leave
<1>13. CASE CloseConnection \/ Finish
  BY <1>13 DEF CloseConnection, Finish
<1>14. CASE UNCHANGED vars
  BY <1>14 DEF vars
<1> HIDE DEF Passed
<1> QED
  BY <1>1, <1>2, <1>3, <1>4, <1>5, <1>6, <1>7, <1>8, <1>9, <1>10, <1>11,
     <1>12, <1>13, <1>14 DEF Next

LEMMA ListedAppend ==
  ASSUME degraded \in Seq(PhaseIds), NEW x \in PhaseIds, degraded' = Append(degraded, x),
         NEW p \in PhaseIds
  PROVE  Listed(p)' <=> Listed(p) \/ p = x
<1>1. /\ DOMAIN degraded = 1 .. Len(degraded) /\ Len(degraded) \in Nat
      /\ DOMAIN degraded' = 1 .. Len(degraded) + 1
      /\ \A i \in 1 .. Len(degraded) : degraded'[i] = degraded[i]
      /\ degraded'[Len(degraded) + 1] = x
  OBVIOUS
<1>2. ASSUME NEW i \in DOMAIN degraded', degraded'[i] = p PROVE Listed(p) \/ p = x
  <2>1. CASE i = Len(degraded) + 1
    BY <1>1, <1>2, <2>1
  <2>2. CASE i # Len(degraded) + 1
    <3>1. i \in DOMAIN degraded /\ degraded'[i] = degraded[i]
      BY <1>1, <2>2
    <3> QED
      BY <1>2, <3>1 DEF Listed
  <2> QED
    BY <2>1, <2>2
<1>3. ASSUME NEW i \in DOMAIN degraded, degraded[i] = p PROVE Listed(p)'
  <2>1. i \in DOMAIN degraded' /\ degraded'[i] = degraded[i]
    BY <1>1
  <2> QED
    BY <1>3, <2>1 DEF Listed
<1>4. p = x => Listed(p)'
  <2>1. Len(degraded) + 1 \in DOMAIN degraded'
    BY <1>1
  <2> QED
    BY <1>1, <2>1 DEF Listed
<1> QED
  BY <1>2, <1>3, <1>4 DEF Listed

LEMMA RecordedStep == TypeOK /\ Progressed /\ Recorded /\ [Next]_vars => Recorded'
<1> SUFFICES ASSUME TypeOK, Progressed, Recorded, [Next]_vars PROVE Recorded'
  OBVIOUS
<1> USE DEF TypeOK, Progressed, Recorded, BeforeWork, AfterWork, phaseVars,
        PhaseIds, Design, Specify, Plan, Build, Assemble, Validate, Listed
<1>1. CASE BeginRaises
  BY <1>1 DEF BeginRaises
<1>2. CASE Begin
  BY <1>2 DEF Begin
<1>3. CASE CreateConversation \/ ConversationReady \/ ProvisionRaises
  BY <1>3 DEF CreateConversation, ConversationReady, ProvisionRaises
<1>4. CASE StartPhase \/ ObservePrompt
  BY <1>4 DEF StartPhase, ObservePrompt
<1>5. ASSUME NEW a \in Products, PhaseReturns(a) PROVE Recorded'
  BY <1>5 DEF PhaseReturns
<1>6. CASE PhaseRaises
  <2>1. degraded' = Append(degraded, phase) /\ verdict' = verdict
        /\ statuses' = [statuses EXCEPT ![phase] = "FAILED"]
    BY <1>6 DEF PhaseRaises
  <2>2. ASSUME NEW p \in PhaseIds PROVE Listed(p)' <=> Listed(p) \/ p = phase
    <3>1. degraded \in Seq(PhaseIds) /\ phase \in PhaseIds
      OBVIOUS
    <3> HIDE DEF Listed, TypeOK, PhaseIds
    <3> QED
      BY <2>1, <3>1, ListedAppend
  <2> HIDE DEF Listed
  <2> QED
    BY <2>1, <2>2
<1>7. CASE EndPhase
  BY <1>7 DEF EndPhase
<1>8. CASE FlushEvents
  BY <1>8 DEF FlushEvents, Leave
<1>9. CASE StopEarly
  BY <1>9 DEF StopEarly, Condemned, GateDegraded
<1>10. CASE NextPhase
  BY <1>10 DEF NextPhase
<1>11. CASE Conclude
  BY <1>11 DEF Conclude, FinalStatuses, OverallStatus
<1>12. CASE Report
  BY <1>12 DEF Report, WriteResult, Leave
<1>13. CASE CloseConnection \/ Finish
  BY <1>13 DEF CloseConnection, Finish
<1>14. CASE UNCHANGED vars
  BY <1>14 DEF vars
<1> HIDE DEF Recorded
<1> QED
  BY <1>1, <1>2, <1>3, <1>4, <1>5, <1>6, <1>7, <1>8, <1>9, <1>10, <1>11,
     <1>12, <1>13, <1>14 DEF Next

LEMMA SuccessStep == TypeOK /\ Progressed /\ Passed /\ Recorded /\ SuccessIsClean /\ [Next]_vars => SuccessIsClean'
<1> SUFFICES ASSUME TypeOK, Progressed, Passed, Recorded, SuccessIsClean, [Next]_vars PROVE SuccessIsClean'
  OBVIOUS
<1> USE DEF TypeOK, Progressed, Passed, SuccessIsClean, BeforeWork, AfterWork, phaseVars,
        PhaseIds, Design, Specify, Plan, Build, Assemble, Validate, EndsRun, Returns
<1>1. CASE BeginRaises
  BY <1>1 DEF BeginRaises
<1>2. CASE Begin
  BY <1>2 DEF Begin
<1>3. CASE CreateConversation \/ ConversationReady \/ ProvisionRaises
  BY <1>3 DEF CreateConversation, ConversationReady, ProvisionRaises
<1>4. CASE StartPhase \/ ObservePrompt
  BY <1>4 DEF StartPhase, ObservePrompt
<1>5. ASSUME NEW a \in Products, PhaseReturns(a) PROVE SuccessIsClean'
  BY <1>5 DEF PhaseReturns
<1>6. CASE PhaseRaises
  BY <1>6 DEF PhaseRaises
<1>7. CASE EndPhase
  BY <1>7 DEF EndPhase
<1>8. CASE FlushEvents
  BY <1>8 DEF FlushEvents, Leave
<1>9. CASE StopEarly
  BY <1>9 DEF StopEarly, Condemned, GateDegraded
<1>10. CASE NextPhase
  BY <1>10 DEF NextPhase
<1>11. CASE Conclude
  <2> SUFFICES ASSUME verdict' = "SUCCESS" PROVE SuccessIsClean'
    OBVIOUS
  <2>1. /\ verdict = "none" /\ phase = Validate /\ product' = product /\ ao' = ao
        /\ \A p \in PhaseIds : product[p] # "none"
    BY <1>11 DEF Conclude
  <2>2. \A p \in PhaseIds : statuses'[p] = "SUCCESS"
    BY <1>11 DEF Conclude, OverallStatus
  <2>3. product[Validate] = "good" /\ statuses' = statuses /\ degraded' = degraded
    BY <1>11, <2>2 DEF Conclude, FinalStatuses
  <2>4. degraded = <<>>
    <3>1. \A p \in PhaseIds : ~Listed(p)
      BY <2>1, <2>2, <2>3 DEF Recorded
    <3>2. degraded \in Seq(PhaseIds)
      OBVIOUS
    <3>3. \A i \in 1 .. Len(degraded) : degraded[i] \in PhaseIds /\ i \in DOMAIN degraded
      BY <3>2
    <3>4. Len(degraded) = 0
      BY <3>1, <3>2, <3>3 DEF Listed
    <3> QED
      BY <3>2, <3>4
  <2>5. ao => \A p \in PhaseIds : product[p] = "good"
    <3> SUFFICES ASSUME ao, NEW p \in PhaseIds PROVE product[p] = "good"
      OBVIOUS
    <3>1. product[p] \in Returns(p)
      BY <2>1, <2>2, <2>3
    <3>2. CASE p = Validate
      BY <2>3, <3>2
    <3>3. CASE p # Validate
      <4>1. ~EndsRun(p) /\ p < Validate
        BY <2>1, <3>3
      <4> QED
        BY <3>1, <4>1
    <3> QED
      BY <3>2, <3>3
  <2> QED
    BY <2>1, <2>2, <2>3, <2>4, <2>5
<1>12. CASE Report
  BY <1>12 DEF Report, WriteResult, Leave
<1>13. CASE CloseConnection \/ Finish
  BY <1>13 DEF CloseConnection, Finish
<1>14. CASE UNCHANGED vars
  BY <1>14 DEF vars
<1> HIDE DEF SuccessIsClean
<1> QED
  BY <1>1, <1>2, <1>3, <1>4, <1>5, <1>6, <1>7, <1>8, <1>9, <1>10, <1>11,
     <1>12, <1>13, <1>14 DEF Next

LEMMA StoppedStep == TypeOK /\ Progressed /\ FailedRunStoppedAtGate /\ [Next]_vars => FailedRunStoppedAtGate'
<1> SUFFICES ASSUME TypeOK, Progressed, FailedRunStoppedAtGate, [Next]_vars PROVE FailedRunStoppedAtGate'
  OBVIOUS
<1> USE DEF TypeOK, Progressed, FailedRunStoppedAtGate, BeforeWork, AfterWork, phaseVars,
        PhaseIds, Design, Specify, Plan, Build, Assemble, Validate, EndsRun
<1>1. CASE BeginRaises
  BY <1>1 DEF BeginRaises
<1>2. CASE Begin
  BY <1>2 DEF Begin
<1>3. CASE CreateConversation \/ ConversationReady \/ ProvisionRaises
  BY <1>3 DEF CreateConversation, ConversationReady, ProvisionRaises
<1>4. CASE StartPhase \/ ObservePrompt
  BY <1>4 DEF StartPhase, ObservePrompt
<1>5. ASSUME NEW a \in Products, PhaseReturns(a) PROVE FailedRunStoppedAtGate'
  BY <1>5 DEF PhaseReturns
<1>6. CASE PhaseRaises
  BY <1>6 DEF PhaseRaises
<1>7. CASE EndPhase
  BY <1>7 DEF EndPhase
<1>8. CASE FlushEvents
  BY <1>8 DEF FlushEvents, Leave
<1>9. CASE StopEarly
  BY <1>9 DEF StopEarly, Condemned, GateDegraded
<1>10. CASE NextPhase
  BY <1>10 DEF NextPhase
<1>11. CASE Conclude
  BY <1>11 DEF Conclude, FinalStatuses, OverallStatus
<1>12. CASE Report
  BY <1>12 DEF Report, WriteResult, Leave
<1>13. CASE CloseConnection \/ Finish
  BY <1>13 DEF CloseConnection, Finish
<1>14. CASE UNCHANGED vars
  BY <1>14 DEF vars
<1> HIDE DEF FailedRunStoppedAtGate
<1> QED
  BY <1>1, <1>2, <1>3, <1>4, <1>5, <1>6, <1>7, <1>8, <1>9, <1>10, <1>11,
     <1>12, <1>13, <1>14 DEF Next

(* A step either belongs to a phase or a verdict, or it leaves the record  *)
(* of the phases alone and at most raises.                                 *)
Silent == UNCHANGED <<product, statuses, degraded>> /\ verdict' \in {verdict, "raised"}

LEMMA StepKinds ==
  [Next]_vars =>
    \/ \E a \in Products : PhaseReturns(a)
    \/ PhaseRaises \/ StopEarly \/ Conclude \/ Silent
<1> SUFFICES ASSUME [Next]_vars,
                    BeginRaises \/ Begin \/ CreateConversation \/ ConversationReady
                    \/ ProvisionRaises \/ StartPhase \/ ObservePrompt \/ EndPhase
                    \/ FlushEvents \/ NextPhase \/ Report \/ CloseConnection \/ Finish
                    \/ UNCHANGED vars
             PROVE  Silent
  BY DEF Next
<1> QED
  BY DEF Silent, BeginRaises, Begin, CreateConversation, ConversationReady, ProvisionRaises,
         StartPhase, ObservePrompt, EndPhase, FlushEvents, NextPhase, Report, WriteResult,
         CloseConnection, Finish, vars, phaseVars

LEMMA OnceAppend ==
  ASSUME degraded \in Seq(PhaseIds), NEW x \in PhaseIds, degraded' = Append(degraded, x),
         ListedOnce, ~Listed(x)
  PROVE  ListedOnce'
<1>1. /\ DOMAIN degraded = 1 .. Len(degraded) /\ Len(degraded) \in Nat
      /\ DOMAIN degraded' = 1 .. Len(degraded) + 1
      /\ \A i \in 1 .. Len(degraded) : degraded'[i] = degraded[i]
      /\ degraded'[Len(degraded) + 1] = x
  OBVIOUS
<1>2. \A i \in 1 .. Len(degraded) : degraded[i] # x
  BY <1>1 DEF Listed
<1>3. \A i \in DOMAIN degraded' : i \in 1 .. Len(degraded) \/ i = Len(degraded) + 1
  BY <1>1
<1>4. \A i, j \in 1 .. Len(degraded) : degraded'[i] = degraded'[j] => i = j
  BY <1>1 DEF ListedOnce
<1> QED
  BY <1>1, <1>2, <1>3, <1>4 DEF ListedOnce

LEMMA FailedAreEmptyStep == TypeOK /\ Progressed /\ FailedAreEmpty /\ [Next]_vars => FailedAreEmpty'
<1> SUFFICES ASSUME TypeOK, Progressed, FailedAreEmpty, [Next]_vars PROVE FailedAreEmpty'
  OBVIOUS
<1> USE DEF TypeOK, FailedAreEmpty
<1>1. ASSUME NEW a \in Products, PhaseReturns(a) PROVE FailedAreEmpty'
  BY <1>1 DEF PhaseReturns
<1>2. CASE PhaseRaises
  BY <1>2 DEF PhaseRaises
<1>3. CASE StopEarly
  BY <1>3 DEF StopEarly
<1>4. CASE Conclude
  BY <1>4 DEF Conclude, OverallStatus
<1>5. CASE Silent
  BY <1>5 DEF Silent
<1> QED
  BY <1>1, <1>2, <1>3, <1>4, <1>5, StepKinds

(* At a gate the phase is appended only if it is not listed yet.           *)
LEMMA GateAppends ==
  ASSUME TypeOK, Progressed, Recorded, FailedAreEmpty, pc = "gate"
  PROVE  \/ GateDegraded(phase) = Append(degraded, phase) /\ ~Listed(phase)
         \/ GateDegraded(phase) = degraded /\ Listed(phase)
<1>1. verdict = "none" /\ phase \in PhaseIds
  BY DEF Progressed, AfterWork, TypeOK
<1>2. product[phase] = "flawed" => ~Listed(phase)
  BY <1>1 DEF Recorded, FailedAreEmpty
<1> QED
  BY <1>2 DEF GateDegraded

LEMMA ListedOnceStep ==
  TypeOK /\ Progressed /\ Recorded /\ FailedAreEmpty /\ ListedOnce /\ [Next]_vars => ListedOnce'
<1> SUFFICES ASSUME TypeOK, Progressed, Recorded, FailedAreEmpty, ListedOnce, [Next]_vars
             PROVE  ListedOnce'
  OBVIOUS
<1>1. degraded \in Seq(PhaseIds) /\ phase \in PhaseIds
  BY DEF TypeOK
<1>2. CASE degraded' = degraded
  BY <1>2 DEF ListedOnce
<1>3. CASE degraded' = Append(degraded, phase) /\ ~Listed(phase)
  BY <1>1, <1>3, OnceAppend
<1>4. CASE PhaseRaises
  <2>1. verdict = "none" /\ product[phase] = "none"
    BY <1>4 DEF PhaseRaises, Progressed, BeforeWork
  <2>2. statuses[phase] = "none"
    BY <1>1, <2>1 DEF Progressed
  <2>3. ~Listed(phase)
    BY <1>1, <2>1, <2>2 DEF Recorded
  <2> QED
    BY <1>3, <1>4, <2>3 DEF PhaseRaises
<1>5. CASE StopEarly
  <2>1. pc = "gate" /\ degraded' = GateDegraded(phase)
    BY <1>5 DEF StopEarly
  <2> QED
    BY <1>2, <1>3, <2>1, GateAppends
<1>6. CASE Conclude
  BY <1>2, <1>3, <1>6 DEF Conclude
<1>7. ASSUME NEW a \in Products, PhaseReturns(a) PROVE ListedOnce'
  BY <1>2, <1>7 DEF PhaseReturns
<1>8. CASE Silent
  BY <1>2, <1>8 DEF Silent
<1> QED
  BY <1>4, <1>5, <1>6, <1>7, <1>8, StepKinds

LEMMA ListedFailedStep ==
  TypeOK /\ Progressed /\ Recorded /\ FailedAreEmpty /\ ListedFailed /\ [Next]_vars
    => ListedFailed'
<1> SUFFICES ASSUME TypeOK, Progressed, Recorded, FailedAreEmpty, ListedFailed, [Next]_vars,
                    verdict' \in Results, NEW p \in PhaseIds
             PROVE  Listed(p)' <=> statuses'[p] = "FAILED" /\ product'[p] # "none"
  BY DEF ListedFailed
<1>1. degraded \in Seq(PhaseIds) /\ phase \in PhaseIds /\ statuses \in [PhaseIds -> {"none", "SUCCESS", "FAILED"}]
  BY DEF TypeOK
<1>2. degraded' = degraded => (Listed(p)' <=> Listed(p))
  BY DEF Listed
<1>3. degraded' = Append(degraded, phase) => (Listed(p)' <=> Listed(p) \/ p = phase)
  BY <1>1, ListedAppend
<1>4. verdict = "none" => (Listed(p) <=> statuses[p] = "FAILED")
  BY DEF Recorded
<1>5. verdict = "none" => (statuses[p] = "none" <=> product[p] = "none")
  BY DEF Progressed
<1>6. \A q \in PhaseIds : q \in Int
  BY DEF PhaseIds, Design, Validate
<1>7. /\ p < phase => product[p] # "none"
      /\ p > phase => product[p] = "none"
      /\ pc = "gate" => product[phase] # "none" /\ verdict = "none"
  BY DEF Progressed, AfterWork
<1>8. CASE StopEarly
  <2>1. /\ pc = "gate" /\ degraded' = GateDegraded(phase) /\ product' = product
        /\ statuses'[p] = IF p >= phase THEN "FAILED" ELSE statuses[p]
    BY <1>8 DEF StopEarly, Condemned
  <2>2. \/ degraded' = Append(degraded, phase) /\ ~Listed(phase)
        \/ degraded' = degraded /\ Listed(phase)
    BY <2>1, GateAppends
  <2>3. Listed(p)' <=> Listed(p) \/ p = phase
    BY <1>2, <1>3, <2>2
  <2> QED
    BY <1>1, <1>4, <1>5, <1>6, <1>7, <2>1, <2>3
<1>9. CASE Conclude
  <2>1. /\ pc = "gate" /\ product' = product /\ phase = Validate
        /\ statuses' = FinalStatuses
        /\ degraded' = IF product[Validate] = "good" \/ Listed(Validate)
                       THEN degraded ELSE Append(degraded, phase)
    BY <1>9 DEF Conclude
  <2>2. product[p] # "none"
    BY <1>1, <1>6, <1>7, <2>1 DEF PhaseIds, Design, Validate
  <2>3. CASE product[Validate] = "good"
    BY <1>2, <1>4, <1>7, <2>1, <2>2, <2>3 DEF FinalStatuses
  <2>4. CASE product[Validate] # "good"
    <3>1. statuses' = [statuses EXCEPT ![Validate] = "FAILED"]
      BY <2>1, <2>4 DEF FinalStatuses
    <3>2. statuses'[p] = IF p = phase THEN "FAILED" ELSE statuses[p]
      BY <1>1, <2>1, <3>1
    <3>3. Listed(p)' <=> Listed(p) \/ p = phase
      BY <1>2, <1>3, <2>1, <2>4
    <3> QED
      BY <1>4, <1>7, <2>1, <2>2, <3>2, <3>3
  <2> QED
    BY <2>3, <2>4
<1>10. ASSUME NEW a \in Products, PhaseReturns(a) PROVE FALSE
  <2>1. verdict' = verdict /\ pc = "work"
    BY <1>10 DEF PhaseReturns
  <2> QED
    BY <2>1 DEF Progressed, BeforeWork, Results
<1>11. ASSUME PhaseRaises PROVE FALSE
  <2>1. verdict' = verdict /\ pc = "work"
    BY <1>11 DEF PhaseRaises
  <2> QED
    BY <2>1 DEF Progressed, BeforeWork, Results
<1>12. CASE Silent
  <2>1. verdict \in Results
    BY <1>12 DEF Silent, Results, Verdicts
  <2> QED
    BY <1>2, <1>12, <2>1 DEF Silent, ListedFailed
<1> QED
  BY <1>8, <1>9, <1>10, <1>11, <1>12, StepKinds

(* After the final write no step writes progress.json again.               *)
LEMMA FileTellsStep == TypeOK /\ Progressed /\ FileTells /\ [Next]_vars => FileTells'
<1> SUFFICES ASSUME TypeOK, Progressed, FileTells, [Next]_vars,
                    ao', verdict' \in Results, pc' \in {"close", "delete", "ended"}
             PROVE  file'.status = StatusOf(verdict') /\ file'.health = StatusOf(verdict')
  BY DEF FileTells
<1> USE DEF phaseVars, Results
<1>1. ASSUME Report PROVE file'.status = StatusOf(verdict') /\ file'.health = StatusOf(verdict')
  <2>1. file' = FinalSnapshot /\ verdict' = verdict
    BY <1>1 DEF Report, WriteResult
  <2> QED
    BY <2>1 DEF FinalSnapshot, Snapshot
<1>2. ASSUME ao' = ao, verdict' = verdict, file' = file, pc \in {"close", "delete", "ended"}
      PROVE  file'.status = StatusOf(verdict') /\ file'.health = StatusOf(verdict')
  BY <1>2 DEF FileTells
<1>3. CASE CloseConnection
  BY <1>2, <1>3 DEF CloseConnection
<1>4. CASE Finish
  BY <1>2, <1>4 DEF Finish
<1>5. CASE UNCHANGED vars
  BY <1>2, <1>5 DEF vars
<1>6. CASE BeginRaises \/ ProvisionRaises
  BY <1>6 DEF BeginRaises, ProvisionRaises
<1>7. CASE Begin \/ CreateConversation \/ ConversationReady \/ StartPhase \/ PhaseRaises
           \/ EndPhase \/ StopEarly \/ NextPhase \/ Conclude
  BY <1>7 DEF Begin, CreateConversation, ConversationReady, StartPhase, PhaseRaises, EndPhase,
              StopEarly, NextPhase, Conclude
<1>8. ASSUME ObservePrompt PROVE FALSE
  BY <1>8 DEF ObservePrompt
<1>9. ASSUME NEW a \in Products, PhaseReturns(a) PROVE FALSE
  BY <1>9 DEF PhaseReturns
<1>10. ASSUME FlushEvents PROVE FALSE
  <2>1. pc = "flush" /\ (pc' = "gate" \/ verdict' = "raised")
    BY <1>10 DEF FlushEvents
  <2> QED
    BY <2>1
<1> QED
  BY <1>1, <1>3, <1>4, <1>5, <1>6, <1>7, <1>8, <1>9, <1>10 DEF Next

LEMMA DestroyedStep == ConversationDestroyed /\ [Next]_vars => ConversationDestroyed'
<1> SUFFICES ASSUME ConversationDestroyed, [Next]_vars,
                    pc' = "ended", ao', destroy', verdict' \in Results
             PROVE  conversation' \in {"deleted", "refused"}
  BY DEF ConversationDestroyed
<1> USE DEF phaseVars, Results
<1>1. CASE Finish
  BY <1>1 DEF Finish, DeleteConversation
<1>2. CASE UNCHANGED vars
  BY <1>2 DEF vars, ConversationDestroyed
<1>3. ASSUME BeginRaises \/ ProvisionRaises \/ CloseConnection PROVE FALSE
  BY <1>3 DEF BeginRaises, ProvisionRaises, CloseConnection
<1>4. ASSUME FlushEvents \/ Report PROVE FALSE
  BY <1>4 DEF FlushEvents, Report, Leave
<1>5. ASSUME Begin \/ CreateConversation \/ ConversationReady \/ StartPhase \/ ObservePrompt
             \/ PhaseRaises \/ EndPhase \/ StopEarly \/ NextPhase \/ Conclude
      PROVE  FALSE
  BY <1>5 DEF Begin, CreateConversation, ConversationReady, StartPhase, ObservePrompt,
              PhaseRaises, EndPhase, StopEarly, NextPhase, Conclude
<1>6. ASSUME NEW a \in Products, PhaseReturns(a) PROVE FALSE
  BY <1>6 DEF PhaseReturns
<1> QED
  BY <1>1, <1>2, <1>3, <1>4, <1>5, <1>6 DEF Next

LEMMA InvInit == Init => RunInv
<1> SUFFICES ASSUME Init PROVE RunInv
  OBVIOUS
<1>1. /\ pc \in {"begin", "start"} /\ phase = 1 /\ verdict = "none" /\ degraded = <<>>
      /\ \A p \in PhaseIds : product[p] = "none" /\ statuses[p] = "none"
  BY DEF Init, Design
<1>2. TypeOK
  <2>1. file \in Files
    BY DEF Init, NoFile, Snapshot, Files
  <2>2. degraded \in Seq(PhaseIds)
    BY <1>1
  <2> QED
    BY <2>1, <2>2, <1>1
       DEF Init, TypeOK, Pcs, Products, Verdicts, PhaseIds, Design, Validate
<1>3. Progressed /\ Passed
  BY <1>1 DEF Progressed, Passed, BeforeWork, AfterWork, PhaseIds, Design, Validate
<1>4. Recorded
  BY <1>1 DEF Recorded, Listed
<1>5. SuccessIsClean /\ FailedRunStoppedAtGate
  BY <1>1 DEF SuccessIsClean, FailedRunStoppedAtGate
<1>6. FailedAreEmpty /\ ListedOnce
  BY <1>1 DEF FailedAreEmpty, ListedOnce
<1>7. ListedFailed /\ FileTells /\ ConversationDestroyed
  BY <1>1 DEF ListedFailed, FileTells, ConversationDestroyed, Results
<1> QED
  BY <1>2, <1>3, <1>4, <1>5, <1>6, <1>7 DEF RunInv

LEMMA InvStep == RunInv /\ [Next]_vars => RunInv'
  BY TypeStep, ProgressStep, PassedStep, RecordedStep, FailedAreEmptyStep, ListedOnceStep,
     ListedFailedStep, FileTellsStep, SuccessStep, StoppedStep, DestroyedStep DEF RunInv

LEMMA Invariance == Spec => []RunInv
  BY InvInit, InvStep, PTL DEF Spec

(* Every reachable state of a run is of the declared types; in particular  *)
(* progress.json never holds a status or stage its readers do not know.    *)
THEOREM TypeCorrect == Spec => []TypeOK
<1>1. RunInv => TypeOK
  BY DEF RunInv
<1> QED
  BY Invariance, <1>1, PTL

(* A SUCCESS is never reported over a phase that failed, was skipped or    *)
(* flagged its own result, whatever raised or could not be written.        *)
THEOREM SuccessMeansClean == Spec => []SuccessIsClean
<1>1. RunInv => SuccessIsClean
  BY DEF RunInv
<1> QED
  BY Invariance, <1>1, PTL

(* A FAILED run did nothing behind the gate that ended it.                 *)
THEOREM FailedMeansStopped == Spec => []FailedRunStoppedAtGate
<1>1. RunInv => FailedRunStoppedAtGate
  BY DEF RunInv
<1> QED
  BY Invariance, <1>1, PTL

(* The list from which a stop reason is made names each failed phase once  *)
(* and no other, also when a gate finds a phase that is already listed.    *)
THEOREM DegradedIsExact == Spec => []DegradedNamesFailedPhases
<1>1. RunInv => DegradedNamesFailedPhases
  BY DEF RunInv, ListedOnce, ListedFailed, DegradedNamesFailedPhases
<1> QED
  BY Invariance, <1>1, PTL

(* Once run_pipeline has returned, progress.json and the returned result   *)
(* agree, however many writes before failed or were torn.                  *)
THEOREM ReturnedResultIsOnFile == Spec => []ResultIsOnFile
<1>1. RunInv => ResultIsOnFile
  BY DEF RunInv, FileTells, ResultIsOnFile
<1> QED
  BY Invariance, <1>1, PTL

(* No run that returns a result forgets the conversation it was told to    *)
(* destroy.                                                                *)
THEOREM ReturnedRunCleansUp == Spec => []ConversationDestroyed
<1>1. RunInv => ConversationDestroyed
  BY DEF RunInv
<1> QED
  BY Invariance, <1>1, PTL

-----------------------------------------------------------------------------
(* The run keeps the contract of RunContract.                              *)

LEMMA ContractInit == Init => Contract!Init
  BY DEF Init, Contract!Init, PhaseIds, Design, Validate

LEMMA ContractStep == RunInv /\ RunInv' /\ [Next]_vars => [Contract!Next]_(Contract!vars)
<1> SUFFICES ASSUME RunInv, RunInv', [Next]_vars
             PROVE  Contract!Next \/ UNCHANGED Contract!vars
  OBVIOUS
<1> USE DEF RunInv, TypeOK, Progressed, BeforeWork, AfterWork, phaseVars, PhaseIds, Design,
            Specify, Plan, Build, Assemble, Validate, Contract!vars
<1>1. CASE BeginRaises \/ ProvisionRaises
  BY <1>1 DEF BeginRaises, ProvisionRaises, Contract!Next, Contract!Raise
<1>2. CASE Begin \/ CreateConversation \/ ConversationReady \/ StartPhase \/ ObservePrompt \/ EndPhase
           \/ Finish \/ UNCHANGED vars
  BY <1>2 DEF Begin, CreateConversation, ConversationReady, StartPhase, ObservePrompt, EndPhase, Finish, vars
<1>3. CASE FlushEvents \/ CloseConnection \/ Report
  BY <1>3 DEF FlushEvents, CloseConnection, Report, WriteResult, Contract!Next, Contract!Raise
<1>4. CASE NextPhase
  BY <1>4 DEF NextPhase
<1>5. ASSUME NEW a \in Products, PhaseReturns(a) PROVE Contract!Next
  BY <1>5 DEF PhaseReturns, Contract!Next, Contract!FinishPhase
<1>6. ASSUME PhaseRaises PROVE Contract!Next
  BY <1>6 DEF PhaseRaises, Contract!Next, Contract!FinishPhase
<1>7. ASSUME StopEarly PROVE Contract!Next
  BY <1>7 DEF StopEarly, Condemned, EndsRun, Contract!Next, Contract!StopEarly
<1>8. ASSUME Conclude PROVE Contract!Next
  BY <1>8 DEF Conclude, FinalStatuses, OverallStatus, Contract!Next, Contract!Conclude
<1> QED
  BY <1>1, <1>2, <1>3, <1>4, <1>5, <1>6, <1>7, <1>8 DEF Next

(* The detailed run implements the contract: phases finish in order, only  *)
(* a gate ends it early, and the verdict follows from what failed.         *)
THEOREM RunImplementsContract == Spec => ImplementsContract
  BY ContractInit, ContractStep, Invariance, PTL
     DEF Spec, ImplementsContract, Contract!Spec
=============================================================================
