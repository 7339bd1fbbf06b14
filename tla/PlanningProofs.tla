--------------------------- MODULE PlanningProofs ---------------------------
(***************************************************************************)
(* Proofs about Planning, for any names, designs and jobs and for any      *)
(* number of reconnects and faults.  First the prompts (WireInv): an       *)
(* answer belongs to the prompt it is handed out for, and AO gets a prompt *)
(* a bounded number of times.  Then the discussion and the plan (PlanInv): *)
(* what is on disk, who settles an issue, and what the returned plan says  *)
(* about itself; the lemmas about the layers are those of PartGraphProofs. *)
(***************************************************************************)
EXTENDS Planning, PartGraphProofs

Messages == [id : Nat, prompt : Nat]
Calls == [state : CallStates, prompt : Nat, id : Nat, attempt : 0 .. Retries,
          copies : Nat, answers : Nat]

(* No message has an id that was not given out yet, ...                    *)
Numbered(q) == \A i \in 1 .. Len(q) : q[i].id <= rpc

(* ... and the one with the id a call waits for carries its prompt.        *)
Matching(q) == \A i \in 1 .. Len(q) : q[i].id = call.id => q[i].prompt = call.prompt

(* Over HTTP there are no ids and no retries: what AO answers is compared  *)
(* with the request it came on.                                            *)
Wire ==
  /\ Numbered(working) /\ Numbered(inbox)
  /\ mode = "ws" /\ call.state = "waiting" => Matching(working) /\ Matching(inbox)

(* A prompt that is about to be sent has one copy less than attempts.      *)
Counted ==
  /\ mode = "rest" => call.attempt = 0
  /\ call.copies <= call.attempt + 1
  /\ call.state = "sending" => call.copies <= call.attempt

WireInv == AoTypeOK /\ Wire /\ Counted /\ AnswerIsOwn

-----------------------------------------------------------------------------
(* A queue keeps both when its first message is taken or one is added.     *)
LEMMA TailKeeps ==
  ASSUME NEW q \in Seq(Messages), q # <<>>
  PROVE  /\ Tail(q) \in Seq(Messages)
         /\ Head(q) \in Messages
         /\ \A i \in 1 .. Len(Tail(q)) : i + 1 \in 1 .. Len(q) /\ Tail(q)[i] = q[i + 1]
         /\ 1 \in 1 .. Len(q) /\ Head(q) = q[1]
<1>1. Len(q) \in Nat /\ Len(q) > 0
  OBVIOUS
<1>2. Tail(q) \in Seq(Messages) /\ Len(Tail(q)) = Len(q) - 1
  OBVIOUS
<1>3. \A i \in 1 .. Len(Tail(q)) : Tail(q)[i] = q[i + 1]
  OBVIOUS
<1>4. Head(q) = q[1] /\ Head(q) \in Messages
  OBVIOUS
<1>5. \A i \in 1 .. (Len(q) - 1) : i + 1 \in 1 .. Len(q)
  BY <1>1
<1> QED
  BY <1>1, <1>2, <1>3, <1>4, <1>5

LEMMA MessageIds ==
  ASSUME NEW q \in Seq(Messages)
  PROVE  \A i \in 1 .. Len(q) : q[i].id \in Nat /\ q[i].prompt \in Nat
<1>1. \A i \in 1 .. Len(q) : q[i] \in Messages
  OBVIOUS
<1> QED
  BY <1>1 DEF Messages

LEMMA AppendKeeps ==
  ASSUME NEW q \in Seq(Messages), NEW e \in Messages
  PROVE  /\ Append(q, e) \in Seq(Messages)
         /\ \A i \in 1 .. Len(Append(q, e)) :
              Append(q, e)[i] = e \/ (i \in 1 .. Len(q) /\ Append(q, e)[i] = q[i])
<1>1. Len(Append(q, e)) = Len(q) + 1 /\ Len(q) \in Nat
  OBVIOUS
<1>2. \A i \in 1 .. Len(q) : Append(q, e)[i] = q[i]
  OBVIOUS
<1>3. Append(q, e)[Len(q) + 1] = e
  OBVIOUS
<1>4. \A i \in 1 .. (Len(q) + 1) : i \in 1 .. Len(q) \/ i = Len(q) + 1
  BY <1>1
<1>5. Append(q, e) \in Seq(Messages)
  OBVIOUS
<1> QED
  BY <1>1, <1>2, <1>3, <1>4, <1>5

(* A call is its six fields.                                               *)
LEMMA CallFields ==
  ASSUME NEW c \in Calls
  PROVE  /\ c = [state |-> c.state, prompt |-> c.prompt, id |-> c.id, attempt |-> c.attempt,
                 copies |-> c.copies, answers |-> c.answers]
         /\ c.state \in CallStates /\ c.prompt \in Nat /\ c.id \in Nat
         /\ c.attempt \in 0 .. Retries /\ c.copies \in Nat /\ c.answers \in Nat
  BY DEF Calls

-----------------------------------------------------------------------------
(* What the meeting does with a call: it leaves it alone, makes the next   *)
(* one or hangs up.                                                        *)
Hands == UNCHANGED call \/ Ask \/ HangUp
LeavesWire == Hands /\ UNCHANGED <<mode, wireVars>>

LEMMA MeetingLeavesWire ==
  ASSUME MeetingNext, UNCHANGED <<mode, wireVars>>
  PROVE  LeavesWire
<1>1. CASE ProposalSpoken
  BY <1>1 DEF ProposalSpoken, Summarize, LeavesWire, Hands
<1>2. CASE ChallengeSpoken
  BY <1>2 DEF ChallengeSpoken, Summarize, LeavesWire, Hands
<1>3. CASE ResponseSpoken
  BY <1>3 DEF ResponseSpoken, Summarize, LeavesWire, Hands
<1>4. CASE ResolutionSpoken
  BY <1>4 DEF ResolutionSpoken, Summarize, LeavesWire, Hands
<1>5. CASE NextSpeaker
  BY <1>5 DEF NextSpeaker, LeavesWire, Hands
<1>6. CASE NextRound
  BY <1>6 DEF NextRound, OpenRound, LeavesWire, Hands
<1>7. CASE CloseMeeting
  BY <1>7 DEF CloseMeeting, LeavesWire, Hands
<1> QED
  BY <1>1, <1>2, <1>3, <1>4, <1>5, <1>6, <1>7 DEF MeetingNext

(* Every step of the phases but those of AoClient.                         *)
LEMMA PhasesLeaveWire ==
  ASSUME NextGroup \/ DesignReturns \/ SpecReturns \/ PlanRaises \/ PlanReturns
           \/ AskToClarify \/ Clarified \/ Ruled \/ PhaseFails
  PROVE  LeavesWire
<1>1. CASE NextGroup
  BY <1>1 DEF NextGroup, OpenRound, LeavesWire, Hands
<1>2. CASE DesignReturns
  BY <1>2 DEF DesignReturns, OpenPhase, OpenRound, LeavesWire, Hands
<1>3. CASE SpecReturns
  BY <1>3 DEF SpecReturns, OpenPhase, OpenRound, LeavesWire, Hands
<1>4. CASE PlanRaises
  BY <1>4 DEF PlanRaises, aoVars, wireVars, LeavesWire, Hands
<1>5. CASE PlanReturns
  BY <1>5 DEF PlanReturns, ReturnPlan, LeavesWire, Hands
<1>6. CASE AskToClarify
  BY <1>6 DEF AskToClarify, LeavesWire, Hands
<1>7. CASE Clarified
  BY <1>7 DEF Clarified, LeavesWire, Hands
<1>8. CASE Ruled
  BY <1>8 DEF Ruled, ReturnPlan, LeavesWire, Hands
<1>9. CASE PhaseFails
  BY <1>9 DEF PhaseFails, LeavesWire, Hands
<1> QED
  BY <1>1, <1>2, <1>3, <1>4, <1>5, <1>6, <1>7, <1>8, <1>9

(* A call that was just made or given up waits for nothing.                *)
LEMMA LeavingWireKeepsInv ==
  ASSUME WireInv, LeavesWire
  PROVE  WireInv'
<1> USE DEF WireInv, wireVars
<1>1. CASE UNCHANGED call
  <2>1. mode' = mode /\ sock' = sock /\ rpc' = rpc /\ working' = working
        /\ inbox' = inbox /\ faults' = faults /\ call' = call
    BY <1>1 DEF LeavesWire
  <2>2. AoTypeOK' /\ Counted' /\ AnswerIsOwn'
    BY <2>1 DEF AoTypeOK, Counted, AnswerIsOwn
  <2>3. Wire'
    BY <2>1 DEF Wire, Numbered, Matching
  <2> QED
    BY <2>2, <2>3
<1>2. CASE Ask \/ HangUp
  <2>1. /\ call'.state \in {"sending", "idle"} /\ call'.id = 0 /\ call'.attempt = 0
        /\ call'.copies = 0 /\ call'.answers = 0
        /\ call' \in Calls
    <3>1. call.prompt \in Nat /\ call.prompt + 1 \in Nat /\ 0 \in 0 .. Retries
      BY AoClientAssumption DEF AoTypeOK
    <3>2. \E n \in Nat, s \in {"sending", "idle"} :
            call' = [state |-> s, prompt |-> n, id |-> 0, attempt |-> 0, copies |-> 0,
                     answers |-> 0]
      <4>1. CASE Ask
        BY <3>1, <4>1 DEF Ask, NewCall, NoCall
      <4>2. CASE HangUp
        BY <3>1, <4>2 DEF HangUp, NoCall
      <4> QED
        BY <1>2, <4>1, <4>2
    <3> QED
      BY <3>1, <3>2 DEF Calls, CallStates
  <2>2. AoTypeOK'
    BY <2>1 DEF LeavesWire, AoTypeOK, Calls
  <2>3. Wire'
    BY <2>1 DEF LeavesWire, Wire, Numbered
  <2>4. Counted' /\ AnswerIsOwn'
    BY <2>1 DEF Counted, AnswerIsOwn
  <2> QED
    BY <2>2, <2>3, <2>4
<1> QED
  BY <1>1, <1>2 DEF LeavesWire, Hands

-----------------------------------------------------------------------------
(* The steps of AoClient.                                                  *)

LEMMA DeliverKeepsInv ==
  ASSUME WireInv, call.state = "sending", NEW id \in Nat, Deliver(id),
         UNCHANGED <<mode, sock, inbox, faults>>, rpc' \in Nat, rpc <= rpc', id <= rpc',
         mode = "ws" => rpc < id
  PROVE  WireInv'
<1> DEFINE e == [id |-> id, prompt |-> call.prompt]
<1> USE DEF WireInv
<1>1. /\ working \in Seq(Messages) /\ inbox \in Seq(Messages) /\ rpc \in Nat
      /\ call \in Calls
  BY DEF AoTypeOK, Messages, Calls
<1>2. e \in Messages
  BY <1>1, CallFields DEF Messages
<1>3. working' = Append(working, e) /\ inbox' = inbox /\ mode' = mode
  BY DEF Deliver
<1>4. call' = [state |-> "waiting", prompt |-> call.prompt, id |-> id,
               attempt |-> call.attempt, copies |-> call.copies + 1,
               answers |-> call.answers]
  <2>1. call' = [call EXCEPT !.state = "waiting", !.id = id, !.copies = call.copies + 1]
    BY DEF Deliver
  <2> QED
    BY <1>1, <2>1 DEF Calls
<1>5. call' \in Calls
  BY <1>1, <1>4, CallFields DEF Calls, CallStates
<1>6. AoTypeOK'
  <2>1. working' \in Seq(Messages)
    BY <1>1, <1>2, <1>3, AppendKeeps
  <2> QED
    BY <1>3, <1>5, <2>1 DEF AoTypeOK, Messages, Calls
<1>7. \A i \in 1 .. Len(working') :
        working'[i] = e \/ (i \in 1 .. Len(working) /\ working'[i] = working[i])
  BY <1>1, <1>2, <1>3, AppendKeeps
<1>8. \A i \in 1 .. Len(working) : working[i].id \in Nat /\ working[i].id <= rpc
  BY <1>1, MessageIds DEF Wire, Numbered
<1>9. \A i \in 1 .. Len(inbox) : inbox[i].id \in Nat /\ inbox[i].id <= rpc
  BY <1>1, MessageIds DEF Wire, Numbered
<1>10. e.id = id /\ e.prompt = call.prompt
  OBVIOUS
<1> HIDE DEF e
<1>11. Numbered(working)' /\ Numbered(inbox)'
  BY <1>1, <1>3, <1>7, <1>8, <1>9, <1>10 DEF Numbered
<1>12. mode = "ws" => Matching(working)' /\ Matching(inbox)'
  BY <1>1, <1>3, <1>4, <1>7, <1>8, <1>9, <1>10 DEF Matching
<1>13. Counted'
  BY <1>1, <1>3, <1>4, CallFields DEF Counted
<1>14. AnswerIsOwn'
  BY <1>4 DEF AnswerIsOwn
<1> QED
  BY <1>3, <1>6, <1>11, <1>12, <1>13, <1>14 DEF Wire

(* Messages are taken or lost and none is added.                           *)
Shrink ==
  /\ working' = working \/ (working # <<>> /\ working' = Tail(working))
  /\ inbox' = inbox \/ inbox' = <<>> \/ (inbox # <<>> /\ inbox' = Tail(inbox))
  /\ mode' = mode /\ sock' \in {"open", "dead", "none"}
  /\ rpc' \in Nat /\ rpc <= rpc' /\ faults' \in 0 .. MaxFaults

LEMMA TakenFrom ==
  ASSUME NEW q \in Seq(Messages), NEW r,
         r = q \/ r = <<>> \/ (q # <<>> /\ r = Tail(q))
  PROVE  /\ r \in Seq(Messages)
         /\ \A i \in 1 .. Len(r) : \E j \in 1 .. Len(q) : r[i] = q[j]
<1>1. CASE r = q
  BY <1>1
<1>2. CASE r = <<>>
  BY <1>2
<1>3. CASE q # <<>> /\ r = Tail(q)
  BY <1>3, TailKeeps
<1> QED
  BY <1>1, <1>2, <1>3

LEMMA ShrinkingKeepsOrder ==
  ASSUME WireInv, Shrink
  PROVE  /\ working' \in Seq(Messages) /\ inbox' \in Seq(Messages)
         /\ Numbered(working)' /\ Numbered(inbox)'
         /\ call' = call => Wire'
<1>1. working \in Seq(Messages) /\ inbox \in Seq(Messages) /\ rpc \in Nat
  BY DEF WireInv, AoTypeOK, Messages
<1>2. /\ working' \in Seq(Messages)
      /\ \A i \in 1 .. Len(working') : \E j \in 1 .. Len(working) : working'[i] = working[j]
  <2>1. \/ working' = working \/ working' = <<>>
        \/ (working # <<>> /\ working' = Tail(working))
    BY DEF Shrink
  <2> QED
    BY <1>1, <2>1, TakenFrom
<1>3. /\ inbox' \in Seq(Messages)
      /\ \A i \in 1 .. Len(inbox') : \E j \in 1 .. Len(inbox) : inbox'[i] = inbox[j]
  BY <1>1, TakenFrom DEF Shrink
<1>4. Numbered(working)' /\ Numbered(inbox)'
  <2>1. \A j \in 1 .. Len(working) : working[j].id \in Nat /\ working[j].id <= rpc
    BY <1>1, MessageIds DEF WireInv, Wire, Numbered
  <2>2. \A j \in 1 .. Len(inbox) : inbox[j].id \in Nat /\ inbox[j].id <= rpc
    BY <1>1, MessageIds DEF WireInv, Wire, Numbered
  <2>3. rpc' \in Nat /\ rpc <= rpc'
    BY DEF Shrink
  <2>4. ASSUME NEW i \in 1 .. Len(working') PROVE working'[i].id <= rpc'
    <3>1. PICK j \in 1 .. Len(working) : working'[i] = working[j]
      BY <1>2
    <3> QED
      BY <1>1, <2>1, <2>3, <3>1
  <2>5. ASSUME NEW i \in 1 .. Len(inbox') PROVE inbox'[i].id <= rpc'
    <3>1. PICK j \in 1 .. Len(inbox) : inbox'[i] = inbox[j]
      BY <1>3
    <3> QED
      BY <1>1, <2>2, <2>3, <3>1
  <2> QED
    BY <2>4, <2>5 DEF Numbered
<1>5. ASSUME call' = call PROVE Wire'
  <2>1. mode' = mode
    BY DEF Shrink
  <2>2. ASSUME mode = "ws", call.state = "waiting"
        PROVE  Matching(working)' /\ Matching(inbox)'
    BY <1>2, <1>3, <1>5, <2>2 DEF WireInv, Wire, Matching
  <2> QED
    BY <1>4, <1>5, <2>1, <2>2 DEF Wire
<1> QED
  BY <1>2, <1>3, <1>4, <1>5

LEMMA CallWaits ==
  ASSUME WireInv, Shrink, UNCHANGED call
  PROVE  WireInv'
<1>1. /\ working' \in Seq(Messages) /\ inbox' \in Seq(Messages) /\ Wire'
  BY ShrinkingKeepsOrder
<1>2. AoTypeOK'
  BY <1>1 DEF WireInv, Shrink, AoTypeOK, Messages
<1>3. Counted' /\ AnswerIsOwn'
  BY DEF WireInv, Shrink, Counted, AnswerIsOwn
<1> QED
  BY <1>1, <1>2, <1>3 DEF WireInv

(* The call goes on, fails, or gets the answer to its prompt.              *)
LEMMA CallGoesOn ==
  ASSUME WireInv, Shrink,
         NEW s \in {"sending", "broken", "failed", "answered"}, NEW n \in 0 .. Retries,
         NEW answers \in Nat,
         call' = [state |-> s, prompt |-> call.prompt, id |-> call.id, attempt |-> n,
                  copies |-> call.copies, answers |-> answers],
         call.attempt <= n, mode = "rest" => n = 0,
         s = "sending" => call.attempt < n,
         s = "answered" => answers = call.prompt
  PROVE  WireInv'
<1> USE DEF WireInv
<1>1. call \in Calls /\ mode \in {"rest", "ws"}
  BY DEF AoTypeOK, Messages, Calls
<1>2. /\ call'.state = s /\ call'.prompt = call.prompt /\ call'.id = call.id
      /\ call'.attempt = n /\ call'.copies = call.copies /\ call'.answers = answers
  OBVIOUS
<1>3. call' \in Calls
  <2>1. s \in CallStates
    BY DEF CallStates
  <2> QED
    BY <1>1, <1>2, <2>1, CallFields DEF Calls
<1>4. /\ working' \in Seq(Messages) /\ inbox' \in Seq(Messages)
      /\ Numbered(working)' /\ Numbered(inbox)'
  BY ShrinkingKeepsOrder
<1>5. AoTypeOK'
  BY <1>1, <1>3, <1>4 DEF Shrink, AoTypeOK, Messages, Calls
<1>6. Wire'
  BY <1>2, <1>4 DEF Wire
<1>7. Counted' /\ AnswerIsOwn'
  BY <1>1, <1>2, CallFields, AoClientAssumption DEF Shrink, Counted, AnswerIsOwn
<1> QED
  BY <1>5, <1>6, <1>7

-----------------------------------------------------------------------------
LEMMA FaultIsCounted ==
  ASSUME AoTypeOK, Fault \/ UNCHANGED faults
  PROVE  faults' \in 0 .. MaxFaults
  BY AoClientAssumption DEF AoTypeOK, Fault, CanFail

LEMMA CallFails ==
  ASSUME WireInv, Shrink, NEW s \in {"broken", "failed"}, call' = [call EXCEPT !.state = s]
  PROVE  WireInv'
<1>1. call \in Calls /\ (mode = "rest" => call.attempt = 0)
  BY DEF WireInv, AoTypeOK, Calls, Counted
<1>2. call.attempt \in 0 .. Retries /\ call.answers \in Nat /\ call.attempt <= call.attempt
  BY <1>1, CallFields, AoClientAssumption
<1>3. call' = [state |-> s, prompt |-> call.prompt, id |-> call.id, attempt |-> call.attempt,
               copies |-> call.copies, answers |-> call.answers]
  BY <1>1 DEF Calls
<1> QED
  BY <1>1, <1>2, <1>3, CallGoesOn

LEMMA CallAnswered ==
  ASSUME WireInv, Shrink, NEW answers, answers = call.prompt,
         call' = [call EXCEPT !.state = "answered", !.answers = answers]
  PROVE  WireInv'
<1>1. call \in Calls /\ (mode = "rest" => call.attempt = 0)
  BY DEF WireInv, AoTypeOK, Calls, Counted
<1>2. call.attempt \in 0 .. Retries /\ call.prompt \in Nat /\ call.attempt <= call.attempt
  BY <1>1, CallFields, AoClientAssumption
<1>3. call' = [state |-> "answered", prompt |-> call.prompt, id |-> call.id,
               attempt |-> call.attempt, copies |-> call.copies, answers |-> call.prompt]
  BY <1>1 DEF Calls
<1> QED
  BY <1>1, <1>2, <1>3, CallGoesOn

LEMMA CallRetried ==
  ASSUME WireInv, Shrink, mode = "ws", call.attempt < Retries,
         call' = [call EXCEPT !.state = "sending", !.attempt = @ + 1]
  PROVE  WireInv'
<1>1. call \in Calls
  BY DEF WireInv, AoTypeOK, Calls
<1>2. /\ call.attempt + 1 \in 0 .. Retries /\ call.answers \in Nat
      /\ call.attempt < call.attempt + 1 /\ call.attempt <= call.attempt + 1
  BY <1>1, CallFields, AoClientAssumption
<1>3. call' = [state |-> "sending", prompt |-> call.prompt, id |-> call.id,
               attempt |-> call.attempt + 1, copies |-> call.copies,
               answers |-> call.answers]
  BY <1>1 DEF Calls
<1> QED
  BY <1>2, <1>3, CallGoesOn

(* AO writes an answer into the open socket.                               *)
LEMMA AnswerFrameKeepsInv ==
  ASSUME WireInv, AnswerFrame
  PROVE  WireInv'
<1> DEFINE e == Head(working)
<1>1. working \in Seq(Messages) /\ inbox \in Seq(Messages) /\ rpc \in Nat
  BY DEF WireInv, AoTypeOK, Messages
<1>2. /\ mode' = mode /\ sock' = sock /\ rpc' = rpc /\ call' = call /\ faults' = faults
      /\ working # <<>> /\ working' = Tail(working)
      /\ inbox' = inbox \/ inbox' = Append(inbox, e)
  BY DEF AnswerFrame
<1>3. e \in Messages /\ e = working[1] /\ 1 \in 1 .. Len(working)
  BY <1>1, <1>2, TailKeeps
<1> HIDE DEF e
<1>4. /\ working' \in Seq(Messages)
      /\ \A i \in 1 .. Len(working') : i + 1 \in 1 .. Len(working) /\ working'[i] = working[i + 1]
  BY <1>1, <1>2, TailKeeps
<1>5. /\ inbox' \in Seq(Messages)
      /\ \A i \in 1 .. Len(inbox') :
           inbox'[i] = e \/ (i \in 1 .. Len(inbox) /\ inbox'[i] = inbox[i])
  <2>1. CASE inbox' = inbox
    BY <1>1, <2>1
  <2>2. CASE inbox' = Append(inbox, e)
    BY <1>1, <1>3, <2>2, AppendKeeps
  <2> QED
    BY <1>2, <2>1, <2>2
<1>6. AoTypeOK'
  BY <1>2, <1>4, <1>5 DEF WireInv, AoTypeOK, Messages
<1>7. Numbered(working)' /\ Numbered(inbox)'
  BY <1>2, <1>3, <1>4, <1>5 DEF WireInv, Wire, Numbered
<1>8. ASSUME mode = "ws", call.state = "waiting"
      PROVE  Matching(working)' /\ Matching(inbox)'
  BY <1>2, <1>3, <1>4, <1>5, <1>8 DEF WireInv, Wire, Matching
<1>9. Wire' /\ Counted' /\ AnswerIsOwn'
  BY <1>2, <1>7, <1>8 DEF WireInv, Wire, Counted, AnswerIsOwn
<1> QED
  BY <1>6, <1>9 DEF WireInv

LEMMA AoKeepsInv ==
  ASSUME WireInv, AoNext
  PROVE  WireInv'
<1>1. /\ AoTypeOK /\ rpc \in Nat /\ call \in Calls /\ sock \in {"open", "dead", "none"}
      /\ working \in Seq(Messages) /\ inbox \in Seq(Messages) /\ mode \in {"rest", "ws"}
      /\ mode = "rest" => call.attempt = 0
  BY DEF WireInv, AoTypeOK, Calls, Messages, Counted
<1>4. CASE PostMessage
  BY <1>1, <1>4, DeliverKeepsInv DEF PostMessage
<1>5. CASE AnswerPost
  <2>1. Shrink
    BY <1>1, <1>5, FaultIsCounted DEF AnswerPost, Shrink
  <2>2. CASE UNCHANGED call
    BY <2>1, <2>2, CallWaits
  <2>3. CASE call' = [call EXCEPT !.state = "failed"]
    BY <2>1, <2>3, CallFails
  <2>4. CASE /\ call.prompt = Head(working).prompt
             /\ call' = [call EXCEPT !.state = "answered", !.answers = Head(working).prompt]
    BY <2>1, <2>4, CallAnswered
  <2> QED
    BY <1>5, <2>2, <2>3, <2>4 DEF AnswerPost
<1>6. CASE PostFails
  <2>1. Shrink
    BY <1>1, <1>6, FaultIsCounted DEF PostFails, Shrink
  <2> QED
    BY <1>6, <2>1, CallFails DEF PostFails
<1>7. CASE SendOnce
  BY <1>1, <1>7, DeliverKeepsInv DEF SendOnce
<1>8. CASE CannotSend
  <2>1. Shrink
    BY <1>1, <1>8, FaultIsCounted DEF CannotSend, Shrink
  <2>2. \E s \in {"broken", "failed"} : call' = [call EXCEPT !.state = s]
    BY <1>8 DEF CannotSend
  <2> QED
    BY <2>1, <2>2, CallFails
<1>9. CASE AnswerFrame
  BY <1>9, AnswerFrameKeepsInv
<1>10. CASE ReadFrame
  <2>1. Shrink
    BY <1>1, <1>10, FaultIsCounted DEF ReadFrame, Shrink
  <2>2. CASE UNCHANGED call
    BY <2>1, <2>2, CallWaits
  <2>3. CASE call' = [call EXCEPT !.state = "failed"]
    BY <2>1, <2>3, CallFails
  <2>4. CASE /\ Head(inbox).id = call.id
             /\ call' = [call EXCEPT !.state = "answered", !.answers = Head(inbox).prompt]
    <3>1. Head(inbox) = inbox[1] /\ 1 \in 1 .. Len(inbox)
      BY <1>1, <1>10, TailKeeps DEF ReadFrame
    <3>2. Head(inbox).prompt = call.prompt
      BY <1>10, <2>4, <3>1 DEF ReadFrame, WireInv, Wire, Matching
    <3> QED
      BY <2>1, <2>4, <3>2, CallAnswered
  <2> QED
    BY <1>10, <2>2, <2>3, <2>4 DEF ReadFrame
<1>11. CASE PeerCloses
  <2>1. Shrink
    BY <1>1, <1>11, FaultIsCounted DEF PeerCloses, Shrink
  <2> QED
    BY <1>11, <2>1, CallWaits DEF PeerCloses
<1>12. CASE ReceiveRaises
  <2>1. Shrink
    BY <1>1, <1>12, FaultIsCounted DEF ReceiveRaises, Shrink
  <2> QED
    BY <1>12, <2>1, CallFails DEF ReceiveRaises
<1>13. CASE DeadlinePasses
  <2>1. Shrink
    BY <1>1, <1>13, FaultIsCounted DEF DeadlinePasses, Shrink
  <2> QED
    BY <1>13, <2>1, CallFails DEF DeadlinePasses
<1>14. CASE RetryOrRaise
  <2>1. Shrink
    BY <1>1, <1>14, FaultIsCounted DEF RetryOrRaise, Shrink
  <2>2. CASE call' = [call EXCEPT !.state = "failed"]
    BY <2>1, <2>2, CallFails
  <2>3. CASE /\ call.attempt < Retries /\ mode = "ws"
             /\ call' = [call EXCEPT !.state = "sending", !.attempt = @ + 1]
    BY <2>1, <2>3, CallRetried
  <2> QED
    BY <1>14, <2>2, <2>3 DEF RetryOrRaise
<1> QED
  BY <1>4, <1>5, <1>6, <1>7, <1>8, <1>9, <1>10, <1>11, <1>12, <1>13, <1>14 DEF AoNext

-----------------------------------------------------------------------------
LEMMA InitWire ==
  ASSUME Init
  PROVE  WireInv
<1>1. /\ mode \in {"rest", "ws"} /\ sock \in {"open", "dead", "none"} /\ rpc = 0
      /\ working = <<>> /\ inbox = <<>> /\ faults = 0 /\ call = NewCall(1)
  BY DEF Init, AoInit
<1>2. call = [state |-> "sending", prompt |-> 1, id |-> 0, attempt |-> 0, copies |-> 0,
              answers |-> 0]
  BY <1>1 DEF NewCall, NoCall
<1>3. AoTypeOK
  BY <1>1, <1>2, AoClientAssumption DEF AoTypeOK, CallStates
<1>4. Wire
  BY <1>1, <1>2 DEF Wire, Numbered
<1>5. Counted /\ AnswerIsOwn
  BY <1>2 DEF Counted, AnswerIsOwn
<1> QED
  BY <1>3, <1>4, <1>5 DEF WireInv

LEMMA NextKeepsWire ==
  ASSUME WireInv, [Next]_vars
  PROVE  WireInv'
<1>1. CASE UNCHANGED vars
  <2>1. LeavesWire
    BY <1>1 DEF vars, aoVars, wireVars, LeavesWire, Hands
  <2> QED
    BY <2>1, LeavingWireKeepsInv
<1>2. CASE MeetingNext /\ UNCHANGED <<planningVars, mode, wireVars>>
  <2>1. UNCHANGED <<mode, wireVars>>
    BY <1>2
  <2>2. LeavesWire
    BY <1>2, <2>1, MeetingLeavesWire
  <2> QED
    BY <2>2, LeavingWireKeepsInv
<1>3. CASE NextGroup \/ DesignReturns \/ SpecReturns \/ PlanRaises \/ PlanReturns
             \/ AskToClarify \/ Clarified \/ Ruled \/ PhaseFails
  BY <1>3, PhasesLeaveWire, LeavingWireKeepsInv
<1>4. CASE AoNext
  BY <1>4, AoKeepsInv
<1> QED
  BY <1>1, <1>2, <1>3, <1>4 DEF Next

LEMMA WireInvariant == Spec => []WireInv
<1>1. Init => WireInv
  BY InitWire
<1>2. WireInv /\ [Next]_vars => WireInv'
  BY NextKeepsWire
<1> QED
  BY <1>1, <1>2, PTL DEF Spec

(* An answer the client hands out answers the prompt of this very call,    *)
(* whatever late answers, reconnects and HTTP errors came before it (call  *)
(* and request in services/agent_orchestrator.py).                         *)
THEOREM AnswersAreOwn == Spec => []AnswerIsOwn
<1>1. WireInv => AnswerIsOwn
  BY DEF WireInv
<1> QED
  BY <1>1, WireInvariant, PTL

(* AO gets a prompt once over HTTP and at most once for each attempt over  *)
(* a WebSocket (_send_message_rest, _send_message_with_retry).             *)
THEOREM CopiesAreBounded == Spec => []CopiesBounded
<1>1. WireInv => CopiesBounded
  <2> SUFFICES ASSUME WireInv PROVE CopiesBounded
    OBVIOUS
  <2>1. call \in Calls /\ mode \in {"rest", "ws"}
    BY DEF WireInv, AoTypeOK, Calls
  <2>2. call.attempt \in 0 .. Retries /\ call.copies \in Nat
    BY <2>1, CallFields
  <2>3. /\ call.copies <= call.attempt + 1
        /\ mode = "rest" => call.attempt = 0
    BY DEF WireInv, Counted
  <2> QED
    BY <2>2, <2>3, AoClientAssumption DEF CopiesBounded
<1> QED
  BY <1>1, WireInvariant, PTL

-----------------------------------------------------------------------------
(* The meeting state and what is written of it.                            *)

Statuses == {"absent", "in_progress", "resolved", "needs_followup", "needs_revision",
             "completed", "completed_with_open_issues"}

Flags == {"needs_review", "resolved", "needs_followup", "coverage_gap",
          "unresolved_planning_gap", "invalid_planning_structure"}

Issues ==
  ({"challenge"} \X Nat) \cup ({"open"} \X Nat \X Nat) \cup ({"coverage"} \X Names)

States == [round : Nat, open : SUBSET Issues, challenge : Nat, flags : SUBSET Flags,
           status : Statuses]

IsState(s) == s \in States /\ s.challenge \in 0 .. s.round

Typed ==
  /\ turn \in TurnKinds /\ stage \in {"speak", "summary", "between"} /\ rounds \in Nat
  /\ IsState(m) /\ IsState(file)
  /\ phase \in {"design", "spec", "plan", "finished", "failed"}

Grouped ==
  /\ job.families \subseteq Names /\ DOMAIN groups = job.families
  /\ \A f \in DOMAIN groups : groups[f] \in {"pending", "accepted", "needs_revision"}
  /\ DOMAIN index = {"design", "spec", "plan"}
  /\ target \in Names \cup {NoFamily} /\ queue \in Seq(Names)
  /\ plan \in [steps : SUBSET Names, build : SUBSET Names, assembly : SUBSET Names]

(* Nothing goes on after the end, and only a plan whose graph has layers   *)
(* is put to the clarification.                                            *)
Stopped ==
  /\ Over => stage = "between"
  /\ turn \in {"clarify", "ruling"} /\ ~Over => phase = "plan" /\ stage = "speak" /\ ~Cyclic(job)

(* A closed meeting is on disk, with the status that goes with its issues. *)
Closing ==
  stage = "between" /\ ~Over =>
    /\ file = m
    /\ m.status \in {"completed", "completed_with_open_issues"}
    /\ m.status = "completed" => m.open = {}

Unjudged == ~Over => "unresolved_planning_gap" \notin m.flags

(* A challenge is on the list from the reviewer's turn to the moderator's. *)
RaisedTurn ==
  \/ turn = "challenge" /\ stage = "summary"
  \/ turn = "response"
  \/ turn = "resolution" /\ stage = "speak"
  \/ turn \in {"clarify", "ruling"}

RaisedNow ==
  ~Over => \A r \in Nat : Raised(r) \in m.open => r = m.round /\ RaisedTurn /\ stage # "between"

(* How PlanPhase.run returned.                                             *)
Concluded ==
  phase = "finished" =>
    /\ ~Cyclic(job) /\ plan = ComputedPlan(job)
    /\ notes = Coverage(PlanGaps(job, plan)) \cup PlanIssues(job, plan)
    /\ (file.status = "needs_revision") <=> PlanGaps(job, plan) # {}
    /\ ("unresolved_planning_gap" \in file.flags) <=> PlanIssues(job, plan) # {}
    /\ file.status = "completed" => file.open = {}
    /\ (index["plan"] = "needs_revision") <=> PlanGaps(job, plan) # {}
    /\ \A f \in job.families : (groups[f] = "needs_revision") <=> f \in PlanGaps(job, plan)

(* On disk is everything but the number of the round just opened.          *)
Saved == file.open = m.open /\ file.flags = m.flags /\ file.status = m.status

SavedState == ~Over /\ stage = "speak" /\ ~(m.round = 1 /\ turn = "proposal") => Saved

TalkInv == Typed /\ Stopped /\ Closing /\ Unjudged /\ RaisedNow /\ SavedState

(* Two states are the same when their fields are.                          *)
LEMMA SameState ==
  ASSUME NEW s \in States, NEW t \in States, s.round = t.round, s.open = t.open,
         s.challenge = t.challenge, s.flags = t.flags, s.status = t.status
  PROVE  s = t
  BY DEF States

(* What the turns and the coverage do to the state.                        *)
LEMMA ChallengedState ==
  ASSUME NEW s, IsState(s), NEW blocking \in BOOLEAN
  PROVE  LET t == Challenged(s, blocking)
         IN  /\ IsState(t) /\ t.round = s.round /\ t.status = s.status
             /\ t.open \subseteq s.open \cup {Raised(s.round)}
             /\ s.open \subseteq t.open \cup {Raised(s.round)}
             /\ t.flags \subseteq s.flags \cup {"needs_review"}
             /\ blocking => s.open \subseteq t.open
<1>1. Raised(s.round) \in Issues /\ s.round \in Nat /\ s.round \in 0 .. s.round /\ 0 \in 0 .. s.round
  BY DEF IsState, States, Issues, Raised
<1> HIDE DEF Issues
<1>2. CASE blocking
  <2>1. Challenged(s, blocking) \in States
    BY <1>1, <1>2 DEF Challenged, IsState, States, Flags
  <2> QED
    BY <1>1, <1>2, <2>1 DEF Challenged, IsState, States
<1>3. CASE ~blocking
  <2>1. Challenged(s, blocking) \in States
    BY <1>1, <1>3 DEF Challenged, IsState, States
  <2> QED
    BY <1>1, <1>3, <2>1 DEF Challenged, IsState, States
<1> QED
  BY <1>2, <1>3

LEMMA ResolvedState ==
  ASSUME NEW s, IsState(s), NEW n \in Nat
  PROVE  LET t == Resolved(s, n)
         IN  /\ IsState(t) /\ t.round = s.round /\ t.open = Left(s.round, n)
             /\ t.flags \subseteq s.flags \cup {"resolved", "needs_followup"}
             /\ t.status \in {"resolved", "needs_followup"}
             /\ (t.status = "resolved") <=> n = 0
<1>1. Left(s.round, n) \subseteq Issues /\ s.round \in Nat
  BY DEF IsState, States, Issues, Left
<1> HIDE DEF Issues
<1>2. CASE n = 0
  <2>1. Resolved(s, n) \in States
    BY <1>1, <1>2 DEF Resolved, IsState, States, Flags, Statuses
  <2> QED
    BY <1>1, <1>2, <2>1 DEF Resolved, IsState, States
<1>3. CASE n # 0
  <2>1. Resolved(s, n) \in States
    BY <1>1, <1>3 DEF Resolved, IsState, States, Flags, Statuses
  <2> QED
    BY <1>1, <1>3, <2>1 DEF Resolved, IsState, States
<1> QED
  BY <1>2, <1>3

LEMMA ClosedState ==
  ASSUME NEW s, IsState(s)
  PROVE  LET t == Closed(s)
         IN  /\ IsState(t) /\ t.round = s.round /\ t.open = s.open /\ t.flags = s.flags
             /\ t.status = IF s.open = {} THEN "completed" ELSE "completed_with_open_issues"
<1>1. Closed(s) \in States
  BY DEF Closed, IsState, States, Statuses
<1> QED
  BY <1>1 DEF Closed, IsState, States

LEMMA OpenedState ==
  ASSUME NEW s, IsState(s)
  PROVE  LET t == [s EXCEPT !.round = @ + 1, !.challenge = 0]
         IN  /\ IsState(t) /\ t.round = s.round + 1 /\ t.challenge = 0 /\ t.open = s.open
             /\ t.flags = s.flags /\ t.status = s.status
<1>1. s.round + 1 \in Nat /\ 0 \in 0 .. (s.round + 1)
  BY DEF IsState, States
<1>2. [s EXCEPT !.round = @ + 1, !.challenge = 0] \in States
  BY <1>1 DEF IsState, States
<1> QED
  BY <1>1, <1>2 DEF IsState, States

LEMMA CoveredState ==
  ASSUME NEW s, IsState(s), NEW gaps \in SUBSET Names
  PROVE  LET t == WithCoverage(s, gaps)
         IN  /\ IsState(t) /\ t.round = s.round /\ t.open = s.open \cup Coverage(gaps)
             /\ t.flags \subseteq s.flags \cup {"coverage_gap"} /\ s.flags \subseteq t.flags
             /\ t.status = IF gaps = {} THEN s.status ELSE "needs_revision"
<1>1. Coverage(gaps) \subseteq Issues
  BY DEF Coverage, Issues
<1>2. gaps = {} => Coverage(gaps) = {}
  BY DEF Coverage
<1> HIDE DEF Issues
<1>3. CASE gaps = {}
  BY <1>2, <1>3 DEF WithCoverage
<1>4. CASE gaps # {}
  <2>1. WithCoverage(s, gaps) \in States
    BY <1>1, <1>4 DEF WithCoverage, IsState, States, Flags, Statuses
  <2> QED
    BY <1>1, <1>4, <2>1 DEF WithCoverage, IsState, States
<1> QED
  BY <1>3, <1>4

LEMMA IssuesDiffer ==
  /\ \A r, k, n : Raised(r) \notin Left(k, n)
  /\ \A r, gaps : Raised(r) \notin Coverage(gaps)
  /\ \A r, k : Raised(r) = Raised(k) => r = k
<1>1. ASSUME NEW r, NEW k, NEW i PROVE <<"challenge", r>> # <<"open", k, i>>
  <2>1. <<"challenge", r>>[1] = "challenge" /\ <<"open", k, i>>[1] = "open"
    OBVIOUS
  <2> QED
    BY <2>1
<1>2. ASSUME NEW r, NEW f PROVE <<"challenge", r>> # <<"coverage", f>>
  OBVIOUS
<1>3. ASSUME NEW r, NEW k, <<"challenge", r>> = <<"challenge", k>> PROVE r = k
  BY <1>3
<1> QED
  BY <1>1, <1>2, <1>3 DEF Raised, Left, Coverage

(* What is saved is what CrashLosesOneTurn asks for.                       *)
LEMMA SavedIsSame ==
  ASSUME NEW s, IsState(s), NEW t, IsState(t)
  PROVE  [t EXCEPT !.round = s.round, !.challenge = s.challenge] = s <=>
           t.open = s.open /\ t.flags = s.flags /\ t.status = s.status
<1> DEFINE u == [t EXCEPT !.round = s.round, !.challenge = s.challenge]
<1>1. /\ u \in States /\ u.open = t.open /\ u.flags = t.flags /\ u.status = t.status
      /\ u.round = s.round /\ u.challenge = s.challenge
  BY DEF IsState, States
<1> HIDE DEF u
<1>2. t.open = s.open /\ t.flags = s.flags /\ t.status = s.status => u = s
  BY <1>1, SameState DEF IsState
<1>3. u = s => t.open = s.open /\ t.flags = s.flags /\ t.status = s.status
  BY <1>1
<1> QED
  BY <1>2, <1>3 DEF u

(* All of the meeting's turns: every one happens before the end and leaves *)
(* the artifacts and the queue alone.                                      *)
LEMMA MeetingKeepsTalk ==
  ASSUME TalkInv, MeetingNext, UNCHANGED planningVars
  PROVE  TalkInv'
<1>1. /\ stage # "between" /\ ~Over /\ phase' = phase /\ job' = job /\ ~Over'
  BY DEF TalkInv, Stopped, MeetingNext, ProposalSpoken, ChallengeSpoken, ResponseSpoken,
         ResolutionSpoken, NextSpeaker, NextRound, CloseMeeting, Speaks, Summarized,
         planningVars, Over
<1> USE DEF TalkInv, TurnKinds, RoundTurns
<1>2. IsState(m) /\ IsState(file) /\ "unresolved_planning_gap" \notin m.flags
  BY <1>1 DEF Typed, Unjudged
<1>3. \A r \in Nat : Raised(r) \in m.open => r = m.round /\ RaisedTurn
  BY <1>1 DEF RaisedNow
<1>4. CASE (ProposalSpoken \/ ResponseSpoken)
  <2>1. /\ stage' = "summary" /\ turn' = turn /\ turn \in {"proposal", "response"}
        /\ m' = m /\ file' = file /\ rounds' = rounds
    BY <1>4 DEF ProposalSpoken, ResponseSpoken, Summarize, Speaks
  <2>2. Typed' /\ Stopped' /\ Closing' /\ Unjudged' /\ SavedState'
    BY <1>1, <1>2, <2>1 DEF Typed, Stopped, Closing, Unjudged, SavedState
  <2>3. RaisedNow'
    BY <1>1, <1>3, <2>1 DEF RaisedNow, RaisedTurn
  <2> QED
    BY <2>2, <2>3
<1>5. CASE ChallengeSpoken
  <2>1. /\ stage' = "summary" /\ turn' = turn /\ turn = "challenge" /\ stage = "speak"
        /\ file' = file /\ rounds' = rounds
    BY <1>5 DEF ChallengeSpoken, Summarize, Speaks
  <2>2. PICK blocking \in BOOLEAN : m' = Challenged(m, blocking)
    BY <1>5 DEF ChallengeSpoken
  <2>3. /\ IsState(m') /\ m'.round = m.round
        /\ m'.open \subseteq m.open \cup {Raised(m.round)}
        /\ "unresolved_planning_gap" \notin m'.flags
    BY <1>2, <2>2, ChallengedState
  <2>4. Typed' /\ Stopped' /\ Closing' /\ Unjudged' /\ SavedState'
    BY <1>1, <1>2, <2>1, <2>3 DEF Typed, Stopped, Closing, Unjudged, SavedState
  <2>5. RaisedNow'
    BY <1>1, <1>3, <2>1, <2>3, IssuesDiffer DEF RaisedNow, RaisedTurn
  <2> QED
    BY <2>4, <2>5
<1>6. CASE ResolutionSpoken
  <2>1. /\ stage' = "summary" /\ turn' = turn /\ turn = "resolution"
        /\ file' = file /\ rounds' = rounds
    BY <1>6 DEF ResolutionSpoken, Summarize, Speaks
  <2>2. PICK n \in Nat : m' = Resolved(m, n)
    BY <1>6, MeetingAssumption DEF ResolutionSpoken
  <2>3. /\ IsState(m') /\ m'.open = Left(m.round, n)
        /\ "unresolved_planning_gap" \notin m'.flags
    BY <1>2, <2>2, ResolvedState
  <2>4. Typed' /\ Stopped' /\ Closing' /\ Unjudged' /\ SavedState'
    BY <1>1, <1>2, <2>1, <2>3 DEF Typed, Stopped, Closing, Unjudged, SavedState
  <2>5. RaisedNow'
    BY <1>1, <2>3, IssuesDiffer DEF RaisedNow
  <2> QED
    BY <2>4, <2>5
<1>7. CASE NextSpeaker
  <2>1. /\ stage' = "speak" /\ m' = m /\ file' = m /\ rounds' = rounds
        /\ turn # "resolution" /\ stage = "summary"
        /\ turn' \in {"challenge", "response", "resolution"}
        /\ turn' = "challenge" => turn = "proposal"
    BY <1>7 DEF NextSpeaker, Summarized
  <2>2. Typed' /\ Stopped' /\ Closing' /\ Unjudged' /\ SavedState'
    BY <1>1, <1>2, <2>1 DEF Typed, Stopped, Closing, Unjudged, SavedState, Saved
  <2>3. RaisedNow'
    BY <1>1, <1>3, <2>1 DEF RaisedNow, RaisedTurn
  <2> QED
    BY <2>2, <2>3
<1>8. CASE NextRound
  <2>1. /\ stage' = "speak" /\ turn' = "proposal" /\ file' = m /\ rounds' = rounds
        /\ m' = [m EXCEPT !.round = @ + 1, !.challenge = 0]
        /\ turn = "resolution" /\ stage = "summary"
    BY <1>8 DEF NextRound, OpenRound, Summarized
  <2>2. /\ IsState(m') /\ m'.open = m.open /\ m'.flags = m.flags /\ m'.status = m.status
    BY <1>2, <2>1, OpenedState
  <2>3. Typed' /\ Stopped' /\ Closing' /\ Unjudged' /\ SavedState'
    BY <1>1, <1>2, <2>1, <2>2 DEF Typed, Stopped, Closing, Unjudged, SavedState, Saved
  <2>4. RaisedNow'
    BY <1>1, <1>3, <2>1, <2>2 DEF RaisedNow, RaisedTurn
  <2> QED
    BY <2>3, <2>4
<1>9. CASE CloseMeeting
  <2>1. /\ stage' = "between" /\ turn' = turn /\ turn = "resolution" /\ stage = "summary"
        /\ m' = Closed(m) /\ file' = Closed(m) /\ rounds' = rounds
    BY <1>9 DEF CloseMeeting, Summarized
  <2>2. /\ IsState(m') /\ m'.open = m.open /\ m'.flags = m.flags
        /\ m'.status = IF m.open = {} THEN "completed" ELSE "completed_with_open_issues"
    BY <1>2, <2>1, ClosedState
  <2>3. Typed' /\ Stopped' /\ Closing' /\ Unjudged' /\ SavedState'
    BY <1>1, <1>2, <2>1, <2>2 DEF Typed, Stopped, Closing, Unjudged, SavedState
  <2>4. RaisedNow'
    BY <1>1, <1>3, <2>1, <2>2 DEF RaisedNow, RaisedTurn
  <2> QED
    BY <2>3, <2>4
<1> QED
  BY <1>4, <1>5, <1>6, <1>7, <1>8, <1>9 DEF MeetingNext

-----------------------------------------------------------------------------
(* The names in their order.                                               *)
LEMMA InOrderListed ==
  ASSUME NEW names \in SUBSET Names
  PROVE  /\ InOrder(names) \in Seq(Names)
         /\ names # {} => InOrder(names) # <<>>
<1> DEFINE s == Among(Order, names)
<1>1. Order \in Seq(Names) /\ Len(Order) \in Nat /\ DOMAIN Order = 1 .. Len(Order)
  BY PlanningAssumption
<1>2. s \in Seq(Names) /\ \E h : Picks(h, s, Order, Len(Order), names)
  BY <1>1, AmongPicks
<1> HIDE DEF s
<1>3. ASSUME names # {} PROVE s # <<>>
  <2>1. PICK i \in 1 .. Len(Order) : Order[i] \in names
    BY <1>1, <1>3 DEF Names
  <2>2. 1 .. Len(s) # {}
    BY <1>2, <2>1 DEF Picks
  <2> QED
    BY <2>2
<1> QED
  BY <1>2, <1>3 DEF s, InOrder

LEMMA FirstAndRest ==
  ASSUME NEW names \in SUBSET Names
  PROVE  FirstTarget(names) \in Names \cup {NoFamily} /\ Rest(names) \in Seq(Names)
<1>1. InOrder(names) \in Seq(Names) /\ (names # {} => InOrder(names) # <<>>)
  BY InOrderListed
<1>2. CASE names = {}
  BY <1>2 DEF FirstTarget, Rest
<1>3. CASE names # {}
  <2>1. Head(InOrder(names)) \in Names /\ Tail(InOrder(names)) \in Seq(Names)
    BY <1>1, <1>3
  <2> QED
    BY <1>3, <2>1 DEF FirstTarget, Rest
<1> QED
  BY <1>2, <1>3

-----------------------------------------------------------------------------
(* The phases around the meetings.                                         *)

LEMMA NewMeetingState ==
  /\ IsState(NewMeeting) /\ NewMeeting.round = 0 /\ NewMeeting.open = {}
  /\ NewMeeting.flags = {} /\ NewMeeting.status = "in_progress"
  /\ IsState(NoFile)
<1>1. NewMeeting \in States
  BY DEF NewMeeting, States, Statuses
<1>2. NoFile \in States /\ NoFile.challenge = 0 /\ NoFile.round = 0
  BY <1>1 DEF NoFile, States, Statuses, NewMeeting
<1> QED
  BY <1>1, <1>2 DEF IsState, NewMeeting

(* The plan of a job is about its families.                                *)
LEMMA NamesAreFinite == IsFiniteSet(Names)
<1>1. Len(Order) \in Nat /\ DOMAIN Order = 1 .. Len(Order)
  BY PlanningAssumption
<1>2. IsFiniteSet(1 .. Len(Order))
  BY <1>1, FS_Interval
<1> DEFINE at == [i \in 1 .. Len(Order) |-> Order[i]]
<1>3. at \in Surjection(1 .. Len(Order), Names)
  BY <1>1 DEF Names, Surjection
<1> QED
  BY <1>2, <1>3, FS_Surjection

LEMMA JobIsSane ==
  ASSUME Grouped
  PROVE  /\ Sane(job) /\ Planned(job) \subseteq job.families
         /\ ComputedPlan(job) \in [steps : SUBSET Names, build : SUBSET Names,
                                   assembly : SUBSET Names]
         /\ PlanGaps(job, ComputedPlan(job)) = job.families \ Planned(job)
<1>1. Sane(job)
  BY NamesAreFinite, FS_Subset, PlanningAssumption DEF Grouped, Sane
<1>2. Planned(job) \subseteq job.families
  BY <1>1, PlannedMembers
<1>3. ComputedPlan(job) \in [steps : SUBSET Names, build : SUBSET Names,
                             assembly : SUBSET Names]
  BY <1>2 DEF ComputedPlan, Grouped
<1>4. PlanGaps(job, ComputedPlan(job)) = job.families \ Planned(job)
  BY DEF PlanGaps, ComputedPlan
<1> QED
  BY <1>1, <1>2, <1>3, <1>4

LEMMA NotesDiffer ==
  /\ \A f, j, p : <<"coverage", f>> \notin PlanIssues(j, p)
  /\ \A f, gaps : <<"coverage", f>> \in Coverage(gaps) <=> f \in gaps
<1>1. ASSUME NEW f, NEW j, NEW p PROVE <<"coverage", f>> \notin PlanIssues(j, p)
  BY DEF PlanIssues, StructureIssues, ContractIssues
<1>2. ASSUME NEW f, NEW gaps PROVE <<"coverage", f>> \in Coverage(gaps) <=> f \in gaps
  BY DEF Coverage
<1> QED
  BY <1>1, <1>2

(* A phase opens.                                                          *)
LEMMA PhaseOpens ==
  ASSUME TalkInv, NEW names \in SUBSET Names, NEW p \in {"spec", "plan"}, OpenPhase(p, names),
         job'.families = names
  PROVE  /\ TalkInv' /\ phase' = p /\ ~Over'
         /\ DOMAIN groups' = names /\ target' \in Names \cup {NoFamily} /\ queue' \in Seq(Names)
         /\ \A f \in DOMAIN groups' : groups'[f] \in {"pending", "accepted", "needs_revision"}
<1>1. /\ phase' = p /\ groups' = [f \in names |-> "pending"]
      /\ target' = FirstTarget(names) /\ queue' = Rest(names)
      /\ m' = [NewMeeting EXCEPT !.round = @ + 1, !.challenge = 0] /\ file' = NoFile
      /\ turn' = "proposal" /\ stage' = "speak" /\ rounds' = 1
  BY DEF OpenPhase, OpenRound, Pending
<1>2. /\ IsState(m') /\ IsState(file') /\ m'.round = 1 /\ m'.open = {} /\ m'.flags = {}
  <2> DEFINE t == [NewMeeting EXCEPT !.round = @ + 1, !.challenge = 0]
  <2>1. /\ IsState(t) /\ t.round = NewMeeting.round + 1 /\ t.open = NewMeeting.open
        /\ t.flags = NewMeeting.flags
    BY NewMeetingState, OpenedState
  <2>2. m' = t
    BY <1>1
  <2> HIDE DEF t
  <2> QED
    BY <1>1, <2>1, <2>2, NewMeetingState
<1>3. target' \in Names \cup {NoFamily} /\ queue' \in Seq(Names)
  BY <1>1, FirstAndRest
<1>4. ~Over'
  BY <1>1 DEF Over
<1>5. Typed' /\ Stopped' /\ Closing' /\ Unjudged' /\ RaisedNow' /\ SavedState'
  BY <1>1, <1>2, <1>4 DEF TalkInv, Typed, Stopped, Closing, Unjudged, RaisedNow, SavedState,
                          TurnKinds, RoundTurns
<1> QED
  BY <1>1, <1>3, <1>4, <1>5 DEF TalkInv

(* A phase is over.                                                        *)
LEMMA EndKeepsTalk ==
  ASSUME Over', stage' = "between", turn' \in TurnKinds, rounds' \in Nat,
         IsState(m'), IsState(file'),
         phase' \in {"design", "spec", "plan", "finished", "failed"}
  PROVE  TalkInv'
  BY DEF TalkInv, Typed, Stopped, Closing, Unjudged, RaisedNow, SavedState

(* PlanPhase.run returns the plan computed from its job.                   *)
LEMMA PlanReturned ==
  ASSUME TalkInv, Grouped, ~Cyclic(job),
         NEW base, IsState(base), base.status # "needs_revision",
         "unresolved_planning_gap" \notin base.flags,
         ReturnPlan(WithCoverage(base, PlanGaps(job, ComputedPlan(job))), ComputedPlan(job)),
         plan' = ComputedPlan(job), groups' = Synced(PlanGaps(job, ComputedPlan(job))),
         stage' = "between", UNCHANGED <<job, target, queue, turn, rounds>>
  PROVE  /\ TalkInv' /\ Grouped' /\ Concluded' /\ phase' = "finished"
         /\ base.open \subseteq m'.open
<1> DEFINE p == ComputedPlan(job)
           gaps == PlanGaps(job, p)
           issues == PlanIssues(job, p)
           s == WithCoverage(base, gaps)
           flagged == IF issues = {} THEN s
                      ELSE [s EXCEPT !.flags = @ \cup {"unresolved_planning_gap",
                                                       "invalid_planning_structure"}]
           final == IF s.status = "needs_revision" THEN flagged ELSE Closed(flagged)
<1>1. /\ notes' = Coverage(gaps) \cup issues
      /\ index' = [index EXCEPT !["plan"] = s.status]
      /\ m' = final /\ file' = final /\ phase' = "finished"
  BY DEF ReturnPlan, Filed
<1>2. gaps \subseteq job.families /\ gaps \in SUBSET Names
  BY JobIsSane DEF Grouped
<1>3. p \in [steps : SUBSET Names, build : SUBSET Names, assembly : SUBSET Names]
  BY JobIsSane
<1>4. plan' = p /\ groups' = [f \in DOMAIN groups |-> IF f \in gaps THEN "needs_revision"
                                                    ELSE "accepted"]
  BY DEF Synced
<1> HIDE DEF p, gaps, issues, s
<1>5. /\ IsState(s) /\ s.status = IF gaps = {} THEN base.status ELSE "needs_revision"
      /\ base.open \subseteq s.open
      /\ "unresolved_planning_gap" \notin s.flags
  BY <1>2, CoveredState DEF s
<1>6. /\ IsState(flagged) /\ flagged.open = s.open /\ flagged.status = s.status
      /\ ("unresolved_planning_gap" \in flagged.flags) <=> issues # {}
  <2>1. CASE issues = {}
    BY <1>5, <2>1
  <2>2. CASE issues # {}
    <3>1. flagged \in States
      BY <1>5, <2>2 DEF IsState, States, Flags
    <3> QED
      BY <1>5, <2>2, <3>1 DEF IsState, States
  <2> QED
    BY <2>1, <2>2
<1> HIDE DEF flagged
<1>7. /\ IsState(final) /\ base.open \subseteq final.open
      /\ ("unresolved_planning_gap" \in final.flags) <=> issues # {}
      /\ (final.status = "needs_revision") <=> gaps # {}
      /\ final.status = "completed" => final.open = {}
  <2>1. CASE s.status = "needs_revision"
    <3>1. gaps # {}
      BY <1>5, <2>1
    <3> QED
      BY <1>5, <1>6, <2>1, <3>1
  <2>2. CASE s.status # "needs_revision"
    <3>1. gaps = {} /\ final = Closed(flagged)
      BY <1>5, <2>2
    <3>2. /\ IsState(Closed(flagged)) /\ Closed(flagged).open = flagged.open
          /\ Closed(flagged).flags = flagged.flags
          /\ Closed(flagged).status = IF flagged.open = {} THEN "completed"
                                      ELSE "completed_with_open_issues"
      BY <1>6, ClosedState
    <3> QED
      BY <1>5, <1>6, <3>1, <3>2
  <2> QED
    BY <2>1, <2>2
<1> HIDE DEF final
<1>8. TalkInv'
  <2>1. Over' /\ turn' \in TurnKinds /\ rounds' \in Nat
    BY <1>1 DEF Over, TalkInv, Typed
  <2> QED
    BY <1>1, <1>7, <2>1, EndKeepsTalk
<1>9. Grouped'
  BY <1>1, <1>3, <1>4 DEF Grouped
<1>10. Concluded'
  <2>1. index'["plan"] = s.status /\ ((s.status = "needs_revision") <=> gaps # {})
    BY <1>1, <1>5 DEF Grouped
  <2>2. \A f \in job.families : (groups'[f] = "needs_revision") <=> f \in gaps
    BY <1>4 DEF Grouped
  <2>3. job' = job /\ plan' = ComputedPlan(job)
    OBVIOUS
  <2>4. gaps = PlanGaps(job', plan') /\ issues = PlanIssues(job', plan')
    BY <2>3 DEF gaps, issues, p
  <2> QED
    BY <1>1, <1>7, <2>1, <2>2, <2>3, <2>4 DEF Concluded
<1> QED
  BY <1>1, <1>7, <1>8, <1>9, <1>10

(* The invariant of the discussion and the plan.                           *)
PlanInv == TalkInv /\ Grouped /\ Concluded

LEMMA PhaseKeepsInv ==
  ASSUME PlanInv,
         NextGroup \/ DesignReturns \/ SpecReturns \/ PlanRaises \/ PlanReturns
           \/ AskToClarify \/ Clarified \/ Ruled \/ PhaseFails
  PROVE  PlanInv'
<1> USE DEF PlanInv
<1>1. /\ IsState(m) /\ IsState(file) /\ turn \in TurnKinds /\ rounds \in Nat
      /\ stage \in {"speak", "summary", "between"}
      /\ phase \in {"design", "spec", "plan", "finished", "failed"}
  BY DEF TalkInv, Typed
<1>2. CASE NextGroup
  <2>1. /\ stage = "between" /\ phase' = phase /\ phase \in {"design", "spec", "plan"}
        /\ queue # <<>> /\ ~Over /\ ~Over'
        /\ groups' = [groups EXCEPT ![target] = "accepted"]
        /\ target' = Head(queue) /\ queue' = Tail(queue)
        /\ m' = [m EXCEPT !.round = @ + 1, !.challenge = 0]
        /\ turn' = "proposal" /\ stage' = "speak" /\ rounds' = m.round + 1
        /\ UNCHANGED <<job, plan, notes, index, file>>
    BY <1>2 DEF NextGroup, OpenRound, Between, Over
  <2>2. /\ IsState(m') /\ m'.open = m.open /\ m'.flags = m.flags /\ m'.status = m.status
        /\ m.round + 1 \in Nat
    BY <1>1, <2>1, OpenedState DEF IsState, States
  <2>3. file = m /\ "unresolved_planning_gap" \notin m.flags
        /\ \A r \in Nat : Raised(r) \notin m.open
    BY <2>1 DEF TalkInv, Closing, Unjudged, RaisedNow
  <2>4. TalkInv'
    BY <1>1, <2>1, <2>2, <2>3 DEF TalkInv, Typed, Stopped, Closing, Unjudged, RaisedNow,
                                  SavedState, Saved, TurnKinds, RoundTurns
  <2>5. Grouped'
    <3>1. queue \in Seq(Names) /\ Head(queue) \in Names /\ Tail(queue) \in Seq(Names)
      BY <2>1 DEF Grouped
    <3> QED
      BY <2>1, <3>1 DEF Grouped
  <2>6. Concluded'
    BY <2>1 DEF Concluded
  <2> QED
    BY <2>4, <2>5, <2>6
<1>3. CASE DesignReturns
  <2>1. PICK names \in Designs : job' = DesignJob(names) /\ OpenPhase("spec", names)
    BY <1>3 DEF DesignReturns
  <2>2. names \in SUBSET Names /\ job'.families = names
    BY <2>1, PlanningAssumption DEF DesignJob
  <2>3. /\ TalkInv' /\ phase' = "spec" /\ ~Over'
        /\ DOMAIN groups' = names /\ target' \in Names \cup {NoFamily} /\ queue' \in Seq(Names)
        /\ \A f \in DOMAIN groups' : groups'[f] \in {"pending", "accepted", "needs_revision"}
    BY <2>1, <2>2, PhaseOpens
  <2>4. Grouped' /\ Concluded'
    BY <1>3, <2>2, <2>3 DEF DesignReturns, Filed, Grouped, Concluded
  <2> QED
    BY <2>3, <2>4
<1>4. CASE SpecReturns
  <2>1. job' = job /\ OpenPhase("plan", job.families) /\ job.families \in SUBSET Names
    BY <1>4 DEF SpecReturns, Grouped
  <2>2. /\ TalkInv' /\ phase' = "plan" /\ ~Over'
        /\ DOMAIN groups' = job.families /\ target' \in Names \cup {NoFamily}
        /\ queue' \in Seq(Names)
        /\ \A f \in DOMAIN groups' : groups'[f] \in {"pending", "accepted", "needs_revision"}
    BY <2>1, PhaseOpens
  <2>3. Grouped' /\ Concluded'
    BY <1>4, <2>1, <2>2 DEF SpecReturns, Filed, Grouped, Concluded
  <2> QED
    BY <2>2, <2>3
<1>5. CASE PlanRaises
  <2>1. /\ phase' = "failed" /\ Over' /\ stage' = "between"
        /\ UNCHANGED <<job, target, queue, groups, plan, notes, index>>
        /\ UNCHANGED <<turn, m, rounds, file>>
    BY <1>5 DEF PlanRaises, Between, Over, meetingVars
  <2>2. TalkInv'
    BY <1>1, <2>1, EndKeepsTalk
  <2> QED
    BY <2>1, <2>2 DEF Grouped, Concluded
<1>6. CASE PlanReturns
  <2>1. /\ stage = "between" /\ ~Over /\ ~Cyclic(job) /\ stage' = "between"
    BY <1>6 DEF PlanReturns, Drafted, Between, Over
  <2>2. m.status # "needs_revision" /\ "unresolved_planning_gap" \notin m.flags
    BY <2>1 DEF TalkInv, Closing, Unjudged
  <2>3. /\ ReturnPlan(WithCoverage(m, PlanGaps(job, ComputedPlan(job))), ComputedPlan(job))
        /\ plan' = ComputedPlan(job) /\ groups' = Synced(PlanGaps(job, ComputedPlan(job)))
        /\ UNCHANGED <<job, target, queue, turn, rounds>>
    BY <1>6 DEF PlanReturns
  <2> QED
    BY <1>1, <2>1, <2>2, <2>3, PlanReturned
<1>7. CASE AskToClarify
  <2> DEFINE gaps == PlanGaps(job, ComputedPlan(job))
             covered == WithCoverage(m, gaps)
             next == [covered EXCEPT !.round = @ + 1]
  <2>1. /\ stage = "between" /\ phase = "plan" /\ ~Over /\ ~Cyclic(job)
        /\ groups' = Synced(gaps) /\ m' = Challenged(next, TRUE) /\ file' = m'
        /\ turn' = "clarify" /\ stage' = "speak"
        /\ UNCHANGED <<phase, job, target, queue, plan, notes, index, rounds>>
    BY <1>7 DEF AskToClarify, Drafted, Between, Over
  <2>2. gaps \in SUBSET Names
    BY JobIsSane DEF Grouped
  <2>3. /\ "unresolved_planning_gap" \notin m.flags /\ \A r \in Nat : Raised(r) \notin m.open
    BY <2>1 DEF TalkInv, Unjudged, RaisedNow
  <2> HIDE DEF gaps
  <2>4. /\ IsState(covered) /\ "unresolved_planning_gap" \notin covered.flags
        /\ \A r \in Nat : Raised(r) \notin covered.open
    BY <1>1, <2>2, <2>3, CoveredState, IssuesDiffer
  <2> HIDE DEF covered
  <2>5. /\ IsState(next) /\ next.open = covered.open /\ next.flags = covered.flags
    <3>1. next \in States
      BY <2>4 DEF IsState, States
    <3> QED
      BY <2>4, <3>1 DEF IsState, States
  <2> HIDE DEF next
  <2>6. /\ IsState(m') /\ m'.round = next.round
        /\ m'.open \subseteq next.open \cup {Raised(next.round)}
        /\ "unresolved_planning_gap" \notin m'.flags
    BY <2>1, <2>4, <2>5, ChallengedState
  <2>7. ~Over' /\ phase' = "plan" /\ job' = job
    BY <2>1 DEF Over
  <2>8. RaisedNow'
    BY <2>1, <2>4, <2>5, <2>6, IssuesDiffer DEF RaisedNow, RaisedTurn
  <2>9. TalkInv'
    BY <1>1, <2>1, <2>6, <2>7, <2>8
       DEF TalkInv, Typed, Stopped, Closing, Unjudged, SavedState, Saved, TurnKinds
  <2>10. Grouped'
    BY <2>1 DEF Grouped, Synced
  <2>11. Concluded'
    BY <2>1 DEF Concluded
  <2> QED
    BY <2>9, <2>10, <2>11
<1>8. CASE Clarified
  <2>1. /\ phase = "plan" /\ ~Over /\ turn = "clarify" /\ stage = "speak" /\ file' = m
        /\ turn' = "ruling" /\ UNCHANGED <<stage, m, rounds>> /\ UNCHANGED planningVars
    BY <1>8 DEF Clarified, Speaks, Over
  <2>2. phase' = phase /\ job' = job /\ ~Over' /\ ~Cyclic(job)
    BY <2>1 DEF planningVars, Over, TalkInv, Stopped
  <2>3. TalkInv'
    BY <1>1, <2>1, <2>2 DEF TalkInv, Typed, Stopped, Closing, Unjudged, RaisedNow, RaisedTurn,
                            SavedState, Saved, TurnKinds
  <2>4. Grouped' /\ Concluded'
    BY <2>1, <2>2 DEF Grouped, Concluded, planningVars
  <2> QED
    BY <2>3, <2>4
<1>9. CASE Ruled
  <2>1. /\ phase = "plan" /\ ~Over /\ turn = "ruling" /\ stage = "speak" /\ stage' = "between"
        /\ plan' = ComputedPlan(job) /\ groups' = Synced(PlanGaps(job, ComputedPlan(job)))
        /\ UNCHANGED <<job, target, queue, turn, rounds>>
    BY <1>9 DEF Ruled, Speaks, Over
  <2>2. PICK n \in Nat :
          ReturnPlan(WithCoverage(Resolved(m, n), PlanGaps(job, ComputedPlan(job))),
                     ComputedPlan(job))
    BY <1>9, MeetingAssumption DEF Ruled
  <2>3. ~Cyclic(job) /\ "unresolved_planning_gap" \notin m.flags
    BY <2>1 DEF TalkInv, Stopped, Unjudged
  <2>4. /\ IsState(Resolved(m, n)) /\ Resolved(m, n).status # "needs_revision"
        /\ "unresolved_planning_gap" \notin Resolved(m, n).flags
    BY <1>1, <2>3, ResolvedState
  <2> QED
    BY <2>1, <2>2, <2>3, <2>4, PlanReturned
<1>10. CASE PhaseFails
  <2>1. /\ phase' = "failed" /\ Over' /\ stage' = "between"
        /\ UNCHANGED <<job, target, queue, groups, plan, notes, index>>
        /\ UNCHANGED <<turn, m, rounds, file>>
    BY <1>10 DEF PhaseFails, Over
  <2>2. TalkInv'
    BY <1>1, <2>1, EndKeepsTalk
  <2> QED
    BY <2>1, <2>2 DEF Grouped, Concluded
<1> QED
  BY <1>2, <1>3, <1>4, <1>5, <1>6, <1>7, <1>8, <1>9, <1>10

LEMMA InitPlan ==
  ASSUME Init
  PROVE  PlanInv
<1>1. /\ phase \in {"design", "plan"} /\ job \in Jobs \cup {NoJob}
      /\ target = FirstTarget(job.families) /\ queue = Rest(job.families)
      /\ groups = [f \in job.families |-> "pending"]
      /\ plan = NoPlan /\ index = [p \in {"design", "spec", "plan"} |-> "absent"]
      /\ m = [NewMeeting EXCEPT !.round = 1] /\ file = NoFile
      /\ turn = "proposal" /\ stage = "speak" /\ rounds \in {1, 2}
  BY DEF Init, Pending
<1>2. job.families \in SUBSET Names
  BY <1>1, PlanningAssumption DEF NoJob
<1>3. /\ target \in Names \cup {NoFamily} /\ queue \in Seq(Names)
  BY <1>1, <1>2, FirstAndRest
<1>4. IsState(m) /\ m.round = 1 /\ m.open = {} /\ m.flags = {} /\ IsState(file)
  <2>1. m \in States
    BY <1>1, NewMeetingState DEF IsState, States
  <2>2. m.round = 1 /\ m.open = {} /\ m.flags = {} /\ m.challenge = 0
    BY <1>1 DEF NewMeeting
  <2> QED
    BY <1>1, <2>1, <2>2, NewMeetingState DEF IsState
<1>5. ~Over
  BY <1>1 DEF Over
<1>6. TalkInv
  BY <1>1, <1>4, <1>5 DEF TalkInv, Typed, Stopped, Closing, Unjudged, RaisedNow, SavedState,
                          TurnKinds, RoundTurns
<1>7. Grouped
  BY <1>1, <1>2, <1>3 DEF Grouped, NoPlan
<1>8. Concluded
  BY <1>1 DEF Concluded
<1> QED
  BY <1>6, <1>7, <1>8 DEF PlanInv

LEMMA NextKeepsPlan ==
  ASSUME PlanInv, [Next]_vars
  PROVE  PlanInv'
<1>1. CASE UNCHANGED <<meetingVars, planningVars>>
  <2>1. /\ UNCHANGED <<turn, stage, m, rounds, file>>
        /\ UNCHANGED <<phase, job, target, queue, groups, plan, notes, index>>
    BY <1>1 DEF meetingVars, planningVars
  <2>2. Over' = Over
    BY <2>1 DEF Over
  <2>3. TalkInv'
    BY <2>1, <2>2 DEF PlanInv, TalkInv, Typed, Stopped, Closing, Unjudged, RaisedNow,
                      RaisedTurn, SavedState, Saved
  <2>4. Grouped' /\ Concluded'
    BY <2>1 DEF PlanInv, Grouped, Concluded
  <2> QED
    BY <2>3, <2>4 DEF PlanInv
<1>2. CASE MeetingNext /\ UNCHANGED <<planningVars, mode, wireVars>>
  <2>1. UNCHANGED planningVars
    BY <1>2
  <2>2. TalkInv'
    BY <1>2, <2>1, MeetingKeepsTalk DEF PlanInv
  <2>3. Grouped'
    BY <2>1 DEF PlanInv, Grouped, planningVars
  <2>4. Concluded'
    <3>1. phase # "finished"
      BY <1>2 DEF PlanInv, TalkInv, Stopped, Over, MeetingNext, ProposalSpoken,
                  ChallengeSpoken, ResponseSpoken, ResolutionSpoken, NextSpeaker, NextRound,
                  CloseMeeting, Speaks, Summarized
    <3> QED
      BY <2>1, <3>1 DEF Concluded, planningVars
  <2> QED
    BY <2>2, <2>3, <2>4 DEF PlanInv
<1>3. CASE NextGroup \/ DesignReturns \/ SpecReturns \/ PlanRaises \/ PlanReturns
             \/ AskToClarify \/ Clarified \/ Ruled \/ PhaseFails
  BY <1>3, PhaseKeepsInv
<1> QED
  BY <1>1, <1>2, <1>3 DEF Next, vars

LEMMA PlanInvariant == Spec => []PlanInv
<1>1. Init => PlanInv
  BY InitPlan
<1>2. PlanInv /\ [Next]_vars => PlanInv'
  BY NextKeepsPlan
<1> QED
  BY <1>1, <1>2, PTL DEF Spec

-----------------------------------------------------------------------------
(* The variables of a planning run keep their types: the target and the    *)
(* queue hold names of parts, a challenge is one of a round that was held, *)
(* a plan is about the names (multi_expert/phases/, core/meeting.py).      *)
THEOREM PlanningTypeCorrect == Spec => []TypeOK
<1>1. WireInv /\ PlanInv => TypeOK
  <2> SUFFICES ASSUME WireInv, PlanInv PROVE TypeOK
    OBVIOUS
  <2>1. AoTypeOK
    BY DEF WireInv
  <2>2. \A s \in {m, file} : /\ s.round \in Nat /\ s.challenge \in 0 .. s.round
                             /\ s.status \in Statuses
    BY DEF PlanInv, TalkInv, Typed, IsState, States
  <2> QED
    BY <2>1, <2>2 DEF PlanInv, TalkInv, Typed, Grouped, TypeOK, Statuses
<1> QED
  BY <1>1, WireInvariant, PlanInvariant, PTL

(* A crash loses at most the turn in progress (persist_phase_meeting_state *)
(* after every turn, core/meeting.py).                                     *)
THEOREM OneTurnIsLost == Spec => []CrashLosesOneTurn
<1>1. PlanInv => CrashLosesOneTurn
  <2> SUFFICES ASSUME PlanInv, SavedState PROVE CrashLosesOneTurn
    BY DEF PlanInv, TalkInv
  <2>1. IsState(m) /\ IsState(file)
    BY DEF PlanInv, TalkInv, Typed
  <2>2. Saved => [file EXCEPT !.round = m.round, !.challenge = m.challenge] = m
    BY <2>1, SavedIsSame DEF Saved
  <2> QED
    BY <2>2 DEF SavedState, CrashLosesOneTurn
<1> QED
  BY <1>1, PlanInvariant, PTL

(* The failure notes, the meeting state on disk, the index and the todo    *)
(* groups tell the same of the plan that was returned (PlanPhase.run).     *)
THEOREM VerdictsAgree == Spec => []VerdictIsRecorded
<1>1. PlanInv => VerdictIsRecorded
  <2> SUFFICES ASSUME PlanInv, phase = "finished" PROVE VerdictIsRecorded
    BY DEF VerdictIsRecorded
  <2> DEFINE gaps == PlanGaps(job, plan)
             issues == PlanIssues(job, plan)
  <2>1. /\ notes = Coverage(gaps) \cup issues
        /\ (file.status = "needs_revision") <=> gaps # {}
        /\ ("unresolved_planning_gap" \in file.flags) <=> issues # {}
        /\ file.status = "completed" => file.open = {}
        /\ (index["plan"] = "needs_revision") <=> gaps # {}
        /\ \A f \in job.families : (groups[f] = "needs_revision") <=> f \in gaps
    BY DEF PlanInv, Concluded
  <2>2. \A f : <<"coverage", f>> \in notes <=> f \in gaps
    BY <2>1, NotesDiffer
  <2> HIDE DEF gaps, issues
  <2>3. gaps # {} \/ issues # {} => notes # {}
    <3>1. ASSUME NEW f \in gaps PROVE <<"coverage", f>> \in notes
      BY <2>2
    <3>2. issues \subseteq notes
      BY <2>1
    <3> QED
      BY <3>1, <3>2
  <2>4. gaps = {} /\ issues = {} => notes = {}
    BY <2>1 DEF Coverage
  <2> QED
    BY <2>1, <2>2, <2>3, <2>4 DEF VerdictIsRecorded
<1> QED
  BY <1>1, PlanInvariant, PTL

(* No family is lost without a word, whatever the job: the plan leaves out *)
(* the orphans and what hangs under them, and says so (_compute_plan and   *)
(* compute_plan_coverage_gaps on the layers of build_execution_dag).       *)
THEOREM FamiliesAreAccountedFor == Spec => []NoFamilyLost
<1>1. PlanInv => NoFamilyLost
  <2> SUFFICES ASSUME PlanInv, phase = "finished", NEW f \in job.families
               PROVE  /\ (f \notin plan.steps) <=> (<<"coverage", f>> \in notes)
                      /\ (f \notin plan.steps) <=>
                           ({f} \cup Ancestors(job, f)) \cap Orphans(job) # {}
    BY DEF NoFamilyLost
  <2>1. /\ ~Cyclic(job) /\ plan = ComputedPlan(job)
        /\ notes = Coverage(PlanGaps(job, plan)) \cup PlanIssues(job, plan)
    BY DEF PlanInv, Concluded
  <2>2. Sane(job) /\ PlanGaps(job, plan) = job.families \ Planned(job)
    BY <2>1, JobIsSane DEF PlanInv
  <2>3. plan.steps = Planned(job)
    BY <2>1 DEF ComputedPlan
  <2>4. <<"coverage", f>> \in notes <=> f \in PlanGaps(job, plan)
    BY <2>1, NotesDiffer
  <2>5. f \notin Planned(job) <=> ({f} \cup Ancestors(job, f)) \cap Orphans(job) # {}
    BY <2>1, <2>2, LeftOut
  <2> QED
    BY <2>2, <2>3, <2>4, <2>5
<1> QED
  BY <1>1, PlanInvariant, PTL

(* A plan without failure notes can be executed: every family is built and *)
(* assembled, and its parent is planned for an earlier layer               *)
(* (normalize_build_execution_plan, normalize_assembly_execution_plan).    *)
THEOREM CleanPlansAreExecutable == Spec => []CleanPlanIsExecutable
<1>1. PlanInv => CleanPlanIsExecutable
  <2> SUFFICES ASSUME PlanInv, phase = "finished", notes = {}
               PROVE  /\ BuildItems(job, plan) = job.families
                      /\ AssemblyItems(job, plan) = job.families
                      /\ Skipped(job, plan) = {}
                      /\ \A f \in job.families :
                           job.parent[f] # NoFamily =>
                             /\ job.parent[f] \in job.families
                             /\ LayerOf(job, job.parent[f]) < LayerOf(job, f)
    BY DEF CleanPlanIsExecutable
  <2>1. /\ plan = ComputedPlan(job)
        /\ notes = Coverage(PlanGaps(job, plan)) \cup PlanIssues(job, plan)
    BY DEF PlanInv, Concluded
  <2>2. /\ Sane(job) /\ PlanGaps(job, plan) = job.families \ Planned(job)
        /\ Planned(job) \subseteq job.families
    BY <2>1, JobIsSane DEF PlanInv
  <2>3. Planned(job) = job.families
    <3>1. ASSUME NEW f \in job.families PROVE f \notin PlanGaps(job, plan)
      BY <2>1, NotesDiffer
    <3> QED
      BY <2>2, <3>1
  <2>4. plan.steps = job.families /\ plan.build = job.families /\ plan.assembly = job.families
    BY <2>1, <2>3 DEF ComputedPlan
  <2>5. StructureIssues(job, plan) = {} /\ ContractIssues(job, plan) = {}
    BY <2>1 DEF PlanIssues
  <2>6. BuildItems(job, plan) = job.families /\ AssemblyItems(job, plan) = job.families
    BY <2>4, <2>5 DEF BuildItems, AssemblyItems
  <2>7. Skipped(job, plan) = {}
    BY <2>4, <2>5 DEF Skipped, ContractIssues
  <2>8. ASSUME NEW f \in job.families, job.parent[f] # NoFamily
        PROVE  /\ job.parent[f] \in job.families
               /\ LayerOf(job, job.parent[f]) < LayerOf(job, f)
    BY <2>2, <2>3, <2>8, ParentIsEarlier
  <2> QED
    BY <2>6, <2>7, <2>8
<1> QED
  BY <1>1, PlanInvariant, PTL

(* What ModeratorSettles says of a step.                                   *)
Settled ==
  phase' \in {phase, "finished", "failed"} =>
    /\ ~(m.open \subseteq m'.open) => stage = "speak" /\ turn \in {"resolution", "ruling"}
    /\ \A r \in 1 .. m.round : Raised(r) \in m.open \ m'.open => r = m.round

(* A turn of the meeting takes no issue off the list, unless the moderator *)
(* speaks: the reviewer's challenge of this round is not on it yet.        *)
LEMMA TurnsKeepIssues ==
  ASSUME PlanInv, MeetingNext
  PROVE  /\ ~Over
         /\ m.open \subseteq m'.open \/ (stage = "speak" /\ turn = "resolution")
<1>1. stage # "between" /\ ~Over /\ IsState(m)
  BY DEF PlanInv, TalkInv, Stopped, Typed, MeetingNext, ProposalSpoken, ChallengeSpoken,
         ResponseSpoken, ResolutionSpoken, NextSpeaker, NextRound, CloseMeeting, Speaks,
         Summarized
<1>2. CASE ProposalSpoken \/ ResponseSpoken \/ NextSpeaker
  <2>1. m' = m
    BY <1>2 DEF ProposalSpoken, ResponseSpoken, NextSpeaker
  <2> QED
    BY <1>1, <2>1
<1>3. CASE ChallengeSpoken
  <2>1. turn = "challenge" /\ stage = "speak" /\ m.round \in Nat
    BY <1>1, <1>3 DEF ChallengeSpoken, Speaks, IsState, States
  <2>2. Raised(m.round) \notin m.open
    BY <1>1, <2>1 DEF PlanInv, TalkInv, RaisedNow, RaisedTurn
  <2>3. PICK blocking \in BOOLEAN : m' = Challenged(m, blocking)
    BY <1>3 DEF ChallengeSpoken
  <2>4. m.open \subseteq m'.open \cup {Raised(m.round)}
    BY <1>1, <2>3, ChallengedState
  <2> QED
    BY <1>1, <2>2, <2>4
<1>4. CASE ResolutionSpoken
  BY <1>1, <1>4 DEF ResolutionSpoken, Speaks
<1>5. CASE NextRound
  <2>1. m' = [m EXCEPT !.round = @ + 1, !.challenge = 0]
    BY <1>5 DEF NextRound, OpenRound
  <2>2. m'.open = m.open
    BY <1>1, <2>1, OpenedState
  <2> QED
    BY <1>1, <2>2
<1>6. CASE CloseMeeting
  <2>1. m'.open = m.open
    BY <1>1, <1>6, ClosedState DEF CloseMeeting
  <2> QED
    BY <1>1, <2>1
<1> QED
  BY <1>1, <1>2, <1>3, <1>4, <1>5, <1>6 DEF MeetingNext

LEMMA PhasesKeepIssues ==
  ASSUME PlanInv,
         NextGroup \/ PlanRaises \/ PlanReturns \/ AskToClarify \/ Clarified \/ Ruled
           \/ PhaseFails
  PROVE  /\ ~Over
         /\ m.open \subseteq m'.open \/ (stage = "speak" /\ turn = "ruling")
<1>1. IsState(m) /\ Grouped /\ TalkInv
  BY DEF PlanInv, TalkInv, Typed
<1>2. ~Over
  BY <1>1 DEF TalkInv, Stopped, Over, NextGroup, PlanRaises, PlanReturns, AskToClarify,
              Drafted, Clarified, Ruled, PhaseFails, Between, Speaks
<1>3. CASE NextGroup
  <2>1. m' = [m EXCEPT !.round = @ + 1, !.challenge = 0]
    BY <1>3 DEF NextGroup, OpenRound
  <2>2. m'.open = m.open
    BY <1>1, <2>1, OpenedState
  <2> QED
    BY <1>2, <2>2
<1>4. CASE PlanRaises \/ Clarified \/ PhaseFails
  <2>1. m' = m
    BY <1>4 DEF PlanRaises, Clarified, PhaseFails, meetingVars
  <2> QED
    BY <1>2, <2>1
<1>5. CASE PlanReturns
  <2>1. /\ stage = "between" /\ ~Cyclic(job) /\ stage' = "between"
    BY <1>5 DEF PlanReturns, Drafted, Between
  <2>2. m.status # "needs_revision" /\ "unresolved_planning_gap" \notin m.flags
    BY <1>1, <1>2, <2>1 DEF TalkInv, Closing, Unjudged
  <2>3. /\ ReturnPlan(WithCoverage(m, PlanGaps(job, ComputedPlan(job))), ComputedPlan(job))
        /\ plan' = ComputedPlan(job) /\ groups' = Synced(PlanGaps(job, ComputedPlan(job)))
        /\ UNCHANGED <<job, target, queue, turn, rounds>>
    BY <1>5 DEF PlanReturns
  <2>4. m.open \subseteq m'.open
    BY <1>1, <2>1, <2>2, <2>3, PlanReturned
  <2> QED
    BY <1>2, <2>4
<1>6. CASE AskToClarify
  <2> DEFINE gaps == PlanGaps(job, ComputedPlan(job))
             covered == WithCoverage(m, gaps)
             next == [covered EXCEPT !.round = @ + 1]
  <2>1. m' = Challenged(next, TRUE)
    BY <1>6 DEF AskToClarify
  <2>2. gaps \in SUBSET Names
    BY <1>1, JobIsSane DEF Grouped
  <2> HIDE DEF gaps
  <2>3. IsState(covered) /\ m.open \subseteq covered.open
    BY <1>1, <2>2, CoveredState
  <2> HIDE DEF covered
  <2>4. IsState(next) /\ next.open = covered.open
    <3>1. next \in States
      BY <2>3 DEF IsState, States
    <3> QED
      BY <2>3, <3>1 DEF IsState, States
  <2> HIDE DEF next
  <2>5. next.open \subseteq m'.open
    BY <2>1, <2>4, ChallengedState
  <2> QED
    BY <1>2, <2>3, <2>4, <2>5
<1>7. CASE Ruled
  BY <1>2, <1>7 DEF Ruled, Speaks
<1> QED
  BY <1>3, <1>4, <1>5, <1>6, <1>7

(* Only the moderator takes an issue off the list, and a challenge only in *)
(* its own round (apply_resolution_to_state, update_state_after_challenge, *)
(* core/meeting.py; _run_contract_clarification, plan_phase.py).           *)
THEOREM OnlyTheModeratorSettles == Spec => ModeratorSettles
<1>1. ASSUME PlanInv, [Next]_vars PROVE [Settled]_vars
  <2>1. CASE UNCHANGED vars
    BY <2>1
  <2>2. CASE UNCHANGED m
    <3>1. m.open \ m'.open = {} /\ m.open \subseteq m'.open
      BY <2>2
    <3> QED
      BY <3>1 DEF Settled
  <2>3. ASSUME ~Over,
               m.open \subseteq m'.open \/ (stage = "speak" /\ turn \in {"resolution", "ruling"})
        PROVE  Settled
    <3>1. ASSUME NEW r \in 1 .. m.round, Raised(r) \in m.open \ m'.open PROVE r = m.round
      <4>1. r \in Nat
        BY <1>1 DEF PlanInv, TalkInv, Typed, IsState, States
      <4> QED
        BY <1>1, <2>3, <3>1, <4>1 DEF PlanInv, TalkInv, RaisedNow
    <3> QED
      BY <2>3, <3>1 DEF Settled
  <2>4. CASE MeetingNext
    BY <1>1, <2>3, <2>4, TurnsKeepIssues
  <2>5. CASE NextGroup \/ PlanRaises \/ PlanReturns \/ AskToClarify \/ Clarified \/ Ruled
               \/ PhaseFails
    BY <1>1, <2>3, <2>5, PhasesKeepIssues
  <2>6. CASE DesignReturns \/ SpecReturns
    <3>1. phase' # phase /\ phase' \in {"spec", "plan"}
      BY <2>6 DEF DesignReturns, SpecReturns, OpenPhase
    <3> QED
      BY <3>1 DEF Settled
  <2> QED
    BY <1>1, <2>1, <2>2, <2>4, <2>5, <2>6 DEF Next, meetingVars
<1>2. ModeratorSettles <=> [][Settled]_vars
  BY DEF ModeratorSettles, Settled
<1> QED
  BY <1>1, <1>2, PlanInvariant, PTL DEF Spec
=============================================================================
