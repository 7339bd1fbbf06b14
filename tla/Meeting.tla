------------------------------ MODULE Meeting ------------------------------
(***************************************************************************)
(* One moderated meeting (multi_expert/core/meeting.py, run_moderated_     *)
(* phase): in every round the owner proposes, the reviewer challenges, the *)
(* owner responds to a blocking challenge and the moderator resolves.      *)
(* Every turn is one call to AO; after it a second call asks for a summary *)
(* of what was said, whose failure is swallowed, and the meeting state is  *)
(* written to meeting_state_<phase>.json.                                  *)
(*                                                                         *)
(* The texts are abstracted to what the code reads out of them: whether a  *)
(* challenge blocks and how many open issues a resolution lists.  Nothing  *)
(* the code does depends on the accepted, rejected and settled items it    *)
(* collects, nor on the flags weak_revision and underspecified_resolution; *)
(* they are left out.                                                      *)
(***************************************************************************)
EXTENDS AoClient

CONSTANT MaxOpen   (* bound: the open issues one resolution lists           *)

ASSUME MeetingAssumption == MaxOpen \in Nat

VARIABLES
  turn,      (* who speaks: a TurnKind                                      *)
  stage,     (* "speak": the turn's call; "summary": the call after it;     *)
             (* "between": the meeting is closed                            *)
  m,         (* PhaseMeetingState                                           *)
  rounds,    (* max_rounds of the meeting                                   *)
  file       (* the meeting state as it is on disk                          *)

meetingVars == <<turn, stage, m, rounds, file>>

(* "clarify" and "ruling" are the two calls of the plan phase's contract   *)
(* clarification.                                                          *)
RoundTurns == {"proposal", "challenge", "response", "resolution"}
TurnKinds == RoundTurns \cup {"clarify", "ruling"}

(* Issues: a challenge and the items of a resolution carry their round, a  *)
(* coverage gap its family.                                                *)
Raised(r) == <<"challenge", r>>
Left(r, n) == {<<"open", r, i>> : i \in 1 .. n}

NewMeeting ==
  [round |-> 0, open |-> {}, challenge |-> 0, flags |-> {}, status |-> "in_progress"]

(* update_state_after_challenge.                                           *)
Challenged(s, blocking) ==
  IF blocking
  THEN [s EXCEPT !.open = @ \cup {Raised(s.round)}, !.challenge = s.round,
                 !.flags = @ \cup {"needs_review"}]
  ELSE [s EXCEPT !.open = @ \ {Raised(s.round)}, !.challenge = 0,
                 !.flags = @ \ {"needs_review"}]

(* apply_resolution_to_state: the open issues become those of this         *)
(* resolution, whatever was open before.                                   *)
Resolved(s, left) ==
  [s EXCEPT
    !.open = Left(s.round, left),
    !.flags = (@ \ {"needs_review", "resolved"})
                \cup (IF left = 0 THEN {"resolved"} ELSE {"needs_followup"}),
    !.status = IF left = 0 THEN "resolved" ELSE "needs_followup"]

(* Every open issue of these meetings is blocking.                         *)
ShouldContinue(s, max) == s.round < max /\ s.open # {}

Closed(s) ==
  [s EXCEPT !.status = IF s.open = {} THEN "completed" ELSE "completed_with_open_issues"]

-----------------------------------------------------------------------------
Ask == call' = NewCall(call.prompt + 1)
HangUp == call' = [NoCall EXCEPT !.prompt = call.prompt]

Speaks(kind) == stage = "speak" /\ turn = kind /\ call.state = "answered"
Summarize == stage' = "summary" /\ Ask /\ UNCHANGED <<turn, rounds, file>>

(* The next round of the meeting, or the first one of a new meeting that   *)
(* goes on with the same state.                                            *)
OpenRoundBug(s, max) ==
  /\ m' = [s EXCEPT !.round = @ + 1, !.challenge = 0, !.open = {}]
  /\ turn' = "proposal" /\ stage' = "speak" /\ rounds' = max
  /\ Ask

OpenRound(s, max) ==
  /\ m' = [s EXCEPT !.round = @ + 1, !.challenge = 0]
  /\ turn' = "proposal" /\ stage' = "speak" /\ rounds' = max
  /\ Ask

ProposalSpoken == Speaks("proposal") /\ Summarize /\ UNCHANGED m

ChallengeSpoken ==
  /\ Speaks("challenge")
  /\ \E blocking \in BOOLEAN : m' = Challenged(m, blocking)
  /\ Summarize

ResponseSpoken == Speaks("response") /\ Summarize /\ UNCHANGED m

ResolutionSpoken ==
  /\ Speaks("resolution")
  /\ \E left \in 0 .. MaxOpen : m' = Resolved(m, left)
  /\ Summarize

(* The summary came or failed.  persist_phase_meeting_state, then the next *)
(* speaker: the owner responds only to a blocking challenge.               *)
SummarizedBug == stage = "summary" /\ call.state = "answered"

Summarized == stage = "summary" /\ call.state \in {"answered", "failed"}

NextSpeakerBug ==
  /\ Summarized /\ turn # "resolution"
  /\ file' = IF turn = "challenge" THEN file ELSE m
  /\ turn' = CASE turn = "proposal" -> "challenge"
               [] turn = "challenge" /\ m.challenge # 0 -> "response"
               [] OTHER -> "resolution"
  /\ stage' = "speak" /\ Ask /\ UNCHANGED <<m, rounds>>

NextSpeaker ==
  /\ Summarized /\ turn # "resolution"
  /\ file' = m
  /\ turn' = CASE turn = "proposal" -> "challenge"
               [] turn = "challenge" /\ m.challenge # 0 -> "response"
               [] OTHER -> "resolution"
  /\ stage' = "speak" /\ Ask /\ UNCHANGED <<m, rounds>>

NextRound ==
  /\ Summarized /\ turn = "resolution" /\ ShouldContinue(m, rounds)
  /\ file' = m
  /\ OpenRound(m, rounds)

(* The meeting is over; its state is written with its final status.        *)
CloseMeeting ==
  /\ Summarized /\ turn = "resolution" /\ ~ShouldContinue(m, rounds)
  /\ m' = Closed(m) /\ file' = Closed(m)
  /\ stage' = "between" /\ HangUp /\ UNCHANGED <<turn, rounds>>

MeetingNext ==
  \/ ProposalSpoken \/ ChallengeSpoken \/ ResponseSpoken \/ ResolutionSpoken
  \/ NextSpeaker \/ NextRound \/ CloseMeeting
=============================================================================
