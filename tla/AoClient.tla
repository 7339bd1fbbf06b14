------------------------------ MODULE AoClient ------------------------------
(***************************************************************************)
(* How one prompt reaches the Agent Orchestrator (AO) and its answer comes *)
(* back: AgentOrchestratorLlmAdapter.call and the client behind it         *)
(* (services/agent_orchestrator.py).                                       *)
(*                                                                         *)
(* A client that provisioned its conversation knows the conversation id    *)
(* and posts every prompt over HTTP: one request, no retry.  A client that *)
(* was only connected to a WebSocket sends a JSON-RPC message, reads       *)
(* frames until one carries the id of its request, and after a broken      *)
(* connection reconnects and sends the message again under a new id.       *)
(*                                                                         *)
(* AO itself is outside the repository: it works on the messages of the    *)
(* conversation one after the other, takes its time and may answer with an *)
(* error, also to a message whose call was given up long ago.              *)
(* Frames without an id (notifications, pings, broken JSON) are skipped    *)
(* like the answers to earlier requests and are left out.                  *)
(***************************************************************************)
EXTENDS Naturals, Sequences, FiniteSets

CONSTANTS
  Retries,    (* reconnects for one WebSocket message; send_message passes 3 *)
  MaxFaults   (* bound: what the network, the clock and AO may do wrong      *)

ASSUME AoClientAssumption == Retries \in Nat /\ MaxFaults \in Nat

VARIABLES
  mode,       (* "rest": the conversation id is known; "ws": it is not      *)
  sock,       (* the WebSocket: "open", "dead" (its peer went) or "none"    *)
  rpc,        (* _rpc_id, the id of the last JSON-RPC request               *)
  call,       (* the call of the pipeline's thread                          *)
  working,    (* AO: the messages it received and has not answered          *)
  inbox,      (* the frames AO wrote to the open socket and nobody has read *)
  faults

aoVars == <<mode, sock, rpc, call, working, inbox, faults>>
wireVars == <<sock, rpc, working, inbox, faults>>

(* A call: its state, the number of its prompt, the id it waits for, its   *)
(* reconnects, the copies of the prompt AO got and the prompt answered.    *)
CallStates == {"idle", "sending", "waiting", "broken", "answered", "failed"}
NoCall == [state |-> "idle", prompt |-> 0, id |-> 0, attempt |-> 0, copies |-> 0, answers |-> 0]
NewCall(prompt) == [NoCall EXCEPT !.state = "sending", !.prompt = prompt]

CanFail == faults < MaxFaults
Fault == CanFail /\ faults' = faults + 1

AoInit ==
  /\ mode \in {"rest", "ws"}
  /\ sock = IF mode = "ws" THEN "open" ELSE "none"
  /\ rpc = 0
  /\ working = <<>>
  /\ inbox = <<>>
  /\ faults = 0

Deliver(id) ==
  /\ working' = Append(working, [id |-> id, prompt |-> call.prompt])
  /\ call' = [call EXCEPT !.state = "waiting", !.id = id, !.copies = @ + 1]

-----------------------------------------------------------------------------
(* HTTP: _send_message_rest.                                               *)

PostMessage ==
  /\ mode = "rest" /\ call.state = "sending"
  /\ Deliver(0)
  /\ UNCHANGED <<mode, sock, rpc, inbox, faults>>

(* The answer of AO comes back on the request it belongs to; when that     *)
(* request was given up there is nobody to read it.  An HTTP error and an  *)
(* empty result fail the call.                                             *)
AnswerPost ==
  /\ mode = "rest" /\ working # <<>>
  /\ working' = Tail(working)
  /\ IF call.state = "waiting" /\ call.prompt = Head(working).prompt
     THEN \/ /\ call' = [call EXCEPT !.state = "answered", !.answers = Head(working).prompt]
             /\ UNCHANGED faults
          \/ /\ call' = [call EXCEPT !.state = "failed"]
             /\ Fault
     ELSE UNCHANGED <<call, faults>>
  /\ UNCHANGED <<mode, sock, rpc, inbox>>

(* No connection (AO never saw the message), or no answer in time.         *)
PostFails ==
  /\ mode = "rest" /\ call.state \in {"sending", "waiting"}
  /\ Fault
  /\ call' = [call EXCEPT !.state = "failed"]
  /\ UNCHANGED <<mode, sock, rpc, working, inbox>>

-----------------------------------------------------------------------------
(* WebSocket: _send_message_with_retry around _send_message_once.          *)

SendOnce ==
  /\ mode = "ws" /\ call.state = "sending" /\ sock = "open"
  /\ rpc' = rpc + 1
  /\ Deliver(rpc + 1)
  /\ UNCHANGED <<mode, sock, inbox, faults>>

(* Sending into a socket whose peer is gone raises, which is retried; into *)
(* a socket that was never connected again raises too, which is not.       *)
CannotSend ==
  /\ mode = "ws" /\ call.state = "sending" /\ sock # "open"
  /\ rpc' = rpc + 1
  /\ call' = [call EXCEPT !.state = IF sock = "dead" THEN "broken" ELSE "failed"]
  /\ UNCHANGED <<mode, sock, working, inbox, faults>>

(* AO answers on whatever connection its conversation has; without one the *)
(* answer is lost.                                                         *)
AnswerFrame ==
  /\ mode = "ws" /\ working # <<>>
  /\ working' = Tail(working)
  /\ inbox' = IF sock = "open" THEN Append(inbox, Head(working)) ELSE inbox
  /\ UNCHANGED <<mode, sock, rpc, call, faults>>

(* _JsonRpcWebSocket.request reads the next frame and drops it unless it   *)
(* carries the id of this request.  The answer may be an error.            *)
ReadFrameBug ==
  /\ mode = "ws" /\ call.state = "waiting" /\ inbox # <<>>
  /\ inbox' = Tail(inbox)
  /\ call' = [call EXCEPT !.state = "answered", !.answers = Head(inbox).prompt]
  /\ UNCHANGED <<mode, sock, rpc, working, faults>>

ReadFrame ==
  /\ mode = "ws" /\ call.state = "waiting" /\ inbox # <<>>
  /\ inbox' = Tail(inbox)
  /\ IF Head(inbox).id = call.id
     THEN \/ /\ call' = [call EXCEPT !.state = "answered", !.answers = Head(inbox).prompt]
             /\ UNCHANGED faults
          \/ /\ call' = [call EXCEPT !.state = "failed"]
             /\ Fault
     ELSE UNCHANGED <<call, faults>>
  /\ UNCHANGED <<mode, sock, rpc, working>>

(* The peer closes the connection: frames nobody has read are gone.        *)
PeerCloses ==
  /\ mode = "ws" /\ sock = "open"
  /\ Fault
  /\ sock' = "dead" /\ inbox' = <<>>
  /\ UNCHANGED <<mode, rpc, call, working>>

(* recv meets the closed connection, or no frame within the socket's       *)
(* timeout: both count as a broken connection.                             *)
ReceiveRaises ==
  /\ mode = "ws" /\ call.state = "waiting"
  /\ IF sock = "dead" THEN UNCHANGED faults ELSE inbox = <<>> /\ Fault
  /\ call' = [call EXCEPT !.state = "broken"]
  /\ UNCHANGED <<mode, sock, rpc, working, inbox>>

(* Frames keep arriving, but not the answer, until the deadline: the call  *)
(* fails without a retry and leaves its connection open.                   *)
DeadlinePasses ==
  /\ mode = "ws" /\ call.state = "waiting" /\ sock = "open"
  /\ Fault
  /\ call' = [call EXCEPT !.state = "failed"]
  /\ UNCHANGED <<mode, sock, rpc, working, inbox>>

(* _reconnect_after_ws_error: the socket is closed, whatever state it was  *)
(* in, and the known URL is connected again.  When that fails the call     *)
(* fails and every later one meets a socket that is not connected.         *)
RetryOrRaiseBug ==
  /\ mode = "ws" /\ call.state = "broken"
  /\ sock' = "open" /\ inbox' = <<>>
  /\ call' = [call EXCEPT !.state = "sending", !.attempt = @ + 1]
  /\ UNCHANGED <<mode, rpc, working, faults>>

RetryOrRaise ==
  /\ mode = "ws" /\ call.state = "broken"
  /\ \/ /\ call.attempt >= Retries
        /\ call' = [call EXCEPT !.state = "failed"]
        /\ UNCHANGED <<sock, inbox, faults>>
     \/ /\ call.attempt < Retries
        /\ sock' = "open" /\ inbox' = <<>>
        /\ call' = [call EXCEPT !.state = "sending", !.attempt = @ + 1]
        /\ UNCHANGED faults
     \/ /\ call.attempt < Retries
        /\ Fault
        /\ sock' = "none" /\ inbox' = <<>>
        /\ call' = [call EXCEPT !.state = "failed"]
  /\ UNCHANGED <<mode, rpc, working>>

AoNext ==
  \/ PostMessage \/ AnswerPost \/ PostFails
  \/ SendOnce \/ CannotSend \/ AnswerFrame \/ ReadFrame
  \/ PeerCloses \/ ReceiveRaises \/ DeadlinePasses \/ RetryOrRaise

(* What the client does by itself, and what AO does with what it received. *)
AoProgress ==
  \/ PostMessage \/ AnswerPost \/ SendOnce \/ CannotSend \/ AnswerFrame
  \/ ReadFrame \/ (ReceiveRaises /\ sock = "dead") \/ RetryOrRaise

AoTypeOK ==
  /\ mode \in {"rest", "ws"}
  /\ sock \in {"open", "dead", "none"}
  /\ rpc \in Nat
  /\ call \in [state : CallStates, prompt : Nat, id : Nat, attempt : 0 .. Retries,
               copies : Nat, answers : Nat]
  /\ working \in Seq([id : Nat, prompt : Nat])
  /\ inbox \in Seq([id : Nat, prompt : Nat])
  /\ faults \in 0 .. MaxFaults

(* An answer the client hands out answers the prompt of this very call,    *)
(* also when an earlier call timed out on the same connection and its      *)
(* answer arrives during this one (request compares the JSON-RPC ids; an   *)
(* HTTP answer arrives on its own request).                                *)
AnswerIsOwn == call.state = "answered" => call.answers = call.prompt

(* A prompt reaches AO at most once over HTTP and at most once per attempt *)
(* over a WebSocket; AO may really have got all of these copies, since a   *)
(* lost answer looks to the client like a lost message.                    *)
CopiesBounded == call.copies <= IF mode = "rest" THEN 1 ELSE Retries + 1
=============================================================================
