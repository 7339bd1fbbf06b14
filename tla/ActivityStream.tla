--------------------------- MODULE ActivityStream ---------------------------
(***************************************************************************)
(* What the bridge knows about a session's run and how it is pushed to the *)
(* browser (gui/bridge.py, scripts/run_ui_bridge.py): activity.jsonl, the  *)
(* run status, progress.json, and the thread that serves an activity       *)
(* WebSocket.                                                              *)
(*                                                                         *)
(* on_event, called by the thread of the run, first appends an activity    *)
(* item to the file, then copies the subscribers under stream_lock and     *)
(* then puts the event into their queues.  The WebSocket thread forwards   *)
(* its queue and looks ten times a second whether the cursor of the        *)
(* session (status and the stamps of its files) has changed; if so it asks *)
(* the browser to fetch a snapshot.                                        *)
(*                                                                         *)
(* The sequence numbers of stream events, which threads draw from a        *)
(* counter without a lock, are left out: no code looks at them, and items  *)
(* are told apart by the event ids the pipeline gives them.                *)
(***************************************************************************)
EXTENDS SessionIndex

CONSTANTS
  MaxEvents,   (* bound: the events of the run                              *)
  MaxWrites,   (* bound: the times it writes progress.json                  *)
  MaxFrames,   (* bound: the frames on their way to the browser             *)
  Scripts      (* bound: what may happen in one behaviour                   *)

(* What the user does and the network does wrong, each at most once, and   *)
(* what the run does: it emits events, writes its file, raises or is       *)
(* refused.                                                                *)
Happenings ==
  {"selects", "creates", "types", "starts", "deletes", "batches", "reloads", "lost",
   "fails", "emits", "writes", "raises", "refused"}

ASSUME ScriptsAssumption == Scripts \subseteq SUBSET Happenings

(* _read_activity_history reads the last 500 lines of activity.jsonl.  A   *)
(* history here has at most the events of the run and two items of the     *)
(* tab, and stays below that.                                              *)
HistoryLimit == 500

ASSUME HistoryAssumption == MaxEvents \in Nat /\ MaxEvents + 2 <= HistoryLimit

VARIABLES
  hist,     (* activity.jsonl of every session                              *)
  status,   (* run_statuses: workflow_status of every session               *)
  prog,     (* progress.json: "absent", "torn" (being written), or what it  *)
            (* says: "open" (nothing yet, a degraded or a partial result),  *)
            (* "completed" (with a built part) or "failed"                  *)
  run,      (* the thread of the run: session, step, events, writes,        *)
            (* reached, and lost: its session was deleted, with what it had *)
            (* emitted                                                      *)
  link,     (* the activity WebSocket and the thread that serves it         *)
  script    (* what may still happen in this behaviour                      *)

streamVars == <<hist, status, prog, run, link>>

Event(n) == <<"event", n>>
Note(n) == <<"user", n>>

NoRun == [session |-> NoSession, step |-> "off", events |-> 0, writes |-> 0,
          reached |-> FALSE, lost |-> FALSE]

(* A link: "shut" without a connection, "handshake" until its queue is     *)
(* registered, then "serving"; whether it is subscribed, its queue, whether *)
(* the last cursor the thread saw is still that of the session, and the    *)
(* frames on their way to the browser.                                     *)
NoLink ==
  [state |-> "shut", session |-> NoSession, subscribed |-> FALSE, queue |-> <<>>,
   told |-> FALSE, frames |-> <<>>]

(* _compute_server_cursor: the run status and the stamps of the files it   *)
(* lists, of which activity.jsonl and progress.json are modelled (the calls *)
(* of the MCP tools have a file that is not in the cursor, nor modelled).  *)
CursorMoved(s) == IF link.session = s THEN [link EXCEPT !.told = FALSE] ELSE link
CursorMoves(s) == link' = CursorMoved(s)

-----------------------------------------------------------------------------
(* The run of one session.                                                 *)

AppendHistory(s, item) == hist' = [hist EXCEPT ![s] = Append(@, item)]

RunEmits ==
  /\ run.step = "talk" /\ run.events < MaxEvents /\ "emits" \in script
  /\ AppendHistory(run.session, Event(run.events + 1))
  /\ run' = [run EXCEPT !.events = @ + 1, !.step = "publish"]
  /\ CursorMoves(run.session)
  /\ UNCHANGED <<status, prog>>

RunPublishes ==
  /\ run.step = "publish"
  /\ run' = [run EXCEPT !.step = "put",
                        !.reached = link.subscribed /\ link.session = run.session]
  /\ UNCHANGED <<hist, status, prog, link>>

(* A connection closed since then has left its queue behind.               *)
RunPuts ==
  /\ run.step = "put"
  /\ link' = IF run.reached THEN [link EXCEPT !.queue = Append(@, Event(run.events))] ELSE link
  /\ run' = [run EXCEPT !.step = "talk", !.reached = FALSE]
  /\ UNCHANGED <<hist, status, prog>>

(* The file is written in place, again and again: open("w") empties it.    *)
(* What was to be written is lost when the directory is removed before.    *)
RunOpensProgress ==
  /\ run.step = "talk" /\ run.writes < MaxWrites /\ "writes" \in script
  /\ prog' = [prog EXCEPT ![run.session] = "torn"]
  /\ run' = [run EXCEPT !.step = "write", !.writes = @ + 1]
  /\ CursorMoves(run.session)
  /\ UNCHANGED <<hist, status>>

RunWritesProgress ==
  /\ run.step = "write"
  /\ \E says \in {"open", "completed", "failed"} :
       /\ prog' = [prog EXCEPT ![run.session] = IF @ = "torn" THEN says ELSE @]
       /\ \/ says = "open" /\ run' = [run EXCEPT !.step = "talk"]
          \/ run' = [run EXCEPT !.step = "end"]
  /\ CursorMoves(run.session)
  /\ UNCHANGED <<hist, status>>

(* A run that returns is "completed", whatever its result says; one that   *)
(* raises is "failed", wherever it was: while it writes the file, too, or  *)
(* after that (the conversation is closed last).                           *)
RunEnds ==
  /\ \/ run.step = "end" /\ status' = [status EXCEPT ![run.session] = "completed"]
     \/ /\ run.step \in {"talk", "write", "end"} /\ "raises" \in script
        /\ status' = [status EXCEPT ![run.session] = "failed"]
  /\ run' = [run EXCEPT !.step = "over"]
  /\ CursorMoves(run.session)
  /\ UNCHANGED <<hist, prog>>

RunNext ==
  \/ RunEmits \/ RunPublishes \/ RunPuts
  \/ RunOpensProgress \/ RunWritesProgress \/ RunEnds

-----------------------------------------------------------------------------
(* ActivityWebSocketHandler.handle.                                        *)

AcceptedBug(s) == [NoLink EXCEPT !.state = "handshake", !.session = s, !.told = TRUE]

Accepted(s) == [NoLink EXCEPT !.state = "handshake", !.session = s]

(* The connection is gone; events copied for it go to a queue nobody       *)
(* reads.                                                                  *)
CutLink == link' = NoLink /\ run' = [run EXCEPT !.reached = FALSE]

HandlerRegisters ==
  /\ link.state = "handshake"
  /\ link' = [link EXCEPT !.state = "serving", !.subscribed = TRUE]
  /\ UNCHANGED <<hist, status, prog, run>>

Serving == link.state = "serving" /\ Len(link.frames) < MaxFrames

HandlerForwards ==
  /\ Serving /\ link.queue # <<>>
  /\ link' = [link EXCEPT !.queue = Tail(@), !.frames = Append(@, Head(link.queue))]
  /\ UNCHANGED <<hist, status, prog, run>>

(* A new connection is told to fetch at once.                              *)
HandlerSignals ==
  /\ Serving /\ ~link.told
  /\ link' = [link EXCEPT !.told = TRUE, !.frames = Append(@, <<"signal">>)]
  /\ UNCHANGED <<hist, status, prog, run>>

HandlerNext == HandlerRegisters \/ HandlerForwards \/ HandlerSignals

(* delete_session, after the list: the directory of the session goes; a    *)
(* run goes on.                                                            *)
WipeSession(s) ==
  /\ hist' = [hist EXCEPT ![s] = <<>>]
  /\ prog' = [prog EXCEPT ![s] = "absent"]
  /\ CursorMoves(s)
  /\ run' = IF run.session = s THEN [run EXCEPT !.lost = TRUE] ELSE run
  /\ UNCHANGED status

(* Then its subscribers are dropped; their connections stay open.          *)
DropSubscribers(s) ==
  /\ link' = IF link.session = s THEN [link EXCEPT !.subscribed = FALSE] ELSE link
  /\ UNCHANGED <<hist, status, prog, run>>

=============================================================================
