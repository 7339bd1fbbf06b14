----------------------------- MODULE Workspace -----------------------------
(***************************************************************************)
(* The React workspace (ui/src): the store, useWorkspaceController and     *)
(* useActivitySocket in one browser tab, against the bridge.               *)
(*                                                                         *)
(* What the tab shows of a session comes from snapshots, which replace it, *)
(* from socket events and from what the user did, which are appended.      *)
(* Everything that awaits a fetch goes on with what it remembers; all it   *)
(* looks at again is, for an activation, whether another one was made      *)
(* since.                                                                  *)
(*                                                                         *)
(* Settings, diagnostics, drafts, titles, the runtime log and the          *)
(* inspector are left out.  An effect runs with the state change that      *)
(* causes it.                                                              *)
(***************************************************************************)
EXTENDS Requests, Sublists

VARIABLES
  cur,       (* currentSessionId                                            *)
  list,      (* the sessions of the side bar                                *)
  view,      (* per session: activity, progress and run status of the store *)
  effects,   (* useActivitySocket: closed sockets that did not hear of it   *)
             (* yet, and last the one of the current session, if there is one *)
  modal,     (* the session whose deletion was confirmed                    *)
  astray,    (* sessions whose view was last touched by an answer that was  *)
             (* overtaken, a fetch that failed or an event whose history is *)
             (* gone                                                        *)
  fresh      (* session ids not given out yet                               *)

tabVars == <<cur, list, view, effects, modal, astray, fresh>>
vars == <<index, streamVars, reqVars, tabVars>>
serverVars == <<index, streamVars>>

NoView == [feed |-> <<>>, prog |-> "absent", status |-> "not_started"]

Seen(q) == {q[i] : i \in DOMAIN q}

(* appendActivity and dedupeActivityItems.                                 *)
Added(feed, item) == IF item \in Seen(feed) THEN feed ELSE Append(feed, item)
Appended(s, item) == [view EXCEPT ![s].feed = Added(@, item)]

(* deriveActivityUpdatesFromProgress for a run of experts: an item for a   *)
(* completed result with built parts and one for a failed one.  A run that *)
(* itself failed has a retry card in place of the second (BridgeRuns has   *)
(* what becomes of it).  The items have no id: createActivityItem puts     *)
(* undefined in its place.                                                 *)
Completion == <<"completion">>
Failure == <<"failure">>

Derived(p, st) ==
  CASE p = "completed" -> <<Completion>>
    [] p = "failed" /\ st # "failed" -> <<Failure>>
    [] OTHER -> <<>>

(* applySessionSnapshot: the markers start anew with every snapshot.       *)
HydratedBug(old, b) ==
  [feed |-> SelectSeq(old.feed, LAMBDA i : i \notin Seen(b.hist)) \o b.hist
              \o Derived(b.prog, b.status),
   prog |-> b.prog, status |-> b.status]

Hydrated(old, b) ==
  [feed |-> b.hist \o Derived(b.prog, b.status), prog |-> b.prog, status |-> b.status]

-----------------------------------------------------------------------------
(* useActivitySocket.  An effect: its session, whether it was cleaned up,  *)
(* its socket, the pending reconnect and the fallback polling.             *)

NewEffect(s) ==
  [session |-> s, disposed |-> FALSE, sock |-> "connecting", timer |-> FALSE, poll |-> FALSE]

Live == effects # <<>> /\ ~effects[Len(effects)].disposed
Hook == effects[Len(effects)]
HookSet(e) == effects' = [effects EXCEPT ![Len(effects)] = e]

(* Cleaning up closes the socket and stops both timers; the socket's       *)
(* onclose comes later.                                                    *)
CleanedUp ==
  [i \in DOMAIN effects |->
     IF effects[i].disposed THEN effects[i]
     ELSE [effects[i] EXCEPT !.disposed = TRUE, !.timer = FALSE, !.poll = FALSE,
                             !.sock = IF @ = "none" THEN "none" ELSE "closed"]]

Waiting(es) == Among(es, {e \in Seen(es) : ~e.disposed \/ e.sock # "none"})

(* The tab turns to session s (or to none).                                *)
TurnTo(s) ==
  /\ cur' = s
  /\ IF s = cur THEN UNCHANGED <<effects, link, run>>
     ELSE /\ effects' = Waiting(CleanedUp) \o (IF s = NoSession THEN <<>> ELSE <<NewEffect(s)>>)
          /\ CutLink

SocketOpens ==
  /\ Live /\ Hook.sock = "connecting" /\ link.state = "shut"
  /\ HookSet([Hook EXCEPT !.sock = "live", !.poll = FALSE])
  /\ link' = Accepted(Hook.session)
  /\ UNCHANGED <<index, hist, status, prog, run, reqVars, cur, list, view, modal,
                 astray, fresh>>

(* The connection is lost or cannot be made.                               *)
SocketLost ==
  /\ Live /\ Hook.sock \in {"connecting", "live"}
  /\ Happens("lost")
  /\ HookSet([Hook EXCEPT !.sock = "closed"])
  /\ CutLink
  /\ UNCHANGED <<index, hist, status, prog, reqs, cur, list, view, modal, astray,
                 fresh>>

(* onclose: scheduleReconnect and the fallback polling, unless the effect  *)
(* was cleaned up.                                                         *)
SocketClosesBug(i) ==
  /\ effects[i].sock = "closed"
  /\ effects' = [effects EXCEPT ![i].sock = "none", ![i].timer = TRUE, ![i].poll = TRUE]
  /\ UNCHANGED <<serverVars, reqVars, cur, list, view, modal, astray, fresh>>

SocketCloses(i) ==
  /\ effects[i].sock = "closed"
  /\ effects' = IF effects[i].disposed
                THEN Waiting([effects EXCEPT ![i].sock = "none"])
                ELSE [effects EXCEPT ![i].sock = "none", ![i].timer = TRUE, ![i].poll = TRUE]
  /\ UNCHANGED <<serverVars, reqVars, cur, list, view, modal, astray, fresh>>

Reconnects ==
  /\ Live /\ Hook.timer
  /\ HookSet([Hook EXCEPT !.timer = FALSE, !.sock = "connecting"])
  /\ UNCHANGED <<serverVars, reqVars, cur, list, view, modal, astray, fresh>>

(* onPoll: a snapshot of the current session.                              *)
Polls ==
  /\ Live /\ Hook.poll
  /\ reqs = <<>>
  /\ Send(Request("state", Hook.session))
  /\ UNCHANGED <<serverVars, script, tabVars>>

(* handleSocketEnvelope.                                                   *)
FrameArrives ==
  /\ link.frames # <<>>
  /\ LET frame == Head(link.frames)
     IN  IF frame = <<"signal">>
         THEN /\ IF link.session = cur THEN Send(Request("state", cur)) ELSE UNCHANGED reqs
              /\ UNCHANGED <<view, astray>>
         ELSE /\ view' = Appended(link.session, frame)
              /\ astray' = IF run.lost /\ frame \notin Seen(hist[link.session])
                           THEN astray \cup {link.session} ELSE astray
              /\ UNCHANGED reqs
  /\ link' = [link EXCEPT !.frames = Tail(@)]
  /\ UNCHANGED <<index, hist, status, prog, run, script, cur, list, effects, modal, fresh>>

-----------------------------------------------------------------------------
(* Answers.                                                                *)

Answered(k, kind) == reqs[k].mine /\ reqs[k].kind = kind /\ reqs[k].step = "answered"
Failed(k, kind) == reqs[k].mine /\ reqs[k].kind = kind /\ reqs[k].step = "failed"
Settled(k, kind) == Answered(k, kind) \/ Failed(k, kind)

(* Requests whose answers put something in the place of what is shown.     *)
Replaces(r) == r.kind \in {"state", "start", "delete"}

(* The requests under way once request k has come to its end: the answers  *)
(* to earlier ones for the same session are now late.                      *)
Overtaken(k) ==
  [j \in DOMAIN Without(k) |->
     IF j < k /\ reqs[j].session = reqs[k].session /\ Replaces(reqs[j])
     THEN [reqs[j] EXCEPT !.late = TRUE] ELSE Without(k)[j]]

(* activateSession takes the next number of sessionActivationRequestRef:   *)
(* of the activations under way only the last one has it.                  *)
Outdated(rs) ==
  [i \in DOMAIN rs |-> IF rs[i].act = "last" THEN [rs[i] EXCEPT !.act = "before"] ELSE rs[i]]

(* The sessions gone astray once the answer of r is applied.               *)
Astray(r) == IF r.late THEN astray \cup {r.session} ELSE astray

Activate(rs, s, remote) ==
  /\ TurnTo(s)
  /\ reqs' = Append(Outdated(rs), [Request("state", s) EXCEPT !.act = "last", !.remote = remote])

Deactivate(rs) == TurnTo(NoSession) /\ reqs' = Outdated(rs)

(* syncCurrentSessionState, and the rest of activateSession for one that   *)
(* was not followed by another.                                            *)
SnapshotApplies(k) ==
  LET r == reqs[k]
  IN  /\ Answered(k, "state") /\ r.act # "before"
      /\ view' = [view EXCEPT ![r.session] = Hydrated(@, r.body)]
      /\ astray' = IF r.late THEN astray \cup {r.session} ELSE astray \ {r.session}
      /\ reqs' = IF r.remote THEN Append(Overtaken(k), Request("current", r.session))
                 ELSE Overtaken(k)
      /\ UNCHANGED <<serverVars, script, cur, list, effects, modal, fresh>>

SnapshotDropped(k) ==
  /\ Settled(k, "state") /\ reqs[k].act = "before"
  /\ reqs' = Without(k)
  /\ UNCHANGED <<serverVars, script, tabVars>>

SnapshotFails(k) ==
  /\ Failed(k, "state") /\ reqs[k].act # "before"
  /\ reqs' = Overtaken(k)
  /\ astray' = astray \cup {reqs[k].session}
  /\ UNCHANGED <<serverVars, script, cur, list, view, effects, modal, fresh>>

(* appendOptimisticActivity, for the session the store is at by now: shown *)
(* at once, then sent; the sessions in rest are started after that.        *)
Notes(views, rs, n, rest) ==
  /\ view' = [views EXCEPT ![cur].feed = Added(@, Note(n))]
  /\ reqs' = Append(rs, [Request("append", cur) EXCEPT !.note = n, !.rest = rest])

(* markSessionModified puts the session on top of the side bar, then it is *)
(* started.                                                                *)
Launches(rs, s) == list' = list \cup {s} /\ reqs' = Append(rs, Request("start", s))

(* persistWorkspace swallows a failure; handleStartRun goes on with the    *)
(* user's own activity item, if there is a session to put it in.           *)
SaveReturns(k) ==
  LET r == reqs[k]
  IN  /\ Settled(k, "save")
      /\ \/ r.note = 0 /\ reqs' = Without(k) /\ UNCHANGED <<view, list>>
         \/ /\ r.note # 0 /\ cur # NoSession
            /\ Notes(view, Without(k), 1, {r.session}) /\ UNCHANGED list
         \/ /\ r.note # 0 /\ cur = NoSession
            /\ Launches(Without(k), r.session) /\ UNCHANGED view
      /\ UNCHANGED <<serverVars, script, cur, effects, modal, astray, fresh>>

(* So does persistActivity.                                                *)
AppendReturns(k) ==
  LET r == reqs[k]
  IN  /\ Settled(k, "append")
      /\ astray' = IF Failed(k, "append") THEN astray \cup {r.session} ELSE astray
      /\ \/ \E s \in r.rest : Launches(Without(k), s)
         \/ r.rest = {} /\ reqs' = Without(k) /\ UNCHANGED list
      /\ UNCHANGED <<serverVars, script, cur, view, effects, modal, fresh>>

(* A refused start leaves a second item, again where the store is by now.  *)
StartReturns(k) ==
  LET r == reqs[k]
      shown == [view EXCEPT ![r.session].status = r.body.status]
  IN  /\ Answered(k, "start")
      /\ astray' = Astray(r)
      /\ \/ /\ r.body.status = "failed" /\ cur # NoSession
            /\ Notes(shown, Overtaken(k), 2, {})
         \/ /\ r.body.status = "failed" => cur = NoSession
            /\ view' = shown /\ reqs' = Overtaken(k)
      /\ UNCHANGED <<serverVars, script, cur, list, effects, modal, fresh>>

CreateReturns(k) ==
  LET s == reqs[k].session
  IN  /\ Answered(k, "create")
      /\ list' = list \cup {s}
      /\ view' = [view EXCEPT ![s] = NoView]
      /\ Activate(Without(k), s, TRUE)
      /\ UNCHANGED <<index, hist, status, prog, script, modal, astray, fresh>>

(* confirmBatchDeleteSessions deletes one session after the other; what is *)
(* current stays as it is until the last of them is gone.                  *)
BatchGoesOn(k) ==
  LET r == reqs[k]
  IN  /\ Answered(k, "delete") /\ r.rest # {}
      /\ list' = list \ {r.session}
      /\ view' = [view EXCEPT ![r.session] = NoView]
      /\ \E next \in r.rest :
           reqs' = Append(Without(k), [Request("delete", next) EXCEPT
                                         !.note = r.note, !.rest = r.rest \ {next}])
      /\ astray' = Astray(r)
      /\ UNCHANGED <<serverVars, script, cur, effects, modal, fresh>>

(* confirmDeleteSession, and the end of a batch; note # 0: the current     *)
(* session was to be deleted when the user confirmed.                      *)
DeleteReturns(k) ==
  LET s == reqs[k].session
  IN  /\ Answered(k, "delete") /\ reqs[k].rest = {}
      /\ list' = list \ {s}
      /\ view' = [view EXCEPT ![s] = NoView]
      /\ modal' = NoSession
      /\ \/ /\ reqs[k].note = 0
            /\ reqs' = Without(k) /\ UNCHANGED <<cur, effects, link, run>>
         \/ /\ reqs[k].note # 0
            /\ \E next \in list' : Activate(Without(k), next, TRUE)
         \/ reqs[k].note # 0 /\ list' = {} /\ Deactivate(Without(k))
      /\ astray' = Astray(reqs[k])
      /\ UNCHANGED <<index, hist, status, prog, script, fresh>>

(* What only changes the server, and what fails without more ado.  After a *)
(* deletion that fails the dialog stays open; a batch ends there, and the  *)
(* current session may be one of those it deleted before.                  *)
NothingFollows(k) ==
  /\ Settled(k, "current") \/ \E kind \in {"create", "boot", "start", "delete"} : Failed(k, kind)
  /\ reqs' = Without(k)
  /\ UNCHANGED <<serverVars, script, tabVars>>

(* initializeWorkspaceApp: mergeSessions keeps every session the tab knew, *)
(* resolveCurrentSessionId prefers the tab's own current session.          *)
BootReturns(k) ==
  LET b == reqs[k].body
      merged == list \cup b.listed
      resolved == IF cur \in merged THEN {cur}
                  ELSE IF b.current \in merged THEN {b.current} ELSE merged
  IN  /\ Answered(k, "boot")
      /\ list' = merged
      /\ \/ \E s \in resolved : Activate(Without(k), s, FALSE)
         \/ resolved = {} /\ Deactivate(Without(k))
      /\ UNCHANGED <<index, hist, status, prog, script, view, modal, astray, fresh>>

Returns ==
  \E k \in DOMAIN reqs :
    \/ SnapshotApplies(k) \/ SnapshotDropped(k) \/ SnapshotFails(k)
    \/ SaveReturns(k) \/ AppendReturns(k) \/ StartReturns(k)
    \/ CreateReturns(k) \/ BatchGoesOn(k) \/ DeleteReturns(k)
    \/ NothingFollows(k) \/ BootReturns(k)

-----------------------------------------------------------------------------
(* What the user does; the dialog of a deletion covers the page until the  *)
(* answer comes or the user closes it.                                     *)

Gesture(name) == Happens(name) /\ Room
Touches(name) == Gesture(name) /\ modal = NoSession

Selects ==
  /\ Touches("selects")
  /\ \E s \in list \ {cur} : Activate(reqs, s, TRUE)
  /\ UNCHANGED <<index, hist, status, prog, list, view, modal, astray, fresh>>

(* The id is the bridge's choice.                                          *)
Creates ==
  /\ Touches("creates")
  /\ \E s \in fresh : fresh' = fresh \ {s} /\ Send(Request("create", s))
  /\ UNCHANGED <<serverVars, cur, list, view, effects, modal, astray>>

Types ==
  /\ Touches("types") /\ cur # NoSession
  /\ list' = list \cup {cur}
  /\ Send(Request("save", cur))
  /\ UNCHANGED <<serverVars, cur, view, effects, modal, astray, fresh>>

(* Starting twice is BridgeRuns' matter.                                   *)
Starts ==
  /\ Touches("starts") /\ cur \in list
  /\ Send([Request("save", cur) EXCEPT !.note = 1])
  /\ UNCHANGED <<serverVars, cur, list, view, effects, modal, astray, fresh>>

Deletes ==
  /\ Touches("deletes")
  /\ \E s \in list :
       modal' = s /\ Send([Request("delete", s) EXCEPT !.note = IF s = cur THEN 1 ELSE 0])
  /\ UNCHANGED <<serverVars, cur, list, view, effects, astray, fresh>>

(* Any of the listed sessions may be selected.                             *)
Batches ==
  /\ Touches("batches")
  /\ \E chosen \in (SUBSET list) \ {{}} : \E s \in chosen :
       /\ modal' = s
       /\ Send([Request("delete", s) EXCEPT !.note = IF cur \in chosen THEN 1 ELSE 0,
                                            !.rest = chosen \ {s}])
  /\ UNCHANGED <<serverVars, cur, list, view, effects, astray, fresh>>

(* The dialog can be closed while the request is under way, which goes on. *)
Cancels ==
  /\ modal # NoSession /\ modal' = NoSession
  /\ UNCHANGED <<serverVars, reqVars, cur, list, view, effects, astray, fresh>>

(* Reloading the page keeps what is in local storage: the list, the        *)
(* current session and the activity.  The bridge goes on with the requests *)
(* it has.                                                                 *)
Reloads ==
  /\ Gesture("reloads")
  /\ modal' = NoSession
  /\ view' = [s \in Sessions |-> [NoView EXCEPT !.feed = view[s].feed]]
  /\ effects' = IF cur = NoSession THEN <<>> ELSE <<NewEffect(cur)>>
  /\ CutLink
  /\ LET busy(r) == /\ r.kind \in IndexKinds \cup {"append", "start"}
                    /\ r.step \notin {"answered", "failed"}
         left == Among(reqs, {r \in Seen(reqs) : busy(r)})
     IN  reqs' = Append([i \in DOMAIN left |-> [left[i] EXCEPT !.mine = FALSE]],
                        Request("boot", NoSession))
  /\ UNCHANGED <<index, hist, status, prog, cur, list, astray, fresh>>

-----------------------------------------------------------------------------
Init ==
  /\ \E s \in Sessions :
       index = [listed |-> {s}, current |-> s] /\ fresh = Sessions \ {s}
  /\ hist = [s \in Sessions |-> <<>>]
  /\ status = [s \in Sessions |-> "not_started"]
  /\ prog = [s \in Sessions |-> "absent"]
  /\ run = NoRun /\ link = NoLink
  /\ cur = index.current /\ list = index.listed
  /\ reqs = <<[Request("state", cur) EXCEPT !.act = "last"]>> /\ script \in Scripts
  /\ view = [s \in Sessions |-> NoView]
  /\ effects = <<NewEffect(cur)>> /\ modal = NoSession /\ astray = {}

(* What goes on by itself.                                                 *)
Progress ==
  \/ RunNext /\ UNCHANGED <<index, reqVars, tabVars>>
  \/ HandlerNext /\ UNCHANGED <<index, reqVars, tabVars>>
  \/ Serve /\ UNCHANGED tabVars
  \/ (\E k \in DOMAIN reqs : Unread(k)) /\ UNCHANGED tabVars
  \/ Returns
  \/ SocketOpens \/ Reconnects \/ FrameArrives
  \/ \E i \in DOMAIN effects : SocketCloses(i)

Next ==
  \/ Progress
  \/ (\E k \in DOMAIN reqs : RequestFails(k)) /\ UNCHANGED tabVars
  \/ SocketLost \/ Polls
  \/ Selects \/ Creates \/ Types \/ Starts \/ Deletes \/ Batches \/ Cancels \/ Reloads

Spec == Init /\ [][Next]_vars

-----------------------------------------------------------------------------
TypeOK ==
  /\ index \in [listed : SUBSET Sessions, current : Sessions \cup {NoSession}]
  /\ \A s \in Sessions :
       /\ status[s] \in {"not_started", "running", "completed", "failed"}
       /\ prog[s] \in {"absent", "torn", "open", "completed", "failed"}
       /\ view[s].status \in {"not_started", "running", "completed", "failed"}
       /\ view[s].prog \in {"absent", "open", "completed", "failed"}
  /\ link.state \in {"shut", "handshake", "serving"}
  /\ Len(reqs) <= MaxRequests
  /\ cur \in Sessions \cup {NoSession} /\ modal \in Sessions \cup {NoSession}
  /\ list \subseteq Sessions /\ astray \subseteq Sessions /\ fresh \subseteq Sessions
  /\ script \subseteq Happenings

(* What a session's page should show: what a snapshot taken now would.     *)
Truth(s) ==
  Hydrated(NoView, [status |-> status[s], prog |-> Readable(prog[s]), hist |-> hist[s]])

Quiet(s) ==
  /\ link.state = "serving" /\ link.session = s
  /\ link.queue = <<>> /\ link.frames = <<>> /\ link.told
  /\ \A k \in DOMAIN reqs :
       reqs[k].mine /\ reqs[k].session = s => reqs[k].kind \in {"current", "create"}
  /\ ~(run.session = s /\ run.step \in {"publish", "put"})

(* Nothing the bridge knows is missed for good: when the socket has        *)
(* nothing more to say and no answer is awaited, the current session is    *)
(* shown as it is on the bridge, its activity in the same order, however   *)
(* events, subscriptions, half-written files, snapshots and session        *)
(* switches interleave.  Three things the code does not guard against are  *)
(* excepted: the answer of an earlier request, a deletion's too, applied   *)
(* after that of a later one, and a fetch that failed                      *)
(* (syncCurrentSessionState looks only at the activation number); and an   *)
(* event of a run whose session was deleted under it (appendActivity puts  *)
(* it in what is shown, no file keeps it).                                 *)
ShownAsItIs ==
  cur # NoSession /\ Quiet(cur) /\ cur \notin astray => view[cur] = Truth(cur)

(* No activity is shown twice, though it reaches the tab over the socket,  *)
(* in a snapshot, as the tab's own optimistic item and, for what is        *)
(* derived from a run's result, anew with every snapshot.                  *)
NoItemTwice ==
  \A s \in Sessions : \A i, j \in DOMAIN view[s].feed :
    view[s].feed[i] = view[s].feed[j] => i = j

(* The tab listens in exactly one way to the session it shows: one effect, *)
(* and of it either a socket or a pending reconnect, with polling as long  *)
(* as a reconnect is pending and none beside a live socket.  An effect     *)
(* that was cleaned up leaves no timer behind, whatever its socket reports *)
(* later.                                                                  *)
OneListener ==
  /\ cur # NoSession => Live /\ Hook.session = cur
  /\ \A i \in DOMAIN effects :
       LET e == effects[i]
       IN  IF e.disposed THEN ~e.timer /\ ~e.poll
           ELSE /\ i = Len(effects) /\ cur # NoSession
                /\ e.timer <=> (e.sock = "none")
                /\ e.timer => e.poll
                /\ e.sock = "live" => ~e.poll

=============================================================================
