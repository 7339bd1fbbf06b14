------------------------------ MODULE Requests ------------------------------
(***************************************************************************)
(* The HTTP requests between the browser and the bridge (hooks/            *)
(* useBridgeApi.ts, BridgeHandler in scripts/run_ui_bridge.py): fetches    *)
(* that are under way, each served by a thread of its own, in any order    *)
(* and in several steps, their answers arriving in any order or not at     *)
(* all.                                                                    *)
(***************************************************************************)
EXTENDS ActivityStream

CONSTANT
  MaxRequests    (* bound: the requests under way at one time               *)

ASSUME RequestsAssumption == MaxRequests \in Nat \ {0}

VARIABLE
  reqs     (* the requests under way, in the order they were sent           *)

reqVars == <<reqs, script>>
NoBody == [none |-> TRUE]

(* mine: the page that sent it is still there; act: the activation of the  *)
(* session it belongs to, if any, was the last one or one before; remote:  *)
(* activateSession goes on with it; note: handleStartRun goes on with its  *)
(* answer and this activity item; rest: the sessions the batch deletion    *)
(* goes on with, or the one handleStartRun goes on to start; late: the     *)
(* answer to a later request for this session was already applied.         *)
Request(kind, s) ==
  [kind |-> kind, session |-> s, mine |-> TRUE, act |-> "none", remote |-> FALSE,
   note |-> 0, rest |-> {}, late |-> FALSE, step |-> "sent", body |-> NoBody]

Happens(name) == name \in script /\ script' = script \ {name}

Room == Len(reqs) < MaxRequests
Send(r) == Room /\ reqs' = Append(reqs, r)

Without(k) == SubSeq(reqs, 1, k - 1) \o SubSeq(reqs, k + 1, Len(reqs))
Step(k, step, body) == reqs' = [reqs EXCEPT ![k].step = step, ![k].body = body]

-----------------------------------------------------------------------------
(* get_session_state reads one thing after the other, the run status       *)
(* first; a progress file that stays unreadable for all of _read_json's    *)
(* attempts counts as empty.                                               *)
ReadableBug(p) == p

Readable(p) == IF p = "torn" THEN "absent" ELSE p

ServeStatus(k) ==
  /\ reqs[k].kind = "state" /\ reqs[k].step = "sent"
  /\ Step(k, "reading", [status |-> status[reqs[k].session]])
  /\ UNCHANGED <<index, streamVars>>

ServeProgress(k) ==
  /\ reqs[k].kind = "state" /\ reqs[k].step = "reading"
  /\ Step(k, "read", [status |-> reqs[k].body.status,
                      prog |-> Readable(prog[reqs[k].session])])
  /\ UNCHANGED <<index, streamVars>>

ServeHistory(k) ==
  /\ reqs[k].kind = "state" /\ reqs[k].step = "read"
  /\ Step(k, "answered", [status |-> reqs[k].body.status, prog |-> reqs[k].body.prog,
                          hist |-> hist[reqs[k].session]])
  /\ UNCHANGED <<index, streamVars>>

(* bootstrap reads current_session_id, then list_sessions the list, which  *)
(* also finds every directory with a progress.json.                        *)
Locked == \E j \in DOMAIN reqs : reqs[j].step = "locked"

ServeBoot(k) ==
  /\ reqs[k].kind = "boot" /\ reqs[k].step = "sent" /\ ~Locked
  /\ Step(k, "reading", [current |-> index.current])
  /\ UNCHANGED <<index, streamVars>>

ServeList(k) ==
  /\ reqs[k].kind = "boot" /\ reqs[k].step = "reading" /\ ~Locked
  /\ Step(k, "answered", [current |-> reqs[k].body.current,
                          listed |-> index.listed \cup {s \in Sessions : prog[s] # "absent"}])
  /\ UNCHANGED <<index, streamVars>>

ServeAppend(k) ==
  /\ reqs[k].kind = "append" /\ reqs[k].step = "sent"
  /\ AppendHistory(reqs[k].session, Note(reqs[k].note))
  /\ CursorMoves(reqs[k].session)
  /\ Step(k, "answered", reqs[k].body)
  /\ UNCHANGED <<index, status, prog, run>>

(* start_run, as far as the browser sees it; BridgeRuns has the rest.      *)
(* Without a Blender MCP server the start is refused.                      *)
ServeStart(k) ==
  LET s == reqs[k].session
  IN  /\ reqs[k].kind = "start" /\ reqs[k].step = "sent"
      /\ \E st \in {"running", "failed"} :
           /\ st = "failed" => "refused" \in script
           /\ status' = [status EXCEPT ![s] = st]
           /\ run' = IF st = "running" THEN [NoRun EXCEPT !.session = s, !.step = "talk"]
                     ELSE run
           /\ Step(k, "answered", [status |-> st])
      /\ CursorMoves(s)
      /\ UNCHANGED <<index, hist, prog>>

(* The requests that change the list, in two steps: under ui_state_lock    *)
(* the file is read and then written.                                      *)
ServeLockedBug(k) ==
  /\ reqs[k].kind \in IndexKinds /\ reqs[k].step = "sent"
  /\ Step(k, "locked", index)
  /\ UNCHANGED <<index, streamVars>>

ServeLocked(k) ==
  /\ reqs[k].kind \in IndexKinds /\ reqs[k].step = "sent" /\ ~Locked
  /\ Step(k, "locked", index)
  /\ UNCHANGED <<index, streamVars>>

ServeWrite(k) ==
  LET r == reqs[k]
  IN  /\ r.step = "locked"
      /\ WriteIndex(r.kind, r.session, r.body)
      /\ Step(k, IF r.kind = "delete" THEN "wiping" ELSE "answered", NoBody)
      /\ UNCHANGED streamVars

ServeWipe(k) ==
  /\ reqs[k].step = "wiping"
  /\ WipeSession(reqs[k].session)
  /\ Step(k, "dropping", reqs[k].body)
  /\ UNCHANGED index

ServeDrop(k) ==
  /\ reqs[k].step = "dropping"
  /\ DropSubscribers(reqs[k].session)
  /\ Step(k, "answered", reqs[k].body)
  /\ UNCHANGED index

Serve ==
  /\ \E k \in DOMAIN reqs :
       \/ ServeStatus(k) \/ ServeProgress(k) \/ ServeHistory(k)
       \/ ServeBoot(k) \/ ServeList(k) \/ ServeAppend(k) \/ ServeStart(k)
       \/ ServeLocked(k) \/ ServeWrite(k) \/ ServeWipe(k) \/ ServeDrop(k)
  /\ UNCHANGED script

(* A request that never reaches the bridge, or whose answer does not come  *)
(* back: the fetch rejects.                                                *)
RequestFails(k) ==
  /\ Happens("fails")
  /\ reqs[k].mine /\ reqs[k].step \in {"sent", "answered"}
  /\ Step(k, "failed", reqs[k].body)
  /\ UNCHANGED <<index, streamVars>>

(* The answer to a request of a page that was reloaded.                    *)
Unread(k) ==
  /\ ~reqs[k].mine /\ reqs[k].step = "answered"
  /\ reqs' = Without(k)
  /\ UNCHANGED <<index, streamVars, script>>
=============================================================================
