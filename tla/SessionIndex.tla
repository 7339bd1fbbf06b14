---------------------------- MODULE SessionIndex ----------------------------
(***************************************************************************)
(* The list of sessions the bridge keeps in ui_state.json (gui/bridge.py:  *)
(* create_session, save_session_workspace, set_current_session, the first  *)
(* half of delete_session).  Every request is served by a thread of its    *)
(* own; each of these reads the whole file, changes its copy and writes    *)
(* the whole file back (to a temporary file that replaces it), all under   *)
(* ui_state_lock.  Titles, drafts and time stamps are left out.            *)
(***************************************************************************)
EXTENDS Naturals, Sequences, FiniteSets

CONSTANTS Sessions, NoSession

ASSUME NoSessionAssumption == NoSession \notin Sessions

VARIABLE index   (* ui_state.json: the sessions listed, current_session_id  *)

IndexKinds == {"create", "save", "current", "delete"}

(* A new session and a saved one are in the list and current; a save does  *)
(* not look whether its session was there, nor does set_current_session.   *)
Listed(s, ix) == [listed |-> ix.listed \cup {s}, current |-> s]
MadeCurrent(s, ix) == [ix EXCEPT !.current = s]

(* After the current session is deleted the most recent one is current.    *)
Heirs(s, ix) ==
  LET left == ix.listed \ {s}
  IN  IF ix.current # s THEN {ix.current} ELSE IF left = {} THEN {NoSession} ELSE left

Unlisted(s, ix) ==
  {[listed |-> ix.listed \ {s}, current |-> c] : c \in Heirs(s, ix)}

(* What a request makes of the file it read.                               *)
Updates(kind, s, ix) ==
  CASE kind \in {"create", "save"} -> {Listed(s, ix)}
    [] kind = "current" -> {MadeCurrent(s, ix)}
    [] kind = "delete" -> Unlisted(s, ix)

(* The file is replaced: copy is what the request read when it took the    *)
(* lock.                                                                   *)
WriteIndex(kind, s, copy) == index' \in Updates(kind, s, copy)

(* Requests change the list one after the other: whatever threads serve    *)
(* them at the same time, each write of ui_state.json is the change of one *)
(* request to the file as it was, so that no session that was created or   *)
(* saved is lost and none that was deleted comes back with the copy of     *)
(* another request.                                                        *)
UpdatesAreSerial ==
  [][\E kind \in IndexKinds, s \in Sessions : index' \in Updates(kind, s, index)]_index
=============================================================================
