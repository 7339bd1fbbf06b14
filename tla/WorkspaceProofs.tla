-------------------------- MODULE WorkspaceProofs --------------------------
(***************************************************************************)
(* What the tab of the React workspace promises, for every number of       *)
(* sessions, of requests under way and of events, and whatever the user,   *)
(* the network and the threads of the bridge do: it listens to the session *)
(* it shows and to no other, shows no activity twice, and in the end shows *)
(* the session as the bridge knows it; and the bridge changes its list of  *)
(* sessions one request after the other.                                   *)
(*                                                                         *)
(* The requests under way are a list from which answered ones are taken    *)
(* and to which new ones are added, so that a request has another index    *)
(* after a step.  What the proofs need of that is Comes: where in the list *)
(* before the step each request of the list after it was.                  *)
(*                                                                         *)
(* That the page ends with the truth is argued in the last part: at any    *)
(* time a snapshot was asked for since the session changed last, or what   *)
(* is shown, with the frames still to come, is as the bridge has it and    *)
(* nothing older is on its way (Covered).                                  *)
(***************************************************************************)
EXTENDS Workspace, SublistProofs, SequenceTheorems

-----------------------------------------------------------------------------
(* The types of what is in the requests, the socket and the views.         *)
Statuses == {"not_started", "running", "completed", "failed"}
ReadProgress == {"absent", "open", "completed", "failed"}
Progresses == ReadProgress \cup {"torn"}
Results == {Completion, Failure}
Items == ({"event"} \X Nat) \cup ({"user"} \X Nat) \cup Results
Indexes == [listed : SUBSET Sessions, current : Sessions \cup {NoSession}]
SnapshotBodies == [status : Statuses, prog : ReadProgress, hist : Seq(Items)]
StatusBodies == [status : Statuses]
ProgressBodies == [status : Statuses, prog : ReadProgress]
CurrentBodies == [current : Sessions \cup {NoSession}]
BootBodies == [current : Sessions \cup {NoSession}, listed : SUBSET Sessions]
Bodies ==
  {NoBody} \cup Indexes \cup StatusBodies \cup ProgressBodies \cup SnapshotBodies
    \cup CurrentBodies \cup BootBodies
Kinds == IndexKinds \cup {"state", "boot", "append", "start"}
Steps == {"sent", "reading", "read", "locked", "wiping", "dropping", "answered", "failed"}

Fetches ==
  [kind : Kinds, session : Sessions \cup {NoSession}, mine : BOOLEAN,
   act : {"none", "last", "before"}, remote : BOOLEAN, note : 0 .. 2,
   rest : SUBSET Sessions, late : BOOLEAN, step : Steps, body : Bodies]

Views == [feed : Seq(Items), prog : ReadProgress, status : Statuses]

Effects ==
  [session : Sessions, disposed : BOOLEAN, sock : {"connecting", "live", "closed", "none"},
   timer : BOOLEAN, poll : BOOLEAN]

Links ==
  [state : {"shut", "handshake", "serving"}, session : Sessions \cup {NoSession},
   subscribed : BOOLEAN, queue : Seq(Items), told : BOOLEAN,
   frames : Seq(Items \cup {<<"signal">>})]

RunThreads ==
  [session : Sessions \cup {NoSession},
   step : {"off", "talk", "publish", "put", "write", "end", "over"},
   events : Nat, writes : Nat, reached : BOOLEAN, lost : BOOLEAN]

(* What a request carries at its step.                                     *)
Carries(r) ==
  /\ r.kind # "boot" => r.session \in Sessions
  /\ r.kind = "state" /\ r.step = "reading" => r.body \in StatusBodies
  /\ r.kind = "state" /\ r.step = "read" => r.body \in ProgressBodies
  /\ r.kind = "state" /\ r.step = "answered" => r.body \in SnapshotBodies
  /\ r.kind = "start" /\ r.step = "answered" => r.body \in StatusBodies
  /\ r.kind = "boot" /\ r.step = "reading" => r.body \in CurrentBodies
  /\ r.kind = "boot" /\ r.step = "answered" => r.body \in BootBodies
  /\ r.step \in {"wiping", "dropping"} => r.kind = "delete"
  /\ r.kind = "append" /\ r.note = 2 => r.rest = {}

ServerTypes ==
  /\ index \in Indexes
  /\ hist \in [Sessions -> Seq(Items)]
  /\ status \in [Sessions -> Statuses]
  /\ prog \in [Sessions -> Progresses]
  /\ run \in RunThreads
  /\ link \in Links
  /\ link.state # "shut" => link.session \in Sessions
  /\ link.state = "shut" => link.frames = <<>>

ReqTypes ==
  /\ reqs \in Seq(Fetches) /\ Len(reqs) <= MaxRequests
  /\ \A k \in 1 .. Len(reqs) : Carries(reqs[k])
  /\ script \subseteq Happenings

TabTypes ==
  /\ cur \in Sessions \cup {NoSession} /\ modal \in Sessions \cup {NoSession}
  /\ list \subseteq Sessions /\ astray \subseteq Sessions /\ fresh \subseteq Sessions
  /\ view \in [Sessions -> Views]
  /\ effects \in Seq(Effects)

AllTypes == ServerTypes /\ ReqTypes /\ TabTypes

-----------------------------------------------------------------------------
(* Requests from one step to the next.                                     *)

(* What the bridge knows of a request; the tab may forget whose it is.     *)
Same(r, q) ==
  /\ r.kind = q.kind /\ r.session = q.session /\ r.note = q.note /\ r.rest = q.rest
  /\ r.step = q.step /\ r.body = q.body

(* The requests rs are those under way without the ones at K, and at most  *)
(* one new one, which is in N.                                             *)
Origin(h, rs, K, N) ==
  /\ h \in [1 .. Len(rs) -> Nat]
  /\ \A i \in 1 .. Len(rs) :
       IF h[i] = 0 THEN rs[i] \in N
       ELSE h[i] \in (1 .. Len(reqs)) \ K /\ Same(rs[i], reqs[h[i]])
  /\ \A i, j \in 1 .. Len(rs) : h[i] = h[j] => i = j
Comes(rs, K, N) == rs \in Seq(Fetches) /\ \E h : Origin(h, rs, K, N)

LEMMA FetchChanges ==
  ASSUME NEW r \in Fetches
  PROVE  /\ [r EXCEPT !.act = "before"] \in Fetches /\ Same([r EXCEPT !.act = "before"], r)
         /\ [r EXCEPT !.late = TRUE] \in Fetches /\ Same([r EXCEPT !.late = TRUE], r)
         /\ [r EXCEPT !.mine = FALSE] \in Fetches /\ Same([r EXCEPT !.mine = FALSE], r)
         /\ Same(r, r)
<1> USE DEF Fetches, Same
<1>1. [r EXCEPT !.act = "before"] \in Fetches /\ Same([r EXCEPT !.act = "before"], r)
  OBVIOUS
<1>2. [r EXCEPT !.late = TRUE] \in Fetches /\ Same([r EXCEPT !.late = TRUE], r)
  OBVIOUS
<1>3. [r EXCEPT !.mine = FALSE] \in Fetches /\ Same([r EXCEPT !.mine = FALSE], r)
  OBVIOUS
<1> QED
  BY <1>1, <1>2, <1>3

LEMMA RequestIsFetch ==
  ASSUME NEW kind \in Kinds, NEW s \in Sessions \cup {NoSession}
  PROVE  /\ Request(kind, s) \in Fetches
         /\ Request(kind, s).kind = kind /\ Request(kind, s).session = s
         /\ Request(kind, s).step = "sent" /\ Request(kind, s).note = 0
         /\ Request(kind, s).rest = {} /\ Request(kind, s).mine /\ ~Request(kind, s).late
  BY DEF Request, Fetches, Steps, Bodies

(* All that is known of a request from the moment it is sent.              *)
LEMMA SentCarries ==
  ASSUME NEW r, r.step = "sent", r.kind # "boot" => r.session \in Sessions,
         r.kind = "append" /\ r.note = 2 => r.rest = {}
  PROVE  Carries(r)
  BY DEF Carries

LEMMA StaysAsItIs ==
  ASSUME reqs \in Seq(Fetches)
  PROVE  Comes(reqs, {}, {})
<1> DEFINE h == [i \in 1 .. Len(reqs) |-> i]
<1>1. Len(reqs) \in Nat /\ \A i \in 1 .. Len(reqs) : reqs[i] \in Fetches
  BY ElementOfSeq
<1>2. \A i \in 1 .. Len(reqs) : h[i] # 0 /\ h[i] = i /\ Same(reqs[i], reqs[i])
  BY <1>1 DEF Same
<1>3. h \in [1 .. Len(reqs) -> Nat]
  BY <1>1
<1> HIDE DEF h
<1>4. Origin(h, reqs, {}, {})
  BY <1>1, <1>2, <1>3 DEF Origin
<1> QED
  BY <1>4 DEF Comes

LEMMA WithoutOne ==
  ASSUME reqs \in Seq(Fetches), NEW k \in 1 .. Len(reqs)
  PROVE  /\ Without(k) \in Seq(Fetches) /\ Len(Without(k)) = Len(reqs) - 1
         /\ \A i \in 1 .. (Len(reqs) - 1) :
              Without(k)[i] = IF i < k THEN reqs[i] ELSE reqs[i + 1]
<1> DEFINE a == SubSeq(reqs, 1, k - 1)
           b == SubSeq(reqs, k + 1, Len(reqs))
           n == Len(reqs)
<1>1. n \in Nat /\ k \in Nat /\ k >= 1 /\ k <= n
  OBVIOUS
<1>2. a \in Seq(Fetches) /\ Len(a) = k - 1 /\ \A i \in 1 .. (k - 1) : a[i] = reqs[i]
  <2>1. 1 \in 1 .. (n + 1) /\ k - 1 \in 0 .. n
    BY <1>1
  <2>2. \A i \in 1 .. (k - 1) : i \in 1 .. n
    BY <1>1
  <2> QED
    BY <1>1, <2>1, <2>2, SubSeqProperties
<1>3. b \in Seq(Fetches) /\ Len(b) = n - k /\ \A i \in 1 .. (n - k) : b[i] = reqs[k + i]
  BY <1>1, SubSeqProperties
<1> HIDE DEF a, b
<1>4. Without(k) = a \o b
  BY DEF Without, a, b
<1>5. /\ a \o b \in Seq(Fetches) /\ Len(a \o b) = n - 1
      /\ \A i \in 1 .. (n - 1) : (a \o b)[i] = IF i <= k - 1 THEN a[i] ELSE b[i - (k - 1)]
  <2>0. a \in Seq(Fetches) /\ b \in Seq(Fetches)
    BY <1>2, <1>3
  <2>1. a \o b \in Seq(Fetches) /\ Len(a \o b) = Len(a) + Len(b)
    BY <2>0
  <2>2. \A i \in 1 .. Len(a) + Len(b) : (a \o b)[i] = IF i <= Len(a) THEN a[i] ELSE b[i - Len(a)]
    BY <2>0, ConcatProperties
  <2>3. Len(a) + Len(b) = n - 1
    BY <1>1, <1>2, <1>3
  <2> QED
    BY <1>2, <2>1, <2>2, <2>3
<1>6. ASSUME NEW i \in 1 .. (n - 1) PROVE (a \o b)[i] = IF i < k THEN reqs[i] ELSE reqs[i + 1]
  <2>1. CASE i < k
    BY <1>1, <1>2, <1>5, <2>1
  <2>2. CASE ~(i < k)
    <3>1. i - (k - 1) \in 1 .. (n - k) /\ k + (i - (k - 1)) = i + 1 /\ ~(i <= k - 1)
      BY <1>1, <2>2
    <3> QED
      BY <1>3, <1>5, <2>2, <3>1
  <2> QED
    BY <2>1, <2>2
<1> QED
  BY <1>4, <1>5, <1>6

(* A list like that without request k, the same but for what only the tab  *)
(* knows.                                                                  *)
LEMMA LikeWithout ==
  ASSUME reqs \in Seq(Fetches), NEW k \in 1 .. Len(reqs),
         NEW rs \in Seq(Fetches), Len(rs) = Len(reqs) - 1,
         \A i \in 1 .. Len(rs) : Same(rs[i], Without(k)[i])
  PROVE  Comes(rs, {k}, {})
<1> DEFINE h == [i \in 1 .. Len(rs) |-> IF i < k THEN i ELSE i + 1]
           n == Len(reqs)
<1>1. n \in Nat /\ k \in 1 .. n /\ Len(rs) = n - 1
  OBVIOUS
<1>2. \A i \in 1 .. (n - 1) : h[i] \in (1 .. n) \ {k} /\ h[i] \in Nat /\ h[i] # 0
  BY <1>1
<1>3. \A i, j \in 1 .. (n - 1) : h[i] = h[j] => i = j
  BY <1>1
<1>4. \A i \in 1 .. (n - 1) : Without(k)[i] = reqs[h[i]]
  BY <1>1, WithoutOne
<1>5. h \in [1 .. Len(rs) -> Nat]
  BY <1>1
<1> HIDE DEF h
<1>6. Origin(h, rs, {k}, {})
  BY <1>1, <1>2, <1>3, <1>4, <1>5 DEF Origin
<1> QED
  BY <1>6 DEF Comes

LEMMA ComesWithout ==
  ASSUME reqs \in Seq(Fetches), NEW k \in 1 .. Len(reqs)
  PROVE  Comes(Without(k), {k}, {})
<1>1. /\ Without(k) \in Seq(Fetches) /\ Len(Without(k)) = Len(reqs) - 1
  BY WithoutOne
<1>2. \A i \in 1 .. Len(Without(k)) : Same(Without(k)[i], Without(k)[i])
  BY DEF Same
<1> QED
  BY <1>1, <1>2, LikeWithout

LEMMA ComesOvertaken ==
  ASSUME reqs \in Seq(Fetches), NEW k \in 1 .. Len(reqs)
  PROVE  Comes(Overtaken(k), {k}, {}) /\ Len(Overtaken(k)) = Len(reqs) - 1
<1> DEFINE n == Len(reqs)
           w == Without(k)
<1>1. /\ w \in Seq(Fetches) /\ Len(w) = n - 1 /\ n \in Nat /\ k \in 1 .. n
      /\ \A i \in 1 .. (n - 1) : w[i] = IF i < k THEN reqs[i] ELSE reqs[i + 1]
  BY WithoutOne
<1>2. DOMAIN w = 1 .. (n - 1)
  BY <1>1
<1>3. ASSUME NEW i \in 1 .. (n - 1)
      PROVE  Overtaken(k)[i] \in Fetches /\ Same(Overtaken(k)[i], w[i])
  <2>1. Overtaken(k)[i] = w[i] \/ (i < k /\ Overtaken(k)[i] = [reqs[i] EXCEPT !.late = TRUE])
    BY <1>2 DEF Overtaken
  <2>2. w[i] \in Fetches /\ Same(w[i], w[i])
    BY <1>1, ElementOfSeq DEF Same
  <2>3. CASE i < k /\ Overtaken(k)[i] = [reqs[i] EXCEPT !.late = TRUE]
    <3>1. w[i] = reqs[i]
      BY <1>1, <2>3
    <3> QED
      BY <2>2, <2>3, <3>1, FetchChanges
  <2> QED
    BY <2>1, <2>2, <2>3
<1>4. Overtaken(k) \in [1 .. (n - 1) -> Fetches]
  <2>1. Overtaken(k) = [i \in 1 .. (n - 1) |-> Overtaken(k)[i]]
    BY <1>2 DEF Overtaken
  <2> QED
    BY <1>3, <2>1
<1>5. Overtaken(k) \in Seq(Fetches) /\ Len(Overtaken(k)) = n - 1
  <2>1. n - 1 \in Nat
    BY <1>1
  <2>2. ASSUME NEW m \in Nat, NEW q \in [1 .. m -> Fetches]
        PROVE  q \in Seq(Fetches) /\ Len(q) = m
    OBVIOUS
  <2> QED
    BY ONLY <1>4, <2>1, <2>2
<1> QED
  BY <1>1, <1>3, <1>5, LikeWithout

LEMMA ComesOutdated ==
  ASSUME NEW rs, NEW K, Comes(rs, K, {})
  PROVE  Comes(Outdated(rs), K, {}) /\ Len(Outdated(rs)) = Len(rs)
<1>1. rs \in Seq(Fetches) /\ Len(rs) \in Nat /\ DOMAIN rs = 1 .. Len(rs)
  BY DEF Comes
<1>2. ASSUME NEW i \in 1 .. Len(rs)
      PROVE  Outdated(rs)[i] \in Fetches /\ Same(Outdated(rs)[i], rs[i])
  <2>1. Outdated(rs)[i] = rs[i] \/ Outdated(rs)[i] = [rs[i] EXCEPT !.act = "before"]
    BY <1>1 DEF Outdated
  <2>2. rs[i] \in Fetches
    BY <1>1, ElementOfSeq
  <2> QED
    BY <2>1, <2>2, FetchChanges
<1>3. Outdated(rs) \in [1 .. Len(rs) -> Fetches]
  <2>1. Outdated(rs) = [i \in 1 .. Len(rs) |-> Outdated(rs)[i]]
    BY <1>1 DEF Outdated
  <2> QED
    BY <1>2, <2>1
<1>4. Outdated(rs) \in Seq(Fetches) /\ Len(Outdated(rs)) = Len(rs)
  BY <1>1, <1>3
<1>5. PICK h : Origin(h, rs, K, {})
  BY DEF Comes
<1>6. ASSUME NEW i \in 1 .. Len(rs), Same(rs[i], reqs[h[i]])
      PROVE  Same(Outdated(rs)[i], reqs[h[i]])
  BY <1>2, <1>6 DEF Same
<1>7. Origin(h, Outdated(rs), K, {})
  BY <1>4, <1>5, <1>6 DEF Origin
<1> QED
  BY <1>4, <1>7 DEF Comes

LEMMA ComesAppended ==
  ASSUME NEW rs, NEW K, Comes(rs, K, {}), NEW r \in Fetches
  PROVE  Comes(Append(rs, r), K, {r}) /\ Len(Append(rs, r)) = Len(rs) + 1
<1> DEFINE n == Len(rs)
           t == Append(rs, r)
<1>1. rs \in Seq(Fetches) /\ n \in Nat
  BY DEF Comes
<1>2. t \in Seq(Fetches) /\ Len(t) = n + 1 /\ t[n + 1] = r /\ \A i \in 1 .. n : t[i] = rs[i]
  BY <1>1, AppendProperties
<1>3. PICK h : Origin(h, rs, K, {})
  BY DEF Comes
<1>4. /\ h \in [1 .. n -> Nat]
      /\ \A i \in 1 .. n : h[i] # 0 /\ h[i] \in (1 .. Len(reqs)) \ K /\ Same(rs[i], reqs[h[i]])
      /\ \A i, j \in 1 .. n : h[i] = h[j] => i = j
  BY <1>3 DEF Origin
<1> DEFINE g == [i \in 1 .. (n + 1) |-> IF i = n + 1 THEN 0 ELSE h[i]]
<1>5. \A i \in 1 .. n : g[i] = h[i] /\ i \in 1 .. (n + 1)
  BY <1>1
<1>6. g[n + 1] = 0 /\ g \in [1 .. (n + 1) -> Nat]
  BY <1>1, <1>4
<1>7. \A i \in 1 .. (n + 1) : i \in 1 .. n \/ i = n + 1
  BY <1>1
<1> HIDE DEF g, t
<1>8. \A i \in 1 .. (n + 1) :
        IF g[i] = 0 THEN t[i] \in {r}
        ELSE g[i] \in (1 .. Len(reqs)) \ K /\ Same(t[i], reqs[g[i]])
  BY <1>2, <1>4, <1>5, <1>6, <1>7
<1>9. \A i, j \in 1 .. (n + 1) : g[i] = g[j] => i = j
  BY <1>4, <1>5, <1>6, <1>7
<1>10. Origin(g, t, K, {r})
  BY <1>2, <1>6, <1>8, <1>9 DEF Origin
<1> QED
  BY <1>2, <1>10 DEF Comes, t

(* The requests of a page that was reloaded.                               *)
LEMMA ComesLeft ==
  ASSUME reqs \in Seq(Fetches), NEW S
  PROVE  LET left == Among(reqs, S)
             rs == [i \in DOMAIN left |-> [left[i] EXCEPT !.mine = FALSE]]
         IN  Comes(rs, {}, {}) /\ Len(rs) <= Len(reqs)
<1> DEFINE left == Among(reqs, S)
           rs == [i \in DOMAIN left |-> [left[i] EXCEPT !.mine = FALSE]]
           n == Len(left)
<1>1. /\ left \in Seq(Fetches) /\ n <= Len(reqs)
      /\ \E h : Picks(h, left, reqs, Len(reqs), S)
  BY AmongPicks
<1> HIDE DEF left
<1>2. PICK h : Picks(h, left, reqs, Len(reqs), S)
  BY <1>1
<1>3. n \in Nat /\ DOMAIN left = 1 .. n /\ \A i \in 1 .. n : left[i] \in Fetches
  BY <1>1, ElementOfSeq
<1>4. ASSUME NEW i \in 1 .. n PROVE rs[i] \in Fetches /\ Same(rs[i], left[i])
  BY <1>3, FetchChanges
<1>5. rs \in [1 .. n -> Fetches]
  BY <1>3, <1>4
<1>6. rs \in Seq(Fetches) /\ Len(rs) = n
  BY <1>3, <1>5
<1> HIDE DEF rs
<1>7. /\ h \in [1 .. n -> 1 .. Len(reqs)]
      /\ \A i \in 1 .. n : left[i] = reqs[h[i]]
      /\ \A i, j \in 1 .. n : i < j => h[i] < h[j]
  BY <1>2 DEF Picks
<1>8. \A i \in 1 .. n : h[i] \in 1 .. Len(reqs) /\ h[i] \in Nat /\ h[i] # 0
  BY <1>7
<1>9. \A i, j \in 1 .. n : h[i] = h[j] => i = j
  BY <1>3, <1>7, <1>8
<1>10. h \in [1 .. n -> Nat]
  BY <1>7, <1>8
<1>11. \A i \in 1 .. n : Same(rs[i], reqs[h[i]])
  BY <1>4, <1>7
<1>12. Origin(h, rs, {}, {})
  BY <1>6, <1>8, <1>9, <1>10, <1>11 DEF Origin
<1> QED
  BY <1>1, <1>6, <1>12 DEF Comes, left, rs

-----------------------------------------------------------------------------
(* What the tab's steps do to the requests, and what they leave alone.     *)

(* handleStartRun: a request that belongs to it.                           *)
Starting(r) == (r.kind = "save" /\ r.note # 0) \/ r.kind \in {"append", "start"}

(* The run is still to be started after it, item n still to be written.    *)
StartComes(r) ==
  /\ r.kind = "append" => r.rest # {}
  /\ r.kind = "start" => r.step = "sent"
NoteComes(r, n) ==
  \/ r.kind = "save"
  \/ r.kind = "append" /\ ((r.note = n /\ r.step = "sent") \/ (n = 2 /\ r.rest # {}))
  \/ r.kind = "start" /\ n = 2

(* A new one of these follows on a gesture, or on one that has returned.   *)
FollowsOn(r, K) ==
  \/ r.kind = "save" /\ "starts" \in script /\ "starts" \notin script'
  \/ /\ r.kind = "append" /\ r.note = 1
     /\ \E k \in K : reqs[k].kind = "save" /\ reqs[k].note # 0
  \/ r.kind = "append" /\ r.note = 2 /\ r.rest = {} /\ \E k \in K : reqs[k].kind = "start"
  \/ /\ r.kind = "start"
     /\ \E k \in K : \/ reqs[k].kind = "save" /\ reqs[k].note # 0
                     \/ reqs[k].kind = "append" /\ reqs[k].rest # {}

IsNew(r, K) ==
  /\ r.step = "sent"
  /\ r.kind # "boot" => r.session \in Sessions
  /\ Starting(r) => FollowsOn(r, K)

LEMMA NewCarries ==
  ASSUME NEW r, NEW K, IsNew(r, K)
  PROVE  Carries(r)
<1>1. r.kind = "append" => r.note = 1 \/ r.rest = {}
  BY DEF IsNew, FollowsOn, Starting
<1> QED
  BY <1>1, SentCarries DEF IsNew

TabMoves ==
  /\ script' \subseteq script
  /\ Len(reqs') <= MaxRequests
  /\ \E K \in SUBSET (1 .. Len(reqs)), N \in SUBSET Fetches :
       Comes(reqs', K, N) /\ \A r \in N : IsNew(r, K)

ServerStays ==
  /\ UNCHANGED <<index, hist, status, prog>>
  /\ run' = run \/ run' = [run EXCEPT !.reached = FALSE]

LEMMA NoRequestMoves ==
  ASSUME ReqTypes, reqs' = reqs, script' \subseteq script
  PROVE  TabMoves
<1>1. Comes(reqs', {}, {})
  BY StaysAsItIs DEF ReqTypes
<1> QED
  BY <1>1 DEF TabMoves, ReqTypes

LEMMA OneIsDropped ==
  ASSUME ReqTypes, NEW k \in 1 .. Len(reqs), reqs' \in {Without(k), Overtaken(k)},
         script' \subseteq script
  PROVE  TabMoves
<1>1. /\ reqs \in Seq(Fetches)
      /\ Len(reqs) \in Nat
      /\ Len(reqs) <= MaxRequests
      /\ MaxRequests \in Nat
  BY RequestsAssumption DEF ReqTypes
<1>2. Comes(reqs', {k}, {}) /\ Len(reqs') = Len(reqs) - 1
  BY <1>1, WithoutOne, ComesWithout, ComesOvertaken
<1>3. Len(reqs') <= MaxRequests
  BY <1>1, <1>2
<1> QED
  BY <1>2, <1>3 DEF TabMoves

LEMMA OneIsSent ==
  ASSUME ReqTypes, NEW rs, NEW K \in SUBSET (1 .. Len(reqs)), Comes(rs, K, {}),
         Len(rs) < MaxRequests, NEW r \in Fetches, IsNew(r, K), reqs' = Append(rs, r),
         script' \subseteq script
  PROVE  TabMoves
<1>1. Comes(reqs', K, {r}) /\ Len(reqs') = Len(rs) + 1
  BY ComesAppended
<1>2. Len(rs) \in Nat /\ MaxRequests \in Nat
  BY RequestsAssumption DEF Comes
<1>3. Len(reqs') <= MaxRequests
  BY <1>1, <1>2
<1> QED
  BY <1>1, <1>3 DEF TabMoves

LEMMA PlainIsSent ==
  ASSUME ReqTypes, NEW r \in Fetches, r.step = "sent", r.kind # "boot" => r.session \in Sessions,
         ~Starting(r), Send(r), script' \subseteq script
  PROVE  TabMoves
<1>1. Comes(reqs, {}, {})
  BY StaysAsItIs DEF ReqTypes
<1>2. IsNew(r, {})
  BY DEF IsNew
<1>3. Len(reqs) < MaxRequests /\ reqs' = Append(reqs, r)
  BY DEF Send, Room
<1> QED
  BY <1>1, <1>2, <1>3, OneIsSent

LEMMA ActivationMoves ==
  ASSUME ReqTypes, NEW rs, NEW K \in SUBSET (1 .. Len(reqs)), Comes(rs, K, {}),
         Len(rs) < MaxRequests, NEW s \in Sessions, NEW remote \in BOOLEAN,
         Activate(rs, s, remote), script' \subseteq script
  PROVE  TabMoves
<1> DEFINE r == [Request("state", s) EXCEPT !.act = "last", !.remote = remote]
<1>1. r \in Fetches /\ r.step = "sent" /\ r.kind = "state" /\ r.session = s
  <2>1. Request("state", s) \in Fetches
    BY RequestIsFetch DEF Kinds
  <2>2. r \in Fetches
    BY <2>1 DEF Fetches
  <2> QED
    BY <2>2 DEF Request
<1>2. reqs' = Append(Outdated(rs), r)
  BY DEF Activate
<1> HIDE DEF r
<1>3. Comes(Outdated(rs), K, {}) /\ Len(Outdated(rs)) = Len(rs)
  BY ComesOutdated
<1>4. IsNew(r, K)
  BY <1>1 DEF IsNew, Starting
<1> QED
  BY <1>1, <1>2, <1>3, <1>4, OneIsSent

LEMMA TurningStays ==
  ASSUME NEW s, TurnTo(s)
  PROVE  run' = run \/ run' = [run EXCEPT !.reached = FALSE]
  BY DEF TurnTo, CutLink

(* The list without request k, which has come to its end, has room.        *)
LEMMA EndedLeavesRoom ==
  ASSUME ReqTypes, NEW k \in 1 .. Len(reqs)
  PROVE  /\ Comes(Without(k), {k}, {}) /\ Comes(Overtaken(k), {k}, {})
         /\ Len(Without(k)) < MaxRequests /\ Len(Overtaken(k)) < MaxRequests
         /\ {k} \in SUBSET (1 .. Len(reqs))
         /\ reqs[k] \in Fetches /\ Carries(reqs[k])
<1>1. /\ reqs \in Seq(Fetches)
      /\ Len(reqs) \in Nat
      /\ Len(reqs) <= MaxRequests
      /\ MaxRequests \in Nat
  BY RequestsAssumption DEF ReqTypes
<1>2. Len(Without(k)) = Len(reqs) - 1 /\ Len(Overtaken(k)) = Len(reqs) - 1
  BY <1>1, WithoutOne, ComesOvertaken
<1>3. reqs[k] \in Fetches
  BY <1>1, ElementOfSeq
<1> QED
  BY <1>1, <1>2, <1>3, ComesWithout, ComesOvertaken DEF ReqTypes

LEMMA ReturnsMove ==
  ASSUME AllTypes, Returns
  PROVE  TabMoves /\ ServerStays
<1> USE DEF AllTypes
<1>1. PICK k \in DOMAIN reqs :
        \/ SnapshotApplies(k) \/ SnapshotDropped(k) \/ SnapshotFails(k)
        \/ SaveReturns(k) \/ AppendReturns(k) \/ StartReturns(k)
        \/ CreateReturns(k) \/ BatchGoesOn(k) \/ DeleteReturns(k)
        \/ NothingFollows(k) \/ BootReturns(k)
  BY DEF Returns
<1>2. k \in 1 .. Len(reqs)
  BY <1>1 DEF ReqTypes
<1> DEFINE r == reqs[k]
<1>3. /\ Comes(Without(k), {k}, {}) /\ Comes(Overtaken(k), {k}, {})
      /\ Len(Without(k)) < MaxRequests /\ Len(Overtaken(k)) < MaxRequests
      /\ {k} \in SUBSET (1 .. Len(reqs)) /\ r \in Fetches /\ Carries(r)
  BY <1>2, EndedLeavesRoom
<1>4. r.kind # "boot" => r.session \in Sessions
  BY <1>3 DEF Carries
<1>5. r.note \in 0 .. 2 /\ r.rest \subseteq Sessions
  BY <1>3 DEF Fetches
<1>6. CASE SnapshotDropped(k) \/ SnapshotFails(k) \/ NothingFollows(k)
  <2>1. reqs' \in {Without(k), Overtaken(k)} /\ script' = script /\ UNCHANGED serverVars
    BY <1>6 DEF SnapshotDropped, SnapshotFails, NothingFollows
  <2> QED
    BY <1>2, <2>1, OneIsDropped DEF ServerStays, serverVars, streamVars
<1>14. ASSUME NEW rs \in {Without(k), Overtaken(k)}, NEW views, NEW n \in {1, 2},
              NEW rest \in SUBSET Sessions, Notes(views, rs, n, rest),
              cur # NoSession, script' = script, UNCHANGED serverVars,
              \/ n = 1 /\ r.kind = "save" /\ r.note # 0
              \/ n = 2 /\ rest = {} /\ r.kind = "start"
       PROVE  TabMoves /\ ServerStays
  <2> DEFINE a == [Request("append", cur) EXCEPT !.note = n, !.rest = rest]
  <2>1. reqs' = Append(rs, a) /\ cur \in Sessions
    BY <1>14 DEF Notes, TabTypes
  <2>4. a = [Request("append", cur) EXCEPT !.note = n, !.rest = rest]
    OBVIOUS
  <2> HIDE DEF a
  <2>2. a \in Fetches /\ a.kind = "append" /\ a.step = "sent" /\ a.session = cur
        /\ a.note = n /\ a.rest = rest
    <3>1. n \in 0 .. 2 /\ cur \in Sessions /\ rest \in SUBSET Sessions
      BY <1>14, <2>1
    <3>2. Request("append", cur) \in Fetches
      BY <3>1, RequestIsFetch DEF Kinds
    <3>3. a \in Fetches
      BY <2>4, <3>1, <3>2 DEF Fetches
    <3>4. /\ a.kind = "append" /\ a.step = "sent" /\ a.session = cur
          /\ a.note = n /\ a.rest = rest
      BY <2>4 DEF Request
    <3> QED
      BY <3>3, <3>4
  <2>3. IsNew(a, {k})
    BY <1>14, <2>1, <2>2 DEF IsNew, FollowsOn
  <2> QED
    BY <1>3, <1>14, <2>1, <2>2, <2>3, OneIsSent DEF ServerStays, serverVars, streamVars
<1>15. ASSUME NEW s \in Sessions, Launches(Without(k), s), script' = script,
              UNCHANGED serverVars,
              \/ r.kind = "save" /\ r.note # 0
              \/ r.kind = "append" /\ r.rest # {}
       PROVE  TabMoves /\ ServerStays
  <2>1. reqs' = Append(Without(k), Request("start", s))
    BY <1>15 DEF Launches
  <2>2. /\ Request("start", s) \in Fetches
        /\ IsNew(Request("start", s), {k})
    <3>1. /\ Request("start", s) \in Fetches /\ Request("start", s).step = "sent"
          /\ Request("start", s).kind = "start" /\ Request("start", s).session = s
      BY RequestIsFetch DEF Kinds
    <3>2. FollowsOn(Request("start", s), {k})
      BY <1>15, <3>1 DEF FollowsOn
    <3> QED
      BY <3>1, <3>2 DEF IsNew
  <2> QED
    BY <1>3, <1>15, <2>1, <2>2, OneIsSent DEF ServerStays, serverVars, streamVars
<1>7. CASE SnapshotApplies(k)
  <2>1. script' = script /\ UNCHANGED serverVars /\ r.kind = "state"
        /\ reqs' = IF r.remote THEN Append(Overtaken(k), Request("current", r.session))
                   ELSE Overtaken(k)
    BY <1>7 DEF SnapshotApplies, Answered
  <2>2. CASE r.remote
    <3>1. /\ Request("current", r.session) \in Fetches
          /\ IsNew(Request("current", r.session), {k})
      BY <1>4, <2>1, RequestIsFetch DEF Kinds, IndexKinds, IsNew, Starting
    <3> QED
      BY <1>3, <2>1, <2>2, <3>1, OneIsSent DEF ServerStays, serverVars, streamVars
  <2>3. CASE ~r.remote
    BY <1>2, <2>1, <2>3, OneIsDropped DEF ServerStays, serverVars, streamVars
  <2> QED
    BY <2>2, <2>3
<1>8. CASE SaveReturns(k)
  <2>1. script' = script /\ UNCHANGED serverVars /\ r.kind = "save"
    BY <1>8 DEF SaveReturns, Settled, Answered, Failed
  <2>2. CASE r.note # 0 /\ cur # NoSession /\ Notes(view, Without(k), 1, {r.session})
    BY <1>4, <1>14, <2>1, <2>2
  <2>3. CASE r.note # 0 /\ Launches(Without(k), r.session)
    BY <1>4, <1>15, <2>1, <2>3
  <2>4. CASE reqs' = Without(k)
    BY <1>2, <2>1, <2>4, OneIsDropped DEF ServerStays, serverVars, streamVars
  <2> QED
    BY <1>8, <2>2, <2>3, <2>4 DEF SaveReturns
<1>9. CASE AppendReturns(k)
  <2>1. script' = script /\ UNCHANGED serverVars /\ r.kind = "append"
    BY <1>9 DEF AppendReturns, Settled, Answered, Failed
  <2>2. ASSUME NEW s \in r.rest, Launches(Without(k), s) PROVE TabMoves /\ ServerStays
    BY <1>5, <1>15, <2>1, <2>2
  <2>3. CASE reqs' = Without(k)
    BY <1>2, <2>1, <2>3, OneIsDropped DEF ServerStays, serverVars, streamVars
  <2> QED
    BY <1>9, <2>2, <2>3 DEF AppendReturns
<1>16. CASE StartReturns(k)
  <2>1. script' = script /\ UNCHANGED serverVars /\ r.kind = "start"
    BY <1>16 DEF StartReturns, Answered
  <2>2. ASSUME NEW views, cur # NoSession, Notes(views, Overtaken(k), 2, {})
        PROVE  TabMoves /\ ServerStays
    BY <1>14, <2>1, <2>2
  <2>3. CASE reqs' = Overtaken(k)
    BY <1>2, <2>1, <2>3, OneIsDropped DEF ServerStays, serverVars, streamVars
  <2> QED
    BY <1>16, <2>2, <2>3 DEF StartReturns
<1>10. CASE CreateReturns(k)
  <2>1. /\ script' = script /\ UNCHANGED <<index, hist, status, prog>> /\ r.kind = "create"
        /\ Activate(Without(k), r.session, TRUE)
    BY <1>10 DEF CreateReturns, Answered
  <2>2. TabMoves
    BY <1>3, <1>4, <2>1, ActivationMoves
  <2> QED
    BY <2>1, <2>2, TurningStays DEF Activate, ServerStays
<1>11. CASE BatchGoesOn(k)
  <2>1. /\ script' = script /\ UNCHANGED serverVars /\ r.kind = "delete"
    BY <1>11 DEF BatchGoesOn, Answered
  <2>2. PICK next \in r.rest :
          reqs' = Append(Without(k), [Request("delete", next) EXCEPT
                                         !.note = r.note, !.rest = r.rest \ {next}])
    BY <1>11 DEF BatchGoesOn
  <2> DEFINE d == [Request("delete", next) EXCEPT !.note = r.note, !.rest = r.rest \ {next}]
  <2>3. d \in Fetches /\ d.kind = "delete" /\ d.step = "sent" /\ d.session \in Sessions
    <3>1. Request("delete", next) \in Fetches
      BY <1>5, RequestIsFetch DEF Kinds, IndexKinds
    <3>2. d \in Fetches
      BY <1>5, <3>1 DEF Fetches
    <3> QED
      BY <1>5, <3>2 DEF Request
  <2>4. reqs' = Append(Without(k), d)
    BY <2>2
  <2> HIDE DEF d
  <2>5. IsNew(d, {k})
    BY <2>3 DEF IsNew, Starting
  <2> QED
    BY <1>3, <2>1, <2>3, <2>4, <2>5, OneIsSent DEF ServerStays, serverVars, streamVars
<1>12. CASE DeleteReturns(k)
  <2>1. script' = script /\ UNCHANGED <<index, hist, status, prog>> /\ list' \subseteq Sessions
    BY <1>12 DEF DeleteReturns, TabTypes
  <2>2. CASE reqs' = Without(k) /\ run' = run
    BY <1>2, <2>1, <2>2, OneIsDropped DEF ServerStays
  <2>3. ASSUME NEW next \in list', Activate(Without(k), next, TRUE)
        PROVE  TabMoves /\ ServerStays
    BY <1>3, <2>1, <2>3, ActivationMoves, TurningStays DEF Activate, ServerStays
  <2>4. CASE Deactivate(Without(k))
    <3>1. Comes(reqs', {k}, {}) /\ Len(reqs') = Len(Without(k))
      BY <1>3, <2>4, ComesOutdated DEF Deactivate
    <3>2. Len(Without(k)) \in Nat /\ MaxRequests \in Nat
      BY <1>3, RequestsAssumption DEF Comes
    <3> QED
      BY <1>3, <2>1, <2>4, <3>1, <3>2, TurningStays DEF Deactivate, ServerStays, TabMoves
  <2> QED
    BY <1>12, <2>2, <2>3, <2>4 DEF DeleteReturns
<1>13. CASE BootReturns(k)
  <2>1. script' = script /\ UNCHANGED <<index, hist, status, prog>>
    BY <1>13 DEF BootReturns
  <2> DEFINE merged == list \cup r.body.listed
             resolved == IF cur \in merged THEN {cur}
                         ELSE IF r.body.current \in merged THEN {r.body.current} ELSE merged
  <2>2. resolved \subseteq Sessions
    <3>1. r.body \in BootBodies
      BY <1>3, <1>13 DEF BootReturns, Answered, Carries
    <3>2. merged \subseteq Sessions
      BY <3>1 DEF BootBodies, TabTypes
    <3> HIDE DEF merged
    <3> QED
      BY <3>2
  <2>3. (\E s \in resolved : Activate(Without(k), s, FALSE)) \/ Deactivate(Without(k))
    BY <1>13 DEF BootReturns
  <2> HIDE DEF resolved
  <2>4. ASSUME NEW s \in resolved, Activate(Without(k), s, FALSE)
        PROVE  TabMoves /\ ServerStays
    BY <1>3, <2>1, <2>2, <2>4, ActivationMoves, TurningStays DEF Activate, ServerStays
  <2>5. CASE Deactivate(Without(k))
    <3>1. Comes(reqs', {k}, {}) /\ Len(reqs') = Len(Without(k))
      BY <1>3, <2>5, ComesOutdated DEF Deactivate
    <3>2. Len(Without(k)) \in Nat /\ MaxRequests \in Nat
      BY <1>3, RequestsAssumption DEF Comes
    <3> QED
      BY <1>3, <2>1, <2>5, <3>1, <3>2, TurningStays DEF Deactivate, ServerStays, TabMoves
  <2> QED
    BY <2>3, <2>4, <2>5
<1> QED
  BY <1>1, <1>6, <1>7, <1>8, <1>9, <1>10, <1>11, <1>12, <1>13, <1>16

LEMMA GesturesMove ==
  ASSUME AllTypes,
         Selects \/ Creates \/ Types \/ Starts \/ Deletes \/ Batches \/ Cancels \/ Reloads
  PROVE  TabMoves /\ ServerStays
<1> USE DEF AllTypes
<1>1. Comes(reqs, {}, {}) /\ {} \in SUBSET (1 .. Len(reqs))
  BY StaysAsItIs DEF ReqTypes
<1>2. ASSUME NEW name, Gesture(name)
      PROVE  script' \subseteq script /\ Len(reqs) < MaxRequests
  BY <1>2 DEF Gesture, Happens, Room
<1>3. CASE Selects
  <2>1. PICK s \in list \ {cur} : Activate(reqs, s, TRUE)
    BY <1>3 DEF Selects
  <2>2. s \in Sessions /\ UNCHANGED <<index, hist, status, prog>> /\ Gesture("selects")
    BY <1>3 DEF TabTypes, Selects, Touches
  <2> QED
    BY <1>1, <1>2, <2>1, <2>2, ActivationMoves, TurningStays DEF Activate, ServerStays
<1>4. CASE Creates
  <2>1. PICK s \in fresh : Send(Request("create", s))
    BY <1>4 DEF Creates
  <2>2. s \in Sessions /\ UNCHANGED serverVars /\ Gesture("creates")
    BY <1>4 DEF TabTypes, Creates, Touches
  <2>3. Request("create", s) \in Fetches /\ Request("create", s).step = "sent"
        /\ Request("create", s).kind = "create" /\ Request("create", s).session = s
    BY <2>2, RequestIsFetch DEF Kinds, IndexKinds
  <2> QED
    BY <1>2, <2>1, <2>2, <2>3, PlainIsSent DEF Starting, ServerStays, serverVars, streamVars
<1>5. CASE Types
  <2>1. /\ Send(Request("save", cur)) /\ cur \in Sessions /\ UNCHANGED serverVars
        /\ Gesture("types")
    BY <1>5 DEF TabTypes, Types, Touches
  <2>2. /\ Request("save", cur) \in Fetches /\ Request("save", cur).step = "sent"
        /\ Request("save", cur).kind = "save" /\ Request("save", cur).session = cur
        /\ Request("save", cur).note = 0
    BY <2>1, RequestIsFetch DEF Kinds, IndexKinds
  <2> QED
    BY <1>2, <2>1, <2>2, PlainIsSent DEF Starting, ServerStays, serverVars, streamVars
<1>6. CASE Starts
  <2> DEFINE r == [Request("save", cur) EXCEPT !.note = 1]
  <2>1. /\ Send(r) /\ cur \in Sessions /\ UNCHANGED serverVars
        /\ Gesture("starts")
    BY <1>6 DEF TabTypes, Starts, Touches
  <2>2. r \in Fetches /\ r.step = "sent" /\ r.kind = "save" /\ r.session = cur
    <3>1. Request("save", cur) \in Fetches
      BY <2>1, RequestIsFetch DEF Kinds, IndexKinds
    <3>2. r \in Fetches
      BY <3>1 DEF Fetches
    <3> QED
      BY <3>2 DEF Request
  <2> HIDE DEF r
  <2>3. "starts" \in script /\ "starts" \notin script'
    BY <2>1 DEF Gesture, Happens
  <2>4. IsNew(r, {})
    BY <2>1, <2>2, <2>3 DEF IsNew, FollowsOn
  <2>5. reqs' = Append(reqs, r)
    BY <2>1 DEF Send
  <2> QED
    BY <1>1, <1>2, <2>1, <2>2, <2>4, <2>5, OneIsSent DEF ServerStays, serverVars, streamVars
<1>7. CASE Deletes
  <2>1. PICK s \in list, n \in {0, 1} : Send([Request("delete", s) EXCEPT !.note = n])
    BY <1>7 DEF Deletes
  <2> DEFINE r == [Request("delete", s) EXCEPT !.note = n]
  <2>2. s \in Sessions /\ UNCHANGED serverVars /\ Gesture("deletes")
    BY <1>7 DEF TabTypes, Deletes, Touches
  <2>3. r \in Fetches /\ r.step = "sent" /\ r.kind = "delete" /\ r.session = s
    <3>1. Request("delete", s) \in Fetches
      BY <2>2, RequestIsFetch DEF Kinds, IndexKinds
    <3>2. r \in Fetches
      BY <3>1 DEF Fetches
    <3> QED
      BY <3>2 DEF Request
  <2>4. Send(r)
    BY <2>1
  <2> HIDE DEF r
  <2> QED
    BY <1>2, <2>2, <2>3, <2>4, PlainIsSent DEF Starting, ServerStays, serverVars, streamVars
<1>8. CASE Batches
  <2>1. PICK chosen \in (SUBSET list) \ {{}} : \E s \in chosen :
          Send([Request("delete", s) EXCEPT !.note = IF cur \in chosen THEN 1 ELSE 0,
                                            !.rest = chosen \ {s}])
    BY <1>8 DEF Batches
  <2>2. PICK s \in chosen :
          Send([Request("delete", s) EXCEPT !.note = IF cur \in chosen THEN 1 ELSE 0,
                                            !.rest = chosen \ {s}])
    BY <2>1
  <2> DEFINE n == IF cur \in chosen THEN 1 ELSE 0
             r == [Request("delete", s) EXCEPT !.note = n, !.rest = chosen \ {s}]
  <2>3. /\ s \in Sessions /\ chosen \subseteq Sessions /\ UNCHANGED serverVars
        /\ Gesture("batches") /\ n \in {0, 1}
    BY <1>8 DEF TabTypes, Batches, Touches
  <2>4. Send(r)
    BY <2>2
  <2> HIDE DEF n
  <2>5. r \in Fetches /\ r.step = "sent" /\ r.kind = "delete" /\ r.session = s
    <3>1. Request("delete", s) \in Fetches
      BY <2>3, RequestIsFetch DEF Kinds, IndexKinds
    <3>2. r \in Fetches
      <4>1. n \in 0 .. 2 /\ chosen \ {s} \in SUBSET Sessions
        BY <2>3
      <4> QED
        BY <3>1, <4>1 DEF Fetches
    <3> QED
      BY <3>2 DEF Request
  <2> HIDE DEF r
  <2> QED
    BY <1>2, <2>3, <2>4, <2>5, PlainIsSent DEF Starting, ServerStays, serverVars, streamVars
<1>9. CASE Reloads
  <2>1. PICK S : reqs' = Append([i \in DOMAIN Among(reqs, S) |->
                                   [Among(reqs, S)[i] EXCEPT !.mine = FALSE]],
                                Request("boot", NoSession))
    BY <1>9 DEF Reloads
  <2> DEFINE rs == [i \in DOMAIN Among(reqs, S) |-> [Among(reqs, S)[i] EXCEPT !.mine = FALSE]]
  <2>2. Gesture("reloads") /\ UNCHANGED <<index, hist, status, prog>> /\ CutLink
    BY <1>9 DEF Reloads
  <2>3. Comes(rs, {}, {}) /\ Len(rs) <= Len(reqs)
    BY ComesLeft DEF ReqTypes
  <2>4. reqs' = Append(rs, Request("boot", NoSession))
    BY <2>1
  <2> HIDE DEF rs
  <2>5. /\ Request("boot", NoSession) \in Fetches
        /\ IsNew(Request("boot", NoSession), {})
    BY RequestIsFetch DEF Kinds, IsNew, Starting
  <2>6. Len(rs) < MaxRequests
    <3>1. Len(rs) \in Nat /\ Len(reqs) \in Nat /\ MaxRequests \in Nat
      BY <2>3, RequestsAssumption DEF Comes, ReqTypes
    <3> QED
      BY <1>2, <2>2, <2>3, <3>1
  <2> QED
    BY <1>1, <1>2, <2>2, <2>3, <2>4, <2>5, <2>6, OneIsSent DEF ServerStays, CutLink
<1>10. CASE Cancels
  BY <1>10, NoRequestMoves DEF Cancels, ServerStays, reqVars, serverVars, streamVars
<1> QED
  BY <1>3, <1>4, <1>5, <1>6, <1>7, <1>8, <1>9, <1>10

LEMMA SocketsMove ==
  ASSUME AllTypes,
         SocketOpens \/ SocketLost \/ Reconnects \/ Polls \/ FrameArrives
           \/ \E i \in DOMAIN effects : SocketCloses(i)
  PROVE  TabMoves /\ ServerStays
<1> USE DEF AllTypes
<1>1. CASE SocketOpens \/ Reconnects \/ \E i \in DOMAIN effects : SocketCloses(i)
  <2>1. UNCHANGED <<index, hist, status, prog, run, reqVars>>
    <3>1. CASE SocketOpens
      BY <3>1 DEF SocketOpens
    <3>2. CASE Reconnects
      BY <3>2 DEF Reconnects, serverVars, streamVars
    <3>3. CASE \E i \in DOMAIN effects : SocketCloses(i)
      BY <3>3 DEF SocketCloses, serverVars, streamVars
    <3> QED
      BY <1>1, <3>1, <3>2, <3>3
  <2> QED
    BY <2>1, NoRequestMoves DEF ServerStays, reqVars
<1>2. CASE SocketLost
  <2>1. UNCHANGED <<index, hist, status, prog, reqs>> /\ CutLink /\ script' \subseteq script
    BY <1>2 DEF SocketLost, Happens
  <2> QED
    BY <2>1, NoRequestMoves DEF ServerStays, CutLink
<1>3. CASE Polls
  <2>1. /\ Send(Request("state", Hook.session)) /\ UNCHANGED serverVars /\ script' = script
        /\ Live
    BY <1>3 DEF Polls
  <2>2. Hook.session \in Sessions
    <3>1. effects \in Seq(Effects) /\ Len(effects) \in 1 .. Len(effects)
      BY <2>1 DEF Live, TabTypes
    <3>2. Hook \in Effects
      BY <3>1, ElementOfSeq DEF Hook
    <3> QED
      BY <3>2 DEF Effects
  <2>3. /\ Request("state", Hook.session) \in Fetches
        /\ Request("state", Hook.session).step = "sent"
        /\ Request("state", Hook.session).kind = "state"
        /\ Request("state", Hook.session).session = Hook.session
    <3>1. "state" \in Kinds
      BY DEF Kinds
    <3> QED
      BY <2>2, <3>1, RequestIsFetch
  <2> QED
    BY <2>1, <2>2, <2>3, PlainIsSent DEF Starting, ServerStays, serverVars, streamVars
<1>4. CASE FrameArrives
  <2>1. UNCHANGED <<index, hist, status, prog, run, script>> /\ link.frames # <<>>
    BY <1>4 DEF FrameArrives
  <2>2. reqs' = reqs \/ (Send(Request("state", cur)) /\ cur = link.session)
    BY <1>4 DEF FrameArrives
  <2>3. CASE reqs' = reqs
    BY <2>1, <2>3, NoRequestMoves DEF ServerStays
  <2>4. CASE Send(Request("state", cur)) /\ cur = link.session
    <3>1. cur \in Sessions
      BY <2>1, <2>4 DEF ServerTypes, Links
    <3>2. /\ Request("state", cur) \in Fetches /\ Request("state", cur).step = "sent"
          /\ Request("state", cur).kind = "state" /\ Request("state", cur).session = cur
      BY <3>1, RequestIsFetch DEF Kinds
    <3> QED
      BY <2>1, <2>4, <3>1, <3>2, PlainIsSent DEF Starting, ServerStays
  <2> QED
    BY <2>2, <2>3, <2>4
<1> QED
  BY <1>1, <1>2, <1>3, <1>4

LEMMA UnreadMoves ==
  ASSUME AllTypes, NEW k \in DOMAIN reqs, Unread(k)
  PROVE  TabMoves /\ ServerStays
<1>1. k \in 1 .. Len(reqs) /\ ReqTypes
  BY DEF AllTypes, ReqTypes
<1>2. reqs' = Without(k) /\ script' = script /\ UNCHANGED <<index, streamVars>>
  BY DEF Unread
<1> QED
  BY <1>1, <1>2, OneIsDropped DEF ServerStays, streamVars

-----------------------------------------------------------------------------
(* The invariants of the requests and of what the bridge keeps.            *)

(* The request that holds ui_state_lock has read the file as it is.        *)
Locks ==
  /\ \A k \in 1 .. Len(reqs) :
       reqs[k].step = "locked" => reqs[k].body = index /\ reqs[k].kind \in IndexKinds
  /\ \A j, k \in 1 .. Len(reqs) :
       reqs[j].step = "locked" /\ reqs[k].step = "locked" => j = k

(* One request at most belongs to handleStartRun, and none before it.      *)
OneStart ==
  /\ \A j, k \in 1 .. Len(reqs) : Starting(reqs[j]) /\ Starting(reqs[k]) => j = k
  /\ "starts" \in script => \A k \in 1 .. Len(reqs) : ~Starting(reqs[k])

(* The run may still be started, and the tab's items still be written.     *)
StartPending ==
  \/ "starts" \in script
  \/ \E k \in 1 .. Len(reqs) : Starting(reqs[k]) /\ StartComes(reqs[k])
Pending ==
  {n \in 0 .. 2 :
     \/ "starts" \in script
     \/ \E k \in 1 .. Len(reqs) : Starting(reqs[k]) /\ NoteComes(reqs[k], n)}

Once(q) == \A i, j \in DOMAIN q : q[i] = q[j] => i = j

(* What a history may hold: events of the run so far, and the tab's items. *)
Possible(x, events, pending) ==
  \/ x[1] = "event" /\ x[2] \in 1 .. events
  \/ x[1] = "user" /\ x[2] \notin pending
Histories ==
  /\ \A s \in Sessions :
       /\ Once(hist[s])
       /\ \A i \in 1 .. Len(hist[s]) :
            Possible(hist[s][i], run.events, Pending)
  /\ StartPending => run = NoRun

(* So does a snapshot on its way to the tab.                               *)
SnapshotsOnce ==
  \A k \in 1 .. Len(reqs) :
    reqs[k].kind = "state" /\ reqs[k].step = "answered" =>
      Once(reqs[k].body.hist) /\ Results \cap Seen(reqs[k].body.hist) = {}

ReqInv == Locks /\ OneStart /\ Histories /\ SnapshotsOnce

LEMMA SameCarries ==
  ASSUME NEW r, NEW q, Same(r, q), Carries(q)
  PROVE  Carries(r)
  BY DEF Same, Carries

LEMMA TabKeepsReqs ==
  ASSUME ServerTypes, ReqTypes, ReqInv, TabMoves, ServerStays
  PROVE  ReqTypes' /\ ReqInv'
<1>1. PICK K \in SUBSET (1 .. Len(reqs)), N \in SUBSET Fetches :
        Comes(reqs', K, N) /\ \A r \in N : IsNew(r, K)
  BY DEF TabMoves
<1>2. reqs' \in Seq(Fetches)
  BY <1>1 DEF Comes
<1>3. PICK h : Origin(h, reqs', K, N)
  BY <1>1 DEF Comes
<1> DEFINE n == Len(reqs)
           m == Len(reqs')
<1>4. /\ h \in [1 .. m -> Nat]
      /\ \A i, j \in 1 .. m : h[i] = h[j] => i = j
  BY <1>3 DEF Origin
<1>5. ASSUME NEW i \in 1 .. m
      PROVE  \/ h[i] = 0 /\ IsNew(reqs'[i], K)
             \/ h[i] # 0 /\ h[i] \in (1 .. n) \ K /\ Same(reqs'[i], reqs[h[i]])
  BY <1>1, <1>3 DEF Origin
<1>6. /\ script' \subseteq script /\ index' = index /\ hist' = hist /\ run'.events = run.events
      /\ run = NoRun => run' = NoRun
  <2>1. run'.events = run.events
    BY DEF ServerStays, ServerTypes, RunThreads
  <2>2. run = NoRun => run' = NoRun
    BY DEF ServerStays, NoRun
  <2> QED
    BY <2>1, <2>2 DEF TabMoves, ServerStays
<1> HIDE DEF n, m
<1>7. ReqTypes'
  <2>1. \A i \in 1 .. m : Carries(reqs'[i])
    BY <1>5, NewCarries, SameCarries DEF ReqTypes, n
  <2>2. Len(reqs') <= MaxRequests
    BY DEF TabMoves
  <2> QED
    BY <1>2, <1>6, <2>1, <2>2 DEF ReqTypes, Carries, m
<1>8. Locks'
  <2>1. ASSUME NEW i \in 1 .. m, reqs'[i].step = "locked"
        PROVE  h[i] \in 1 .. n /\ reqs[h[i]].step = "locked" /\ Same(reqs'[i], reqs[h[i]])
    BY <1>5, <2>1 DEF IsNew, Same
  <2>2. \A i \in 1 .. m : reqs'[i].step = "locked" =>
          reqs'[i].body = index /\ reqs'[i].kind \in IndexKinds
    BY <2>1 DEF ReqInv, Locks, Same, n
  <2>3. \A i, j \in 1 .. m : reqs'[i].step = "locked" /\ reqs'[j].step = "locked" => i = j
    BY <1>4, <2>1 DEF ReqInv, Locks, n
  <2> QED
    BY <1>6, <2>2, <2>3 DEF Locks, m
<1>9. \A r, q : Same(r, q) /\ Starting(r) =>
        /\ Starting(q) /\ (StartComes(r) => StartComes(q))
        /\ \A c \in 0 .. 2 : NoteComes(r, c) => NoteComes(q, c)
  BY DEF Same, Starting, StartComes, NoteComes
<1>10. ASSUME NEW i \in 1 .. m, h[i] = 0, Starting(reqs'[i])
       PROVE  /\ "starts" \notin script'
              /\ \/ "starts" \in script
                 \/ \E k \in K :
                      /\ Starting(reqs[k])
                      /\ StartComes(reqs'[i]) => StartComes(reqs[k])
                      /\ \A c \in 0 .. 2 : NoteComes(reqs'[i], c) => NoteComes(reqs[k], c)
  <2>1. FollowsOn(reqs'[i], K)
    BY <1>5, <1>10 DEF IsNew
  <2>2. ASSUME NEW k \in K, Starting(reqs[k]) PROVE "starts" \notin script'
    BY <1>6, <2>2 DEF ReqInv, OneStart
  <2> QED
    BY <2>1, <2>2 DEF FollowsOn, Starting, StartComes, NoteComes
<1>11. OneStart'
  <2>1. ASSUME NEW i \in 1 .. m, NEW j \in 1 .. m, Starting(reqs'[i]), Starting(reqs'[j])
        PROVE  i = j
    <3>1. CASE h[i] = 0 /\ h[j] = 0
      BY <1>4, <3>1
    <3>2. CASE h[i] # 0 /\ h[j] # 0
      <4>1. /\ h[i] \in 1 .. n /\ Starting(reqs[h[i]])
            /\ h[j] \in 1 .. n /\ Starting(reqs[h[j]])
        BY <1>5, <1>9, <2>1, <3>2
      <4>2. h[i] = h[j]
        BY <4>1 DEF ReqInv, OneStart, n
      <4> QED
        BY <1>4, <4>2
    <3>3. ASSUME NEW a \in 1 .. m, NEW b \in 1 .. m, h[a] = 0, h[b] # 0,
                 Starting(reqs'[a]), Starting(reqs'[b])
          PROVE  FALSE
      <4>1. h[b] \in (1 .. n) \ K /\ Starting(reqs[h[b]])
        BY <1>5, <1>9, <3>3
      <4>2. "starts" \notin script
        BY <4>1 DEF ReqInv, OneStart, n
      <4>3. \E k \in K : Starting(reqs[k])
        BY <1>10, <3>3, <4>2
      <4> QED
        BY <4>1, <4>3 DEF ReqInv, OneStart, n
    <3> QED
      BY <2>1, <3>1, <3>2, <3>3
  <2>2. ASSUME "starts" \in script', NEW i \in 1 .. m PROVE ~Starting(reqs'[i])
    <3>1. CASE h[i] = 0
      BY <1>10, <2>2, <3>1
    <3>2. CASE h[i] # 0
      BY <1>5, <1>6, <1>9, <2>2, <3>2 DEF ReqInv, OneStart, n
    <3> QED
      BY <3>1, <3>2
  <2> QED
    BY <2>1, <2>2 DEF OneStart, m
<1>12. ASSUME StartPending' PROVE StartPending
  <2>1. CASE "starts" \in script'
    BY <1>6, <2>1 DEF StartPending
  <2>2. ASSUME NEW i \in 1 .. m, Starting(reqs'[i]), StartComes(reqs'[i])
        PROVE  StartPending
    <3>1. CASE h[i] # 0
      BY <1>5, <1>9, <2>2, <3>1 DEF StartPending, n
    <3>2. CASE h[i] = 0
      BY <1>10, <2>2, <3>2 DEF StartPending
    <3> QED
      BY <3>1, <3>2
  <2> QED
    BY <1>12, <2>1, <2>2 DEF StartPending, m
<1>13. Pending' \subseteq Pending
  <2> SUFFICES ASSUME NEW c \in 0 .. 2, c \in Pending' PROVE c \in Pending
    BY DEF Pending
  <2>1. CASE "starts" \in script'
    BY <1>6, <2>1 DEF Pending
  <2>2. ASSUME NEW i \in 1 .. m, Starting(reqs'[i]), NoteComes(reqs'[i], c)
        PROVE  c \in Pending
    <3>1. CASE h[i] # 0
      BY <1>5, <1>9, <2>2, <3>1 DEF Pending, n
    <3>2. CASE h[i] = 0
      BY <1>10, <2>2, <3>2 DEF Pending
    <3> QED
      BY <3>1, <3>2
  <2> QED
    BY <2>1, <2>2 DEF Pending, m
<1>14. Histories'
  <2>1. ASSUME NEW x, Possible(x, run.events, Pending)
        PROVE  Possible(x, run'.events, Pending')
    BY <1>6, <1>13, <2>1 DEF Possible
  <2>2. \A s \in Sessions :
          /\ Once(hist[s])'
          /\ \A i \in 1 .. Len(hist[s]) :
               Possible(hist[s][i], run'.events, Pending')
    BY <1>6, <2>1 DEF ReqInv, Histories, Once
  <2>3. StartPending' => run' = NoRun
    BY <1>6, <1>12 DEF ReqInv, Histories
  <2> QED
    BY <1>6, <2>2, <2>3 DEF Histories, Once, Possible, NoRun
<1>15. SnapshotsOnce'
  <2>1. ASSUME NEW i \in 1 .. m, reqs'[i].kind = "state", reqs'[i].step = "answered"
        PROVE  Once(reqs'[i].body.hist) /\ Results \cap Seen(reqs'[i].body.hist) = {}
    <3>1. h[i] \in 1 .. n /\ Same(reqs'[i], reqs[h[i]])
      BY <1>5, <2>1 DEF IsNew
    <3> QED
      BY <2>1, <3>1 DEF ReqInv, SnapshotsOnce, Same, n
  <2> QED
    BY <2>1 DEF SnapshotsOnce, Once, Seen, m
<1> QED
  BY <1>7, <1>8, <1>11, <1>14, <1>15 DEF ReqInv

-----------------------------------------------------------------------------
(* The bridge serves request k.                                            *)

Served(k, st, b) ==
  /\ reqs' \in Seq(Fetches) /\ Len(reqs') = Len(reqs)
  /\ \A j \in 1 .. Len(reqs) : j # k => reqs'[j] = reqs[j]
  /\ reqs'[k].step = st /\ reqs'[k].body = b
  /\ reqs'[k].kind = reqs[k].kind /\ reqs'[k].session = reqs[k].session
  /\ reqs'[k].note = reqs[k].note /\ reqs'[k].rest = reqs[k].rest

LEMMA StepServes ==
  ASSUME ReqTypes, NEW k \in 1 .. Len(reqs), NEW st \in Steps, NEW b \in Bodies, Step(k, st, b)
  PROVE  Served(k, st, b)
<1> DEFINE r == [reqs[k] EXCEPT !.step = st, !.body = b]
           n == Len(reqs)
<1>1. reqs \in Seq(Fetches) /\ n \in Nat /\ reqs[k] \in Fetches
  BY ElementOfSeq DEF ReqTypes
<1>2. reqs' = [reqs EXCEPT ![k] = r]
  BY DEF Step
<1>3. r \in Fetches
  BY <1>1 DEF Fetches
<1>4. /\ r.step = st /\ r.body = b
      /\ r.kind = reqs[k].kind /\ r.session = reqs[k].session /\ r.note = reqs[k].note
      /\ r.rest = reqs[k].rest
  BY <1>1 DEF Fetches
<1> HIDE DEF r
<1>5. reqs' \in Seq(Fetches) /\ Len(reqs') = n
  BY <1>1, <1>2, <1>3
<1>6. reqs'[k] = r /\ \A j \in 1 .. n : j # k => reqs'[j] = reqs[j]
  BY <1>1, <1>2
<1> QED
  BY <1>4, <1>5, <1>6 DEF Served

LEMMA ServedTypes ==
  ASSUME ReqTypes, NEW k \in 1 .. Len(reqs), NEW st, NEW b, Served(k, st, b),
         Carries(reqs'[k]), script' \subseteq script
  PROVE  ReqTypes'
<1>1. \A j \in 1 .. Len(reqs') : Carries(reqs'[j])
  BY DEF Served, ReqTypes
<1>2. reqs' \in Seq(Fetches) /\ Len(reqs') <= MaxRequests /\ script' \subseteq Happenings
  BY DEF Served, ReqTypes
<1> QED
  BY <1>1, <1>2 DEF ReqTypes, Carries

LEMMA ServedLocks ==
  ASSUME Locks, NEW k \in 1 .. Len(reqs), NEW st, NEW b, Served(k, st, b),
         st = "locked" => ~Locked /\ b = index /\ index' = index /\ reqs[k].kind \in IndexKinds,
         index' = index \/ reqs[k].step = "locked",
         DOMAIN reqs = 1 .. Len(reqs)
  PROVE  Locks'
<1>1. \A j \in 1 .. Len(reqs) : j # k => reqs'[j] = reqs[j]
  BY DEF Served
<1>2. ASSUME st = "locked", NEW j \in 1 .. Len(reqs), j # k PROVE reqs'[j].step # "locked"
  BY <1>1, <1>2 DEF Locked
<1>3. ASSUME NEW j \in 1 .. Len(reqs), reqs'[j].step = "locked"
      PROVE  reqs'[j].body = index' /\ reqs'[j].kind \in IndexKinds
  <2>1. CASE j = k
    BY <1>3, <2>1 DEF Served
  <2>2. CASE j # k
    <3>1. reqs[j].step = "locked" /\ reqs'[j] = reqs[j]
      BY <1>1, <1>3, <2>2
    <3>2. index' = index
      BY <2>2, <3>1 DEF Locks
    <3> QED
      BY <3>1, <3>2 DEF Locks
  <2> QED
    BY <2>1, <2>2
<1>4. ASSUME NEW i \in 1 .. Len(reqs), NEW j \in 1 .. Len(reqs),
             reqs'[i].step = "locked", reqs'[j].step = "locked"
      PROVE  i = j
  <2>1. CASE i = k \/ j = k
    BY <1>2, <1>4, <2>1 DEF Served
  <2>2. CASE i # k /\ j # k
    BY <1>1, <1>4, <2>2 DEF Locks
  <2> QED
    BY <2>1, <2>2
<1>5. Len(reqs') = Len(reqs)
  BY DEF Served
<1> QED
  BY <1>3, <1>4, <1>5 DEF Locks

LEMMA ServedStarts ==
  ASSUME OneStart, NEW k \in 1 .. Len(reqs), NEW st, NEW b, Served(k, st, b), st # "sent",
         script' \subseteq script
  PROVE  /\ OneStart'
         /\ StartPending' => StartPending
         /\ Pending' \subseteq Pending
         /\ \A j \in 1 .. Len(reqs) : Starting(reqs'[j]) <=> Starting(reqs[j])
<1>1. Len(reqs') = Len(reqs)
  BY DEF Served
<1>2. ASSUME NEW j \in 1 .. Len(reqs)
      PROVE  /\ reqs'[j].kind = reqs[j].kind /\ reqs'[j].note = reqs[j].note
             /\ reqs'[j].rest = reqs[j].rest
             /\ reqs'[j].step = "sent" => reqs[j].step = "sent"
  BY DEF Served
<1>3. \A j \in 1 .. Len(reqs) : Starting(reqs'[j]) <=> Starting(reqs[j])
  BY <1>2 DEF Starting
<1>4. OneStart'
  BY <1>1, <1>3 DEF OneStart
<1>5. StartPending' => StartPending
  BY <1>1, <1>2, <1>3 DEF StartPending, StartComes
<1>6. Pending' \subseteq Pending
  <2>1. \A j \in 1 .. Len(reqs), c \in 0 .. 2 : NoteComes(reqs'[j], c) => NoteComes(reqs[j], c)
    BY <1>2 DEF NoteComes
  <2> QED
    BY <1>1, <1>3, <2>1 DEF Pending
<1> QED
  BY <1>3, <1>4, <1>5, <1>6

LEMMA ServedSnapshots ==
  ASSUME SnapshotsOnce, NEW k \in 1 .. Len(reqs), NEW st, NEW b, Served(k, st, b),
         reqs[k].kind = "state" /\ st = "answered" => Once(b.hist) /\ Results \cap Seen(b.hist) = {}
  PROVE  SnapshotsOnce'
<1>1. ASSUME NEW j \in 1 .. Len(reqs), reqs'[j].kind = "state", reqs'[j].step = "answered"
      PROVE  Once(reqs'[j].body.hist) /\ Results \cap Seen(reqs'[j].body.hist) = {}
  <2>1. CASE j = k
    BY <1>1, <2>1 DEF Served
  <2>2. CASE j # k
    BY <1>1, <2>2 DEF Served, SnapshotsOnce
  <2> QED
    BY <2>1, <2>2
<1>2. Len(reqs') = Len(reqs)
  BY DEF Served
<1> QED
  BY <1>1, <1>2 DEF SnapshotsOnce, Once, Seen

LEMMA PendingKeepsHistories ==
  ASSUME Histories, hist' = hist, run' = run,
         StartPending' => StartPending, Pending' \subseteq Pending
  PROVE  Histories'
<1>1. ASSUME NEW x, Possible(x, run.events, Pending)
      PROVE  Possible(x, run'.events, Pending')
  BY <1>1 DEF Possible
<1>2. \A s \in Sessions :
        /\ Once(hist[s])'
        /\ \A i \in 1 .. Len(hist[s]) :
             Possible(hist[s][i], run'.events, Pending')
  BY <1>1 DEF Histories, Once
<1>3. StartPending' => run' = NoRun
  BY DEF Histories
<1> QED
  BY <1>2, <1>3 DEF Histories, Once, Possible, NoRun

(* A request that changes no more than itself.                             *)
LEMMA ServedQuietly ==
  ASSUME ServerTypes, ReqTypes, ReqInv, NEW k \in 1 .. Len(reqs), NEW st \in Steps,
         NEW b \in Bodies,
         Step(k, st, b), st \notin {"sent", "locked"},
         UNCHANGED <<index, hist, status, prog, run>>,
         script' \subseteq script,
         ASSUME Served(k, st, b) PROVE Carries(reqs'[k]),
         reqs[k].kind = "state" /\ st = "answered" => Once(b.hist) /\ Results \cap Seen(b.hist) = {}
  PROVE  ReqTypes' /\ ReqInv'
<1>1. Served(k, st, b)
  BY StepServes
<1>2. ReqTypes'
  BY <1>1, ServedTypes
<1>3. Locks'
  <2>1. DOMAIN reqs = 1 .. Len(reqs)
    BY DEF ReqTypes
  <2> QED
    BY <1>1, <2>1, ServedLocks DEF ReqInv
<1>4. OneStart' /\ (StartPending' => StartPending) /\ Pending' \subseteq Pending
  BY <1>1, ServedStarts DEF ReqInv
<1>5. Histories'
  BY <1>4, PendingKeepsHistories DEF ReqInv
<1>6. SnapshotsOnce'
  BY <1>1, ServedSnapshots DEF ReqInv
<1> QED
  BY <1>2, <1>3, <1>4, <1>5, <1>6 DEF ReqInv

(* Every history is free of repetitions and of what is derived.            *)
LEMMA HistoryIsClean ==
  ASSUME ServerTypes, Histories, NEW s \in Sessions
  PROVE  Once(hist[s]) /\ Results \cap Seen(hist[s]) = {}
<1>1. hist[s] \in Seq(Items)
  BY DEF ServerTypes
<1>2. \A i \in 1 .. Len(hist[s]) : hist[s][i][1] \in {"event", "user"}
  BY DEF Histories, Possible
<1>3. \A x \in Results : x[1] \notin {"event", "user"}
  BY DEF Results, Completion, Failure
<1>4. Seen(hist[s]) = {hist[s][i] : i \in 1 .. Len(hist[s])}
  BY <1>1 DEF Seen
<1> QED
  BY <1>2, <1>3, <1>4 DEF Histories

(* One item more.                                                          *)
LEMMA OnceMore ==
  ASSUME NEW T, NEW q \in Seq(T), Once(q), NEW x \in T, x \notin Seen(q)
  PROVE  Append(q, x) \in Seq(T) /\ Once(Append(q, x))
<1> DEFINE n == Len(q)
           t == Append(q, x)
<1>1. n \in Nat /\ t \in Seq(T) /\ Len(t) = n + 1 /\ t[n + 1] = x /\ \A i \in 1 .. n : t[i] = q[i]
  BY AppendProperties
<1> HIDE DEF t
<1>2. DOMAIN q = 1 .. n /\ DOMAIN t = 1 .. (n + 1)
  BY <1>1
<1>3. \A i \in 1 .. (n + 1) : i \in 1 .. n \/ i = n + 1
  BY <1>1
<1>4. \A i \in 1 .. n : q[i] # x
  BY <1>2 DEF Seen
<1>5. \A i, j \in 1 .. (n + 1) : t[i] = t[j] => i = j
  BY <1>1, <1>2, <1>3, <1>4 DEF Once
<1> QED
  BY <1>1, <1>2, <1>5 DEF Once, t

LEMMA StatusIsRead ==
  ASSUME AllTypes, ReqInv, NEW k \in 1 .. Len(reqs), ServeStatus(k), script' \subseteq script
  PROVE  ReqTypes' /\ ReqInv' /\ ServerTypes'
<1> DEFINE b == [status |-> status[reqs[k].session]]
<1>1. /\ reqs[k].kind = "state" /\ Step(k, "reading", b) /\ UNCHANGED <<index, streamVars>>
  BY DEF ServeStatus
<1>2. reqs[k].session \in Sessions
  BY <1>1 DEF AllTypes, ReqTypes, Carries
<1>3. b \in StatusBodies /\ b \in Bodies
  BY <1>2 DEF AllTypes, ServerTypes, StatusBodies, Bodies
<1>4. ASSUME Served(k, "reading", b) PROVE Carries(reqs'[k])
  BY <1>1, <1>2, <1>3, <1>4 DEF Served, Carries
<1> HIDE DEF b
<1>5. UNCHANGED <<index, hist, status, prog, run>> /\ link' = link
  BY <1>1 DEF streamVars
<1>6. ReqTypes' /\ ReqInv'
  BY <1>1, <1>3, <1>4, <1>5, ServedQuietly DEF AllTypes, Steps
<1>7. ServerTypes'
  BY <1>5 DEF AllTypes, ServerTypes
<1> QED
  BY <1>6, <1>7

LEMMA ProgressIsRead ==
  ASSUME AllTypes, ReqInv, NEW k \in 1 .. Len(reqs), ServeProgress(k), script' \subseteq script
  PROVE  ReqTypes' /\ ReqInv' /\ ServerTypes'
<1> DEFINE s == reqs[k].session
           b == [status |-> reqs[k].body.status, prog |-> Readable(prog[s])]
<1>1. /\ reqs[k].kind = "state" /\ reqs[k].step = "reading" /\ Step(k, "read", b)
      /\ UNCHANGED <<index, streamVars>>
  BY DEF ServeProgress
<1>2. s \in Sessions /\ reqs[k].body \in StatusBodies
  BY <1>1 DEF AllTypes, ReqTypes, Carries
<1>3. Readable(prog[s]) \in ReadProgress /\ reqs[k].body.status \in Statuses
  BY <1>2 DEF AllTypes, ServerTypes, Readable, Progresses, ReadProgress, StatusBodies
<1>4. b \in ProgressBodies /\ b \in Bodies
  BY <1>3 DEF ProgressBodies, Bodies
<1> HIDE DEF b
<1>5. ASSUME Served(k, "read", b) PROVE Carries(reqs'[k])
  BY <1>1, <1>2, <1>4, <1>5 DEF Served, Carries
<1>6. UNCHANGED <<index, hist, status, prog, run>> /\ link' = link
  BY <1>1 DEF streamVars
<1>7. ReqTypes' /\ ReqInv'
  BY <1>1, <1>4, <1>5, <1>6, ServedQuietly DEF AllTypes, Steps
<1>8. ServerTypes'
  BY <1>6 DEF AllTypes, ServerTypes
<1> QED
  BY <1>7, <1>8

LEMMA HistoryIsRead ==
  ASSUME AllTypes, ReqInv, NEW k \in 1 .. Len(reqs), ServeHistory(k), script' \subseteq script
  PROVE  ReqTypes' /\ ReqInv' /\ ServerTypes'
<1> DEFINE s == reqs[k].session
           b == [status |-> reqs[k].body.status, prog |-> reqs[k].body.prog, hist |-> hist[s]]
<1>1. /\ reqs[k].kind = "state" /\ reqs[k].step = "read" /\ Step(k, "answered", b)
      /\ UNCHANGED <<index, streamVars>>
  BY DEF ServeHistory
<1>2. s \in Sessions /\ reqs[k].body \in ProgressBodies
  BY <1>1 DEF AllTypes, ReqTypes, Carries
<1>3. /\ reqs[k].body.prog \in ReadProgress
      /\ hist[s] \in Seq(Items)
      /\ reqs[k].body.status \in Statuses
  BY <1>2 DEF AllTypes, ServerTypes, ProgressBodies
<1>4. b \in SnapshotBodies
  BY <1>3 DEF SnapshotBodies
<1>5. b \in Bodies
  BY <1>4 DEF Bodies
<1>6. Once(b.hist) /\ Results \cap Seen(b.hist) = {}
  BY <1>2, HistoryIsClean DEF AllTypes, ReqInv
<1> HIDE DEF b
<1>7. ASSUME Served(k, "answered", b) PROVE Carries(reqs'[k])
  BY <1>1, <1>2, <1>4, <1>7 DEF Served, Carries
<1>8. UNCHANGED <<index, hist, status, prog, run>> /\ link' = link
  BY <1>1 DEF streamVars
<1>9. ReqTypes' /\ ReqInv'
  BY <1>1, <1>5, <1>6, <1>7, <1>8, ServedQuietly DEF AllTypes, Steps
<1>10. ServerTypes'
  BY <1>8 DEF AllTypes, ServerTypes
<1> QED
  BY <1>9, <1>10

LEMMA BootIsServed ==
  ASSUME AllTypes, ReqInv, NEW k \in 1 .. Len(reqs), ServeBoot(k) \/ ServeList(k),
         script' \subseteq script
  PROVE  ReqTypes' /\ ReqInv' /\ ServerTypes'
<1>1. PICK st, b :
        /\ st \in {"reading", "answered"}
        /\ Step(k, st, b)
        /\ st = "reading" => b = [current |-> index.current]
        /\ st = "answered" =>
             /\ reqs[k].step = "reading"
             /\ b = [current |-> reqs[k].body.current,
                     listed |-> index.listed \cup {s \in Sessions : prog[s] # "absent"}]
  BY DEF ServeBoot, ServeList
<1>2. reqs[k].kind = "boot" /\ UNCHANGED <<index, streamVars>>
  BY DEF ServeBoot, ServeList
<1>3. index.current \in Sessions \cup {NoSession} /\ index.listed \subseteq Sessions
  BY DEF AllTypes, ServerTypes, Indexes
<1>4. st = "reading" => b \in CurrentBodies
  BY <1>1, <1>3 DEF CurrentBodies
<1>5. st = "answered" => b \in BootBodies
  <2> SUFFICES ASSUME st = "answered" PROVE b \in BootBodies
    OBVIOUS
  <2>1. reqs[k].body \in CurrentBodies
    BY <1>1, <1>2 DEF AllTypes, ReqTypes, Carries
  <2>2. reqs[k].body.current \in Sessions \cup {NoSession}
    BY <2>1 DEF CurrentBodies
  <2> QED
    BY <1>1, <1>3, <2>2 DEF BootBodies
<1>6. b \in Bodies
  BY <1>1, <1>4, <1>5 DEF Bodies
<1>7. ASSUME Served(k, st, b) PROVE Carries(reqs'[k])
  BY <1>1, <1>2, <1>4, <1>5, <1>7 DEF Served, Carries
<1>8. UNCHANGED <<index, hist, status, prog, run>> /\ link' = link
  BY <1>2 DEF streamVars
<1>9. st \in Steps /\ st \notin {"sent", "locked"}
  BY <1>1 DEF Steps
<1>10. ReqTypes' /\ ReqInv'
  BY <1>1, <1>2, <1>6, <1>7, <1>8, <1>9, ServedQuietly DEF AllTypes
<1>11. ServerTypes'
  BY <1>8 DEF AllTypes, ServerTypes
<1> QED
  BY <1>10, <1>11

LEMMA FailureKeeps ==
  ASSUME AllTypes, ReqInv, NEW k \in 1 .. Len(reqs), RequestFails(k)
  PROVE  ReqTypes' /\ ReqInv' /\ ServerTypes'
<1>1. /\ Step(k, "failed", reqs[k].body)
      /\ UNCHANGED <<index, streamVars>>
      /\ script' \subseteq script
  BY DEF RequestFails, Happens
<1>2. reqs[k] \in Fetches /\ Carries(reqs[k])
  BY ElementOfSeq DEF AllTypes, ReqTypes
<1>3. reqs[k].body \in Bodies
  BY <1>2 DEF Fetches
<1>4. ASSUME Served(k, "failed", reqs[k].body) PROVE Carries(reqs'[k])
  BY <1>2, <1>4 DEF Served, Carries
<1>5. UNCHANGED <<index, hist, status, prog, run>> /\ link' = link
  BY <1>1 DEF streamVars
<1>6. ReqTypes' /\ ReqInv'
  BY <1>1, <1>3, <1>4, <1>5, ServedQuietly DEF AllTypes, Steps
<1>7. ServerTypes'
  BY <1>5 DEF AllTypes, ServerTypes
<1> QED
  BY <1>6, <1>7

LEMMA CursorKeepsLink ==
  ASSUME ServerTypes, NEW s, CursorMoves(s)
  PROVE  /\ link' \in Links
         /\ link'.state = link.state /\ link'.session = link.session /\ link'.frames = link.frames
<1>1. link' = link \/ link' = [link EXCEPT !.told = FALSE]
  BY DEF CursorMoves, CursorMoved
<1> QED
  BY <1>1 DEF ServerTypes, Links

LEMMA NoteIsAppended ==
  ASSUME AllTypes, ReqInv, NEW k \in 1 .. Len(reqs), ServeAppend(k), script' = script
  PROVE  ReqTypes' /\ ReqInv' /\ ServerTypes'
<1> DEFINE s == reqs[k].session
           n == reqs[k].note
           x == Note(n)
<1>1. /\ reqs[k].kind = "append" /\ reqs[k].step = "sent"
      /\ hist' = [hist EXCEPT ![s] = Append(hist[s], x)]
      /\ CursorMoves(s) /\ Step(k, "answered", reqs[k].body)
      /\ UNCHANGED <<index, status, prog, run>>
  BY DEF ServeAppend, AppendHistory
<1>2. reqs[k] \in Fetches /\ Carries(reqs[k])
  BY ElementOfSeq DEF AllTypes, ReqTypes
<1>3. s \in Sessions /\ reqs[k].body \in Bodies
  BY <1>1, <1>2 DEF Carries, Fetches
<1>4. x \in Items /\ x[1] = "user" /\ x[2] = n /\ n \in 0 .. 2
  BY <1>2 DEF Note, Items, Fetches
<1>5. Served(k, "answered", reqs[k].body)
  BY <1>1, <1>3, StepServes DEF AllTypes, Steps
<1>6. Carries(reqs'[k])
  BY <1>1, <1>2, <1>5 DEF Served, Carries
<1>7. ReqTypes'
  BY <1>5, <1>6, ServedTypes DEF AllTypes
<1>8. Locks'
  <2>1. DOMAIN reqs = 1 .. Len(reqs)
    BY DEF AllTypes, ReqTypes
  <2> QED
    BY <1>1, <1>5, <2>1, ServedLocks DEF ReqInv
<1>9. /\ OneStart' /\ (StartPending' => StartPending)
      /\ Pending' \subseteq Pending
      /\ \A j \in 1 .. Len(reqs) : Starting(reqs'[j]) <=> Starting(reqs[j])
  BY <1>5, ServedStarts DEF ReqInv
<1>10. Starting(reqs[k]) /\ n \in Pending /\ "starts" \notin script
  BY <1>1, <1>4 DEF Starting, NoteComes, Pending, ReqInv, OneStart
<1>11. n \notin Pending'
  <2>1. \A j \in 1 .. Len(reqs) : Starting(reqs'[j]) => j = k
    BY <1>9, <1>10 DEF ReqInv, OneStart
  <2>2. /\ Len(reqs') = Len(reqs) /\ reqs'[k].kind = "append" /\ reqs'[k].step # "sent"
        /\ reqs'[k].rest = reqs[k].rest
    BY <1>1, <1>5 DEF Served
  <2>3. ~NoteComes(reqs'[k], n)
    BY <1>1, <1>2, <2>2 DEF NoteComes, Carries
  <2> QED
    BY <1>10, <2>1, <2>2, <2>3 DEF Pending
<1>12. SnapshotsOnce'
  BY <1>1, <1>5, ServedSnapshots DEF ReqInv
<1>13. \A g \in Sessions : hist[g] \in Seq(Items) /\ Once(hist[g])
          /\ \A i \in 1 .. Len(hist[g]) : Possible(hist[g][i], run.events, Pending)
  BY DEF AllTypes, ServerTypes, ReqInv, Histories
<1>14. x \notin Seen(hist[s])
  <2>1. \A i \in 1 .. Len(hist[s]) : hist[s][i][1] = "event" \/ hist[s][i][2] # n
    BY <1>3, <1>10, <1>13 DEF Possible
  <2>2. DOMAIN hist[s] = 1 .. Len(hist[s])
    BY <1>3, <1>13
  <2> QED
    BY <1>4, <2>1, <2>2 DEF Seen
<1> HIDE DEF x, s, n
<1>15. Append(hist[s], x) \in Seq(Items) /\ Once(Append(hist[s], x))
  BY <1>3, <1>4, <1>13, <1>14, OnceMore
<1>16. hist' \in [Sessions -> Seq(Items)]
  BY <1>1, <1>15 DEF AllTypes, ServerTypes
<1>17. \A y : Possible(y, run.events, Pending) => Possible(y, run'.events, Pending')
  BY <1>1, <1>9 DEF Possible
<1>18. ASSUME NEW g \in Sessions
       PROVE  /\ Once(hist'[g])
              /\ \A i \in 1 .. Len(hist'[g]) : Possible(hist'[g][i], run'.events, Pending')
  <2>1. CASE g # s
    <3>1. hist'[g] = hist[g]
      BY <1>1, <2>1 DEF AllTypes, ServerTypes
    <3>2. \A i \in 1 .. Len(hist[g]) : Possible(hist[g][i], run'.events, Pending')
      BY <1>13, <1>17
    <3> QED
      BY <1>13, <3>1, <3>2 DEF Possible
  <2>2. CASE g = s
    <3>1. hist'[s] = Append(hist[s], x)
      BY <1>1, <1>3 DEF AllTypes, ServerTypes
    <3>2. /\ Len(hist'[s]) = Len(hist[s]) + 1 /\ hist'[s][Len(hist[s]) + 1] = x
          /\ \A i \in 1 .. Len(hist[s]) : hist'[s][i] = hist[s][i]
      BY <1>3, <1>4, <1>13, <3>1, AppendProperties
    <3>3. Possible(x, run'.events, Pending')
      BY <1>4, <1>11 DEF Possible
    <3>4. ASSUME NEW i \in 1 .. Len(hist'[s])
          PROVE  Possible(hist'[s][i], run'.events, Pending')
      <4>1. i \in 1 .. Len(hist[s]) \/ hist'[s][i] = x
        <5>1. Len(hist[s]) \in Nat
          BY <1>3, <1>13
        <5> QED
          BY <3>2, <5>1
      <4>2. CASE i \in 1 .. Len(hist[s])
        <5>1. hist'[s][i] = hist[s][i] /\ Possible(hist[s][i], run.events, Pending)
          BY <1>3, <1>13, <3>2, <4>2
        <5> QED
          BY <1>17, <5>1
      <4>3. CASE hist'[s][i] = x
        BY <1>4, <1>11, <4>3 DEF Possible
      <4> QED
        BY <4>1, <4>2, <4>3
    <3> QED
      BY <1>15, <2>2, <3>1, <3>4
  <2> QED
    BY <2>1, <2>2
<1>19. Histories'
  <2>1. StartPending' => run' = NoRun
    BY <1>1, <1>9 DEF ReqInv, Histories
  <2> QED
    BY <1>18, <2>1 DEF Histories, Once, Possible, NoRun
<1>20. ServerTypes'
  <2>1. link' \in Links /\ link'.state = link.state /\ link'.session = link.session
        /\ link'.frames = link.frames
    BY <1>1, CursorKeepsLink DEF AllTypes
  <2> QED
    BY <1>1, <1>16, <2>1 DEF AllTypes, ServerTypes
<1> QED
  BY <1>7, <1>8, <1>9, <1>12, <1>19, <1>20 DEF ReqInv

LEMMA RunIsStarted ==
  ASSUME AllTypes, ReqInv, NEW k \in 1 .. Len(reqs), ServeStart(k), script' = script
  PROVE  ReqTypes' /\ ReqInv' /\ ServerTypes'
<1> DEFINE s == reqs[k].session
<1>0. PICK st \in {"running", "failed"} :
        /\ status' = [status EXCEPT ![s] = st]
        /\ run' \in {run, [NoRun EXCEPT !.session = s, !.step = "talk"]}
        /\ Step(k, "answered", [status |-> st])
  BY DEF ServeStart
<1> DEFINE b == [status |-> st]
<1>1. /\ reqs[k].kind = "start" /\ reqs[k].step = "sent"
      /\ CursorMoves(s) /\ Step(k, "answered", b)
      /\ UNCHANGED <<index, hist, prog>>
  BY <1>0 DEF ServeStart
<1>2. s \in Sessions
  BY <1>1 DEF AllTypes, ReqTypes, Carries
<1>3. b \in StatusBodies /\ b \in Bodies
  BY DEF StatusBodies, Statuses, Bodies
<1> HIDE DEF b
<1>4. Served(k, "answered", b)
  BY <1>1, <1>3, StepServes DEF AllTypes, Steps
<1>5. Carries(reqs'[k])
  BY <1>1, <1>2, <1>3, <1>4 DEF Served, Carries
<1>6. ReqTypes'
  BY <1>4, <1>5, ServedTypes DEF AllTypes
<1>7. Locks'
  <2>1. DOMAIN reqs = 1 .. Len(reqs)
    BY DEF AllTypes, ReqTypes
  <2> QED
    BY <1>1, <1>4, <2>1, ServedLocks DEF ReqInv
<1>8. /\ OneStart' /\ Pending' \subseteq Pending
      /\ \A j \in 1 .. Len(reqs) : Starting(reqs'[j]) <=> Starting(reqs[j])
  BY <1>4, ServedStarts DEF ReqInv
<1>9. Starting(reqs[k]) /\ StartPending /\ "starts" \notin script
  BY <1>1 DEF Starting, StartPending, StartComes, ReqInv, OneStart
<1>10. ~StartPending'
  <2>1. \A j \in 1 .. Len(reqs) : Starting(reqs'[j]) => j = k
    BY <1>8, <1>9 DEF ReqInv, OneStart
  <2>2. Len(reqs') = Len(reqs) /\ reqs'[k].kind = "start" /\ reqs'[k].step # "sent"
    BY <1>1, <1>4 DEF Served
  <2> QED
    BY <1>9, <2>1, <2>2 DEF StartPending, StartComes
<1>11. SnapshotsOnce'
  BY <1>1, <1>4, ServedSnapshots DEF ReqInv
<1>12. run' \in RunThreads /\ run'.events = run.events
  <2> DEFINE started == [NoRun EXCEPT !.session = s, !.step = "talk"]
  <2>1. run = NoRun
    BY <1>9 DEF ReqInv, Histories
  <2>2. NoRun \in RunThreads
    BY DEF NoRun, RunThreads
  <2>3. started \in RunThreads /\ started.events = NoRun.events
    BY <1>2, <2>2 DEF NoRun, RunThreads
  <2>4. run' = run \/ run' = started
    BY <1>0
  <2> QED
    BY <2>1, <2>2, <2>3, <2>4
<1>13. Histories'
  <2>1. ASSUME NEW x, Possible(x, run.events, Pending)
        PROVE  Possible(x, run'.events, Pending')
    BY <1>8, <1>12, <2>1 DEF Possible
  <2>2. \A g \in Sessions :
          /\ Once(hist[g])'
          /\ \A i \in 1 .. Len(hist[g]) :
               Possible(hist[g][i], run'.events, Pending')
    BY <1>1, <2>1 DEF ReqInv, Histories, Once
  <2> QED
    BY <1>1, <1>10, <2>2 DEF Histories, Once, Possible, NoRun
<1>14. ServerTypes'
  <2>1. link' \in Links /\ link'.state = link.state /\ link'.session = link.session
        /\ link'.frames = link.frames
    BY <1>1, CursorKeepsLink DEF AllTypes
  <2>2. status' \in [Sessions -> Statuses]
    BY <1>0 DEF AllTypes, ServerTypes, Statuses
  <2> QED
    BY <1>1, <1>12, <2>1, <2>2 DEF AllTypes, ServerTypes
<1> QED
  BY <1>6, <1>7, <1>8, <1>11, <1>13, <1>14 DEF ReqInv

LEMMA ListIsLocked ==
  ASSUME AllTypes, ReqInv, NEW k \in 1 .. Len(reqs), ServeLocked(k), script' = script
  PROVE  ReqTypes' /\ ReqInv' /\ ServerTypes'
<1>1. /\ reqs[k].kind \in IndexKinds /\ ~Locked /\ Step(k, "locked", index)
      /\ UNCHANGED <<index, streamVars>>
  BY DEF ServeLocked
<1>2. index \in Bodies
  BY DEF AllTypes, ServerTypes, Bodies
<1>3. Served(k, "locked", index)
  BY <1>1, <1>2, StepServes DEF AllTypes, Steps
<1>4. Carries(reqs'[k])
  BY <1>1, <1>3 DEF Served, Carries, IndexKinds, AllTypes, ReqTypes
<1>5. ReqTypes'
  BY <1>3, <1>4, ServedTypes DEF AllTypes
<1>6. Locks'
  <2>1. DOMAIN reqs = 1 .. Len(reqs)
    BY DEF AllTypes, ReqTypes
  <2> QED
    BY <1>1, <1>3, <2>1, ServedLocks DEF ReqInv
<1>7. OneStart' /\ (StartPending' => StartPending) /\ Pending' \subseteq Pending
  BY <1>3, ServedStarts DEF ReqInv
<1>8. hist' = hist /\ run' = run
  BY <1>1 DEF streamVars
<1>9. Histories'
  BY <1>7, <1>8, PendingKeepsHistories DEF ReqInv
<1>10. SnapshotsOnce'
  BY <1>3, ServedSnapshots DEF ReqInv
<1>11. ServerTypes'
  BY <1>1 DEF AllTypes, ServerTypes, streamVars
<1> QED
  BY <1>5, <1>6, <1>7, <1>9, <1>10, <1>11 DEF ReqInv

LEMMA UpdatesKeepType ==
  ASSUME NEW kind \in IndexKinds, NEW s \in Sessions, NEW ix \in Indexes
  PROVE  Updates(kind, s, ix) \subseteq Indexes
<1>1. Listed(s, ix) \in Indexes /\ MadeCurrent(s, ix) \in Indexes
  BY DEF Indexes, Listed, MadeCurrent
<1>2. Heirs(s, ix) \subseteq Sessions \cup {NoSession}
  BY DEF Indexes, Heirs
<1>3. Unlisted(s, ix) \subseteq Indexes
  BY <1>2 DEF Indexes, Unlisted
<1> QED
  BY <1>1, <1>3 DEF Updates, IndexKinds

LEMMA ListIsWritten ==
  ASSUME AllTypes, ReqInv, NEW k \in 1 .. Len(reqs), ServeWrite(k), script' = script
  PROVE  /\ ReqTypes' /\ ReqInv' /\ ServerTypes'
         /\ \E kind \in IndexKinds, s \in Sessions : index' \in Updates(kind, s, index)
<1>1. PICK st \in {"wiping", "answered"} :
        /\ Step(k, st, NoBody)
        /\ st = "wiping" => reqs[k].kind = "delete"
  BY DEF ServeWrite
<1>2. /\ reqs[k].step = "locked" /\ UNCHANGED streamVars
      /\ index' \in Updates(reqs[k].kind, reqs[k].session, reqs[k].body)
  BY DEF ServeWrite, WriteIndex
<1>3. reqs[k].body = index /\ reqs[k].kind \in IndexKinds
  BY <1>2 DEF ReqInv, Locks
<1>4. reqs[k].session \in Sessions
  BY <1>3 DEF AllTypes, ReqTypes, Carries, IndexKinds
<1>5. index' \in Indexes
  BY <1>2, <1>3, <1>4, UpdatesKeepType DEF AllTypes, ServerTypes
<1>6. Served(k, st, NoBody)
  BY <1>1, StepServes DEF AllTypes, Steps, Bodies
<1>7. Carries(reqs'[k])
  BY <1>1, <1>3, <1>4, <1>6 DEF Served, Carries, IndexKinds
<1>8. ReqTypes'
  BY <1>6, <1>7, ServedTypes DEF AllTypes
<1>9. Locks'
  <2>1. DOMAIN reqs = 1 .. Len(reqs)
    BY DEF AllTypes, ReqTypes
  <2> QED
    BY <1>1, <1>2, <1>6, <2>1, ServedLocks DEF ReqInv
<1>10. OneStart' /\ (StartPending' => StartPending) /\ Pending' \subseteq Pending
  BY <1>1, <1>6, ServedStarts DEF ReqInv
<1>11. hist' = hist /\ run' = run
  BY <1>2 DEF streamVars
<1>12. Histories'
  BY <1>10, <1>11, PendingKeepsHistories DEF ReqInv
<1>13. SnapshotsOnce'
  BY <1>3, <1>6, ServedSnapshots DEF ReqInv, IndexKinds
<1>14. ServerTypes'
  BY <1>2, <1>5 DEF AllTypes, ServerTypes, streamVars
<1> QED
  BY <1>2, <1>3, <1>4, <1>8, <1>9, <1>10, <1>12, <1>13, <1>14 DEF ReqInv

LEMMA SessionIsWiped ==
  ASSUME AllTypes, ReqInv, NEW k \in 1 .. Len(reqs), ServeWipe(k), script' = script
  PROVE  ReqTypes' /\ ReqInv' /\ ServerTypes'
<1> DEFINE s == reqs[k].session
<1>1. /\ reqs[k].step = "wiping" /\ Step(k, "dropping", reqs[k].body)
      /\ hist' = [hist EXCEPT ![s] = <<>>] /\ prog' = [prog EXCEPT ![s] = "absent"]
      /\ CursorMoves(s)
      /\ run' = run \/ (run.session = s /\ run' = [run EXCEPT !.lost = TRUE])
      /\ UNCHANGED <<index, status>>
  BY DEF ServeWipe, WipeSession
<1>0. run' \in RunThreads /\ run'.events = run.events /\ (run = NoRun => run' = run)
  <2>1. s \in Sessions
    BY <1>1, ElementOfSeq DEF AllTypes, ReqTypes, Carries
  <2>2. run = NoRun => run.session # s
    BY <2>1, NoSessionAssumption DEF NoRun
  <2> QED
    BY <1>1, <2>2 DEF AllTypes, ServerTypes, RunThreads
<1>2. reqs[k] \in Fetches /\ Carries(reqs[k])
  BY ElementOfSeq DEF AllTypes, ReqTypes
<1>3. s \in Sessions /\ reqs[k].body \in Bodies /\ reqs[k].kind = "delete"
  BY <1>1, <1>2 DEF Carries, Fetches
<1>4. Served(k, "dropping", reqs[k].body)
  BY <1>1, <1>3, StepServes DEF AllTypes, Steps
<1>5. Carries(reqs'[k])
  BY <1>2, <1>3, <1>4 DEF Served, Carries
<1>6. ReqTypes'
  BY <1>4, <1>5, ServedTypes DEF AllTypes
<1>7. Locks'
  <2>1. DOMAIN reqs = 1 .. Len(reqs)
    BY DEF AllTypes, ReqTypes
  <2> QED
    BY <1>1, <1>4, <2>1, ServedLocks DEF ReqInv
<1>8. OneStart' /\ (StartPending' => StartPending) /\ Pending' \subseteq Pending
  BY <1>4, ServedStarts DEF ReqInv
<1>9. SnapshotsOnce'
  BY <1>3, <1>4, ServedSnapshots DEF ReqInv
<1> HIDE DEF s
<1>10. \A g \in Sessions : hist'[g] = hist[g] \/ hist'[g] = <<>>
  BY <1>1 DEF AllTypes, ServerTypes
<1>11. ASSUME NEW x, Possible(x, run.events, Pending)
       PROVE  Possible(x, run'.events, Pending')
  BY <1>0, <1>8, <1>11 DEF Possible
<1>12. ASSUME NEW g \in Sessions
       PROVE  /\ Once(hist'[g])
              /\ \A i \in 1 .. Len(hist'[g]) : Possible(hist'[g][i], run'.events, Pending')
  <2>1. CASE hist'[g] = <<>>
    BY <2>1 DEF Once
  <2>2. CASE hist'[g] = hist[g]
    <3>1. \A i \in 1 .. Len(hist[g]) : Possible(hist[g][i], run'.events, Pending')
      BY <1>11 DEF ReqInv, Histories
    <3> QED
      BY <2>2, <3>1 DEF ReqInv, Histories, Possible
  <2> QED
    BY <1>10, <2>1, <2>2
<1>13. Histories'
  <2>1. StartPending' => run' = NoRun
    BY <1>0, <1>8 DEF ReqInv, Histories
  <2> QED
    BY <1>12, <2>1 DEF Histories, Once, Possible, NoRun
<1>14. ServerTypes'
  <2>1. link' \in Links /\ link'.state = link.state /\ link'.session = link.session
        /\ link'.frames = link.frames
    BY <1>1, CursorKeepsLink DEF AllTypes
  <2>2. hist' \in [Sessions -> Seq(Items)]
    <3>1. <<>> \in Seq(Items)
      OBVIOUS
    <3> QED
      BY <1>1, <3>1 DEF AllTypes, ServerTypes
  <2>3. prog' \in [Sessions -> Progresses]
    BY <1>1 DEF AllTypes, ServerTypes, Progresses, ReadProgress
  <2> QED
    BY <1>0, <1>1, <2>1, <2>2, <2>3 DEF AllTypes, ServerTypes
<1> QED
  BY <1>6, <1>7, <1>8, <1>9, <1>13, <1>14 DEF ReqInv

LEMMA SubscribersAreDropped ==
  ASSUME AllTypes, ReqInv, NEW k \in 1 .. Len(reqs), ServeDrop(k), script' = script
  PROVE  ReqTypes' /\ ReqInv' /\ ServerTypes'
<1>1. /\ reqs[k].step = "dropping" /\ Step(k, "answered", reqs[k].body)
      /\ link' = link \/ link' = [link EXCEPT !.subscribed = FALSE]
      /\ UNCHANGED <<index, hist, status, prog, run>>
  BY DEF ServeDrop, DropSubscribers
<1>2. reqs[k] \in Fetches /\ Carries(reqs[k])
  BY ElementOfSeq DEF AllTypes, ReqTypes
<1>3. reqs[k].body \in Bodies /\ reqs[k].kind = "delete"
  BY <1>1, <1>2 DEF Carries, Fetches
<1>4. ASSUME Served(k, "answered", reqs[k].body) PROVE Carries(reqs'[k])
  BY <1>2, <1>3, <1>4 DEF Served, Carries
<1>5. ReqTypes' /\ ReqInv'
  BY <1>1, <1>3, <1>4, ServedQuietly DEF AllTypes, Steps
<1>6. /\ link' \in Links /\ link'.state = link.state /\ link'.session = link.session
      /\ link'.frames = link.frames
  BY <1>1 DEF AllTypes, ServerTypes, Links
<1>7. ServerTypes'
  BY <1>1, <1>6 DEF AllTypes, ServerTypes
<1> QED
  BY <1>5, <1>7

-----------------------------------------------------------------------------
(* The run and the thread of the socket.                                   *)

(* Requests that do not change, with a history that stays clean.           *)
LEMMA NothingServed ==
  ASSUME AllTypes, ReqInv, UNCHANGED <<index, reqVars>>, Histories'
  PROVE  ReqTypes' /\ ReqInv'
<1>1. reqs' = reqs /\ script' = script /\ index' = index
  BY DEF reqVars
<1>2. ReqTypes'
  BY <1>1 DEF AllTypes, ReqTypes, Carries
<1>3. Locks'
  BY <1>1 DEF ReqInv, Locks
<1>4. OneStart'
  BY <1>1 DEF ReqInv, OneStart, Starting
<1>5. SnapshotsOnce'
  BY <1>1 DEF ReqInv, SnapshotsOnce, Once, Seen
<1> QED
  BY <1>2, <1>3, <1>4, <1>5 DEF ReqInv

LEMMA PendingStays ==
  ASSUME UNCHANGED reqVars
  PROVE  (StartPending' <=> StartPending) /\ Pending' = Pending
<1>1. reqs' = reqs /\ script' = script
  BY DEF reqVars
<1> QED
  BY <1>1 DEF StartPending, Pending, Starting, StartComes, NoteComes

LEMMA EventIsAppended ==
  ASSUME AllTypes, ReqInv, RunEmits, UNCHANGED <<index, reqVars>>
  PROVE  ReqTypes' /\ ReqInv' /\ ServerTypes'
<1> DEFINE s == run.session
           n == run.events + 1
           x == Event(n)
<1>1. /\ run.step = "talk" /\ hist' = [hist EXCEPT ![s] = Append(hist[s], x)]
      /\ run' = [run EXCEPT !.events = n, !.step = "publish"]
      /\ CursorMoves(s) /\ UNCHANGED <<index, status, prog>>
  BY DEF RunEmits, AppendHistory
<1>2. run \in RunThreads /\ run.events \in Nat /\ n \in Nat
  BY DEF AllTypes, ServerTypes, RunThreads
<1>3. run' \in RunThreads /\ run'.events = n
  BY <1>1, <1>2 DEF RunThreads
<1>4. x \in Items /\ x[1] = "event" /\ x[2] = n
  BY <1>2 DEF Event, Items
<1>5. (StartPending' <=> StartPending) /\ Pending' = Pending
  BY PendingStays
<1>6. ~StartPending
  BY <1>1 DEF ReqInv, Histories, NoRun
<1>7. \A g \in Sessions : hist[g] \in Seq(Items) /\ Once(hist[g])
          /\ \A i \in 1 .. Len(hist[g]) : Possible(hist[g][i], run.events, Pending)
  BY DEF AllTypes, ServerTypes, ReqInv, Histories
<1> HIDE DEF x, s
<1>8. ASSUME NEW y, Possible(y, run.events, Pending)
      PROVE  Possible(y, run'.events, Pending') /\ y # x
  BY <1>2, <1>3, <1>4, <1>5, <1>8 DEF Possible
<1>9. s \in Sessions => x \notin Seen(hist[s])
  BY <1>7, <1>8 DEF Seen
<1>10. s \in Sessions => Append(hist[s], x) \in Seq(Items) /\ Once(Append(hist[s], x))
  BY <1>4, <1>7, <1>9, OnceMore
<1>11. hist' \in [Sessions -> Seq(Items)]
  <2>1. hist \in [Sessions -> Seq(Items)]
    BY DEF AllTypes, ServerTypes
  <2> QED
    BY <1>1, <1>10, <2>1
<1>12. Possible(x, run'.events, Pending')
  BY <1>2, <1>3, <1>4 DEF Possible
<1>13. ASSUME NEW g \in Sessions
       PROVE  /\ Once(hist'[g])
              /\ \A i \in 1 .. Len(hist'[g]) : Possible(hist'[g][i], run'.events, Pending')
  <2>1. CASE g # s
    <3>1. hist'[g] = hist[g]
      BY <1>1, <2>1 DEF AllTypes, ServerTypes
    <3>2. \A i \in 1 .. Len(hist[g]) : Possible(hist[g][i], run'.events, Pending')
      BY <1>7, <1>8
    <3> QED
      BY <1>7, <3>1, <3>2
  <2>2. CASE g = s
    <3>1. hist'[g] = Append(hist[g], x) /\ hist[g] \in Seq(Items)
      BY <1>1, <1>7, <2>2 DEF AllTypes, ServerTypes
    <3>2. /\ Len(hist'[g]) = Len(hist[g]) + 1 /\ hist'[g][Len(hist[g]) + 1] = x
          /\ \A i \in 1 .. Len(hist[g]) : hist'[g][i] = hist[g][i]
      BY <1>4, <3>1, AppendProperties
    <3>3. ASSUME NEW i \in 1 .. Len(hist'[g])
          PROVE  Possible(hist'[g][i], run'.events, Pending')
      <4>1. i \in 1 .. Len(hist[g]) \/ hist'[g][i] = x
        <5>1. Len(hist[g]) \in Nat
          BY <3>1
        <5> QED
          BY <3>2, <5>1
      <4>2. CASE i \in 1 .. Len(hist[g])
        BY <1>7, <1>8, <3>2, <4>2
      <4>3. CASE hist'[g][i] = x
        BY <1>12, <4>3
      <4> QED
        BY <4>1, <4>2, <4>3
    <3> QED
      BY <1>10, <2>2, <3>1, <3>3
  <2> QED
    BY <2>1, <2>2
<1>14. Histories'
  BY <1>5, <1>6, <1>13 DEF Histories, Once, Possible, NoRun
<1>15. ServerTypes'
  <2>1. link' \in Links /\ link'.state = link.state /\ link'.session = link.session
        /\ link'.frames = link.frames
    BY <1>1, CursorKeepsLink DEF AllTypes
  <2> QED
    BY <1>1, <1>3, <1>11, <2>1 DEF AllTypes, ServerTypes
<1> QED
  BY <1>14, <1>15, NothingServed

(* The other steps of the run add nothing to the history.                  *)
LEMMA RunGoesOn ==
  ASSUME AllTypes, ReqInv, UNCHANGED <<index, reqVars>>,
         RunPublishes \/ RunPuts \/ RunOpensProgress \/ RunWritesProgress \/ RunEnds
  PROVE  ReqTypes' /\ ReqInv' /\ ServerTypes'
<1>1. run \in RunThreads /\ link \in Links
  BY DEF AllTypes, ServerTypes
<1>2. run' \in RunThreads /\ run'.events = run.events /\ run.step # "off" /\ hist' = hist
  <2>1. CASE RunPublishes
    <3>1. (link.subscribed /\ link.session = run.session) \in BOOLEAN
      OBVIOUS
    <3> QED
      BY <1>1, <2>1 DEF RunPublishes, RunThreads, Links
  <2>2. CASE RunPuts
    BY <1>1, <2>2 DEF RunPuts, RunThreads
  <2>3. CASE RunOpensProgress
    <3>1. /\ run' = [run EXCEPT !.step = "write", !.writes = @ + 1]
          /\ run.step = "talk" /\ hist' = hist
      BY <2>3 DEF RunOpensProgress
    <3>2. run.writes + 1 \in Nat
      BY <1>1 DEF RunThreads
    <3> QED
      BY <1>1, <3>1, <3>2 DEF RunThreads
  <2>4. CASE RunWritesProgress
    BY <1>1, <2>4 DEF RunWritesProgress, RunThreads
  <2>5. CASE RunEnds
    BY <1>1, <2>5 DEF RunEnds, RunThreads
  <2> QED
    BY <2>1, <2>2, <2>3, <2>4, <2>5
<1>3. (StartPending' <=> StartPending) /\ Pending' = Pending
  BY PendingStays
<1>4. ~StartPending
  BY <1>2 DEF ReqInv, Histories, NoRun
<1>5. Histories'
  BY <1>2, <1>3, <1>4 DEF ReqInv, Histories, Once, Possible, NoRun
<1>6. ReqTypes' /\ ReqInv'
  BY <1>5, NothingServed
<1>7. /\ link' \in Links /\ link'.state = link.state /\ link'.session = link.session
      /\ link'.frames = link.frames
  <2>1. CASE RunPublishes
    BY <1>1, <2>1 DEF RunPublishes
  <2>2. CASE RunPuts
    <3>1. Event(run.events) \in Items /\ link.queue \in Seq(Items)
      BY <1>1 DEF Event, Items, RunThreads, Links
    <3>2. Append(link.queue, Event(run.events)) \in Seq(Items)
      BY <3>1
    <3>3. link' = link \/ link' = [link EXCEPT !.queue = Append(link.queue, Event(run.events))]
      BY <2>2 DEF RunPuts
    <3> QED
      BY <1>1, <3>2, <3>3 DEF Links
  <2>3. CASE RunOpensProgress \/ RunWritesProgress \/ RunEnds
    BY <2>3, CursorKeepsLink DEF AllTypes, RunOpensProgress, RunWritesProgress, RunEnds
  <2> QED
    BY <2>1, <2>2, <2>3
<1>8. status' \in [Sessions -> Statuses]
  <2>1. status' = status \/ \E v \in Statuses : status' = [status EXCEPT ![run.session] = v]
    BY DEF RunPublishes, RunPuts, RunOpensProgress, RunWritesProgress, RunEnds, Statuses
  <2> QED
    BY <2>1 DEF AllTypes, ServerTypes
<1>9. prog' \in [Sessions -> Progresses]
  <2>1. \/ prog' = prog \/ prog' = [prog EXCEPT ![run.session] = "torn"]
        \/ \E says \in {"open", "completed", "failed"} :
             prog' = [prog EXCEPT ![run.session] = IF @ = "torn" THEN says ELSE @]
    BY DEF RunPublishes, RunPuts, RunOpensProgress, RunWritesProgress, RunEnds
  <2> QED
    BY <2>1 DEF AllTypes, ServerTypes, Progresses, ReadProgress
<1>10. index' = index
  OBVIOUS
<1>11. ServerTypes'
  BY <1>2, <1>7, <1>8, <1>9, <1>10 DEF AllTypes, ServerTypes
<1> QED
  BY <1>6, <1>11

LEMMA HandlerGoesOn ==
  ASSUME AllTypes, ReqInv, HandlerNext, UNCHANGED <<index, reqVars>>
  PROVE  ReqTypes' /\ ReqInv' /\ ServerTypes'
<1>1. UNCHANGED <<hist, status, prog, run>>
  BY DEF HandlerNext, HandlerRegisters, HandlerForwards, HandlerSignals
<1>2. (StartPending' <=> StartPending) /\ Pending' = Pending
  BY PendingStays
<1>3. Histories'
  BY <1>1, <1>2, PendingKeepsHistories DEF ReqInv
<1>4. link \in Links /\ (link.state # "shut" => link.session \in Sessions)
  BY DEF AllTypes, ServerTypes
<1>5. /\ link' \in Links
      /\ link.state # "shut"
      /\ link'.state # "shut"
      /\ link'.session = link.session
  <2>1. CASE HandlerRegisters
    BY <1>4, <2>1 DEF HandlerRegisters, Links
  <2>2. CASE HandlerForwards
    <3>1. link.state = "serving" /\ link.queue # <<>>
          /\ link' = [link EXCEPT !.queue = Tail(@), !.frames = Append(@, Head(link.queue))]
      BY <2>2 DEF HandlerForwards, Serving
    <3>2. link.queue \in Seq(Items) /\ link.frames \in Seq(Items \cup {<<"signal">>})
      BY <1>4 DEF Links
    <3>3. Tail(link.queue) \in Seq(Items) /\ Head(link.queue) \in Items
      BY <3>1, <3>2
    <3>4. Append(link.frames, Head(link.queue)) \in Seq(Items \cup {<<"signal">>})
      BY <3>2, <3>3
    <3> QED
      BY <1>4, <3>1, <3>3, <3>4 DEF Links
  <2>3. CASE HandlerSignals
    <3>1. link.state = "serving"
          /\ link' = [link EXCEPT !.told = TRUE, !.frames = Append(@, <<"signal">>)]
      BY <2>3 DEF HandlerSignals, Serving
    <3>2. Append(link.frames, <<"signal">>) \in Seq(Items \cup {<<"signal">>})
      BY <1>4 DEF Links
    <3> QED
      BY <1>4, <3>1, <3>2 DEF Links
  <2> QED
    BY <2>1, <2>2, <2>3 DEF HandlerNext
<1>6. ServerTypes'
  BY <1>1, <1>4, <1>5 DEF AllTypes, ServerTypes
<1> QED
  BY <1>3, <1>6, NothingServed

-----------------------------------------------------------------------------
(* The effect that listens.                                                *)

Tidy(e) ==
  /\ e.timer <=> (e.sock = "none")
  /\ e.timer => e.poll
  /\ e.sock = "live" => ~e.poll

(* What OneListener says, of a list of effects and a current session.      *)
Listens(es, c) ==
  /\ c # NoSession =>
       es # <<>> /\ ~es[Len(es)].disposed /\ es[Len(es)].session = c
  /\ \A i \in 1 .. Len(es) :
       /\ es[i].disposed => ~es[i].timer /\ ~es[i].poll
       /\ ~es[i].disposed => i = Len(es) /\ c # NoSession /\ Tidy(es[i])

LEMMA ListenersAre ==
  ASSUME effects \in Seq(Effects)
  PROVE  OneListener <=> Listens(effects, cur)
<1>1. DOMAIN effects = 1 .. Len(effects)
  OBVIOUS
<1> QED
  BY <1>1 DEF OneListener, Live, Hook, Listens, Tidy

LEMMA ListenersWillBe ==
  ASSUME effects' \in Seq(Effects), Listens(effects', cur')
  PROVE  OneListener'
<1>1. DOMAIN effects' = 1 .. Len(effects')
  OBVIOUS
<1> QED
  BY <1>1 DEF OneListener, Live, Hook, Listens, Tidy

LEMMA NewListens ==
  ASSUME NEW es \in Seq(Effects), Listens(es, NoSession), NEW s \in Sessions
  PROVE  es \o <<NewEffect(s)>> \in Seq(Effects) /\ Listens(es \o <<NewEffect(s)>>, s)
<1> DEFINE e == NewEffect(s)
           t == es \o <<e>>
           n == Len(es)
<1>1. /\ e \in Effects /\ ~e.disposed /\ e.session = s /\ Tidy(e)
  BY DEF NewEffect, Effects, Tidy
<1>2. n \in Nat
  OBVIOUS
<1> HIDE DEF e
<1>3. /\ t \in Seq(Effects) /\ Len(t) = n + 1 /\ t[n + 1] = e
      /\ \A i \in 1 .. n : t[i] = es[i]
  <2>1. <<e>> \in Seq(Effects) /\ Len(<<e>>) = 1 /\ <<e>>[1] = e
    BY <1>1
  <2>2. /\ t \in Seq(Effects) /\ Len(t) = n + 1
        /\ \A i \in 1 .. n + 1 : t[i] = IF i <= n THEN es[i] ELSE <<e>>[i - n]
    BY <2>1, ConcatProperties
  <2>3. n + 1 \in 1 .. n + 1 /\ ~(n + 1 <= n) /\ n + 1 - n = 1
    BY <1>2
  <2>4. t[n + 1] = e
    BY <2>1, <2>2, <2>3
  <2>5. \A i \in 1 .. n : t[i] = es[i]
    BY <1>2, <2>2
  <2> QED
    BY <2>2, <2>4, <2>5
<1> HIDE DEF t
<1>4. \A i \in 1 .. (n + 1) : i \in 1 .. n \/ i = n + 1
  BY <1>2
<1>5. s # NoSession
  BY NoSessionAssumption
<1>6. \A i \in 1 .. n : es[i].disposed /\ ~es[i].timer /\ ~es[i].poll
  BY DEF Listens
<1>7. t # <<>>
  BY <1>2, <1>3
<1>8. Listens(t, s)
  <2>1. ASSUME NEW i \in 1 .. (n + 1)
        PROVE  /\ t[i].disposed => ~t[i].timer /\ ~t[i].poll
               /\ ~t[i].disposed => i = n + 1 /\ Tidy(t[i])
    BY <1>1, <1>3, <1>4, <1>6
  <2> QED
    BY <1>1, <1>3, <1>5, <1>7, <2>1 DEF Listens
<1> QED
  BY <1>3, <1>8 DEF t, e

(* One effect changes but for its session and whether it was cleaned up.   *)
LEMMA OneChanges ==
  ASSUME NEW es \in Seq(Effects), NEW c, Listens(es, c), NEW i \in 1 .. Len(es),
         NEW e \in Effects, e.session = es[i].session, e.disposed = es[i].disposed,
         e.disposed => ~e.timer /\ ~e.poll, ~e.disposed => Tidy(e)
  PROVE  [es EXCEPT ![i] = e] \in Seq(Effects) /\ Listens([es EXCEPT ![i] = e], c)
<1> DEFINE t == [es EXCEPT ![i] = e]
           n == Len(es)
<1>1. /\ n \in Nat /\ t \in Seq(Effects) /\ Len(t) = n
      /\ \A j \in 1 .. n : t[j] = IF j = i THEN e ELSE es[j]
  <2>1. n \in Nat /\ es \in [1 .. n -> Effects]
    OBVIOUS
  <2>2. t \in [1 .. n -> Effects] /\ \A j \in 1 .. n : t[j] = IF j = i THEN e ELSE es[j]
    BY <2>1
  <2> QED
    BY <2>1, <2>2
<1> HIDE DEF t
<1>2. es # <<>> => n \in 1 .. n
  BY <1>1
<1>3. t # <<>>
  BY <1>1
<1>4. /\ c # NoSession => ~t[n].disposed /\ t[n].session = c
  BY <1>1, <1>2 DEF Listens
<1>5. \A j \in 1 .. n :
        /\ t[j].disposed => ~t[j].timer /\ ~t[j].poll
        /\ ~t[j].disposed => j = n /\ c # NoSession /\ Tidy(t[j])
  BY <1>1 DEF Listens
<1> QED
  BY <1>1, <1>3, <1>4, <1>5 DEF Listens, t

(* Effects that are done with disappear; the one that listens is last.     *)
LEMMA WaitingListens ==
  ASSUME NEW es \in Seq(Effects), NEW c, Listens(es, c)
  PROVE  Waiting(es) \in Seq(Effects) /\ Listens(Waiting(es), c)
<1> DEFINE S == {e \in Seen(es) : ~e.disposed \/ e.sock # "none"}
           w == Among(es, S)
           n == Len(es)
           m == Len(w)
<1>1. w \in Seq(Effects) /\ \E h : Picks(h, w, es, n, S)
  BY AmongPicks
<1>2. \A i \in 1 .. n : ~es[i].disposed => es[i] \in S
  BY DEF Seen
<1> HIDE DEF S, w
<1>3. PICK h : Picks(h, w, es, n, S)
  BY <1>1
<1>4. n \in Nat /\ m \in Nat
  BY <1>1
<1>5. /\ h \in [1 .. m -> 1 .. n]
      /\ \A i \in 1 .. m : w[i] = es[h[i]]
      /\ \A i, j \in 1 .. m : i < j => h[i] < h[j]
      /\ \A j \in 1 .. n : es[j] \in S => \E i \in 1 .. m : h[i] = j
  BY <1>3 DEF Picks
<1>6. ASSUME NEW i \in 1 .. m, h[i] = n PROVE i = m
  <2>1. m \in 1 .. m /\ h[m] \in 1 .. n /\ (i < m \/ i = m)
    BY <1>4, <1>5
  <2>2. ~(n < h[m])
    BY <1>4, <2>1
  <2> QED
    BY <1>5, <1>6, <2>1, <2>2
<1>7. ASSUME c # NoSession
      PROVE  w # <<>> /\ ~w[m].disposed /\ w[m].session = c
  <2>1. n \in 1 .. n /\ ~es[n].disposed /\ es[n].session = c
    BY <1>4, <1>7 DEF Listens
  <2>2. PICK i \in 1 .. m : h[i] = n
    BY <1>2, <1>5, <2>1
  <2>3. i = m /\ w[m] = es[n]
    BY <1>5, <1>6, <2>2
  <2>4. w # <<>>
    BY <1>4, <2>2
  <2> QED
    BY <2>1, <2>3, <2>4
<1>8. ASSUME NEW i \in 1 .. m
      PROVE  /\ w[i].disposed => ~w[i].timer /\ ~w[i].poll
             /\ ~w[i].disposed => i = m /\ c # NoSession /\ Tidy(w[i])
  <2>1. w[i] = es[h[i]] /\ h[i] \in 1 .. n
    BY <1>5
  <2> QED
    BY <1>6, <2>1 DEF Listens
<1>9. Listens(w, c)
  BY <1>7, <1>8 DEF Listens
<1> QED
  BY <1>1, <1>9 DEF w, S, Waiting

LEMMA CleanedUpIs ==
  ASSUME effects \in Seq(Effects), Listens(effects, cur)
  PROVE  CleanedUp \in Seq(Effects) /\ Listens(CleanedUp, NoSession)
<1> DEFINE n == Len(effects)
<1>1. n \in Nat /\ DOMAIN effects = 1 .. n /\ \A i \in 1 .. n : effects[i] \in Effects
  BY ElementOfSeq
<1>2. ASSUME NEW i \in 1 .. n
      PROVE  /\ CleanedUp[i] \in Effects /\ CleanedUp[i].disposed
             /\ ~CleanedUp[i].timer /\ ~CleanedUp[i].poll
  <2>1. CASE effects[i].disposed
    <3>1. CleanedUp[i] = effects[i]
      BY <1>1, <2>1 DEF CleanedUp
    <3> QED
      BY <1>1, <2>1, <3>1 DEF Listens
  <2>2. CASE ~effects[i].disposed
    <3>1. CleanedUp[i] = [effects[i] EXCEPT !.disposed = TRUE, !.timer = FALSE, !.poll = FALSE,
                                            !.sock = IF @ = "none" THEN "none" ELSE "closed"]
      BY <1>1, <2>2 DEF CleanedUp
    <3>2. effects[i] \in Effects
      BY <1>1
    <3> QED
      BY <3>1, <3>2 DEF Effects
  <2> QED
    BY <2>1, <2>2
<1>3. CleanedUp = [i \in 1 .. n |-> CleanedUp[i]]
  BY <1>1 DEF CleanedUp
<1>4. CleanedUp \in [1 .. n -> Effects]
  BY <1>2, <1>3
<1>5. CleanedUp \in Seq(Effects) /\ Len(CleanedUp) = n
  BY <1>1, <1>4
<1>6. Listens(CleanedUp, NoSession)
  BY <1>2, <1>5 DEF Listens
<1> QED
  BY <1>5, <1>6

LEMMA TurningListens ==
  ASSUME TabTypes, OneListener, NEW s \in Sessions \cup {NoSession}, TurnTo(s)
  PROVE  cur' \in Sessions \cup {NoSession} /\ effects' \in Seq(Effects) /\ OneListener'
<1>1. effects \in Seq(Effects) /\ Listens(effects, cur) /\ cur' = s
  BY ListenersAre DEF TabTypes, TurnTo
<1>2. CASE s = cur
  BY <1>1, <1>2, ListenersWillBe DEF TurnTo
<1>3. CASE s # cur
  <2>1. Waiting(CleanedUp) \in Seq(Effects) /\ Listens(Waiting(CleanedUp), NoSession)
    BY <1>1, CleanedUpIs, WaitingListens
  <2>2. effects' = Waiting(CleanedUp) \o (IF s = NoSession THEN <<>> ELSE <<NewEffect(s)>>)
    BY <1>3 DEF TurnTo
  <2>3. CASE s = NoSession
    <3>1. effects' = Waiting(CleanedUp)
      BY <2>1, <2>2, <2>3, EmptySeq, ConcatEmptySeq
    <3> QED
      BY <1>1, <2>1, <2>3, <3>1, ListenersWillBe
  <2>4. CASE s # NoSession
    <3>1. effects' = Waiting(CleanedUp) \o <<NewEffect(s)>> /\ s \in Sessions
      BY <2>2, <2>4
    <3>2. effects' \in Seq(Effects) /\ Listens(effects', s)
      BY <2>1, <3>1, NewListens
    <3> QED
      BY <1>1, <3>2, ListenersWillBe
  <2> QED
    BY <2>3, <2>4
<1> QED
  BY <1>2, <1>3

LEMMA SocketsListen ==
  ASSUME TabTypes, OneListener,
         SocketOpens \/ SocketLost \/ Reconnects \/ \E i \in DOMAIN effects : SocketCloses(i)
  PROVE  effects' \in Seq(Effects) /\ OneListener'
<1> DEFINE n == Len(effects)
<1>1. /\ effects \in Seq(Effects) /\ Listens(effects, cur) /\ n \in Nat
      /\ DOMAIN effects = 1 .. n /\ \A i \in 1 .. n : effects[i] \in Effects
  BY ListenersAre, ElementOfSeq DEF TabTypes
<1>2. cur' = cur
  BY DEF SocketOpens, SocketLost, Reconnects, SocketCloses
<1>3. ASSUME Live, NEW e \in Effects, HookSet(e), e.session = Hook.session,
             ~e.disposed, Tidy(e)
      PROVE  effects' \in Seq(Effects) /\ OneListener'
  <2>1. n \in 1 .. n /\ ~effects[n].disposed /\ Hook = effects[n]
    BY <1>1, <1>3 DEF Live, Hook
  <2>2. effects[n].disposed \in BOOLEAN /\ e.disposed \in BOOLEAN
    BY <1>1, <2>1 DEF Effects
  <2>3. effects' = [effects EXCEPT ![n] = e] /\ e.session = effects[n].session
        /\ e.disposed = effects[n].disposed
    BY <1>3, <2>1, <2>2 DEF HookSet
  <2>4. effects' \in Seq(Effects) /\ Listens(effects', cur)
    BY <1>1, <1>3, <2>1, <2>3, OneChanges
  <2> QED
    BY <1>2, <2>4, ListenersWillBe
<1>4. ASSUME Live PROVE Hook \in Effects /\ ~Hook.disposed /\ Tidy(Hook)
  <2>1. n \in 1 .. n /\ ~effects[n].disposed /\ Hook = effects[n]
    BY <1>1, <1>4 DEF Live, Hook
  <2> QED
    BY <1>1, <2>1 DEF Listens
<1>5. CASE SocketOpens
  <2> DEFINE e == [Hook EXCEPT !.sock = "live", !.poll = FALSE]
  <2>1. Live /\ Hook.sock = "connecting" /\ HookSet(e)
    BY <1>5 DEF SocketOpens
  <2>2. e \in Effects /\ e.session = Hook.session /\ ~e.disposed /\ Tidy(e)
    BY <1>4, <2>1 DEF Effects, Tidy
  <2> HIDE DEF e
  <2> QED
    BY <1>3, <2>1, <2>2
<1>6. CASE SocketLost
  <2> DEFINE e == [Hook EXCEPT !.sock = "closed"]
  <2>1. Live /\ Hook.sock \in {"connecting", "live"} /\ HookSet(e)
    BY <1>6 DEF SocketLost
  <2>2. e \in Effects /\ e.session = Hook.session /\ ~e.disposed /\ Tidy(e)
    BY <1>4, <2>1 DEF Effects, Tidy
  <2> HIDE DEF e
  <2> QED
    BY <1>3, <2>1, <2>2
<1>7. CASE Reconnects
  <2> DEFINE e == [Hook EXCEPT !.timer = FALSE, !.sock = "connecting"]
  <2>1. Live /\ HookSet(e)
    BY <1>7 DEF Reconnects
  <2>2. e \in Effects /\ e.session = Hook.session /\ ~e.disposed /\ Tidy(e)
    BY <1>4, <2>1 DEF Effects, Tidy
  <2> HIDE DEF e
  <2> QED
    BY <1>3, <2>1, <2>2
<1>8. ASSUME NEW i \in DOMAIN effects, SocketCloses(i)
      PROVE  effects' \in Seq(Effects) /\ OneListener'
  <2>1. i \in 1 .. n /\ effects[i] \in Effects
    BY <1>1
  <2>2. CASE effects[i].disposed
    <3> DEFINE e == [effects[i] EXCEPT !.sock = "none"]
    <3>1. effects' = Waiting([effects EXCEPT ![i] = e])
      BY <1>8, <2>2 DEF SocketCloses
    <3>2. /\ e \in Effects /\ e.session = effects[i].session /\ e.disposed = effects[i].disposed
          /\ e.disposed /\ ~e.timer /\ ~e.poll
      BY <1>1, <2>1, <2>2 DEF Effects, Listens
    <3> HIDE DEF e
    <3>3. /\ [effects EXCEPT ![i] = e] \in Seq(Effects)
          /\ Listens([effects EXCEPT ![i] = e], cur)
      BY <1>1, <2>1, <3>2, OneChanges
    <3>4. effects' \in Seq(Effects) /\ Listens(effects', cur)
      BY <3>1, <3>3, WaitingListens
    <3> QED
      BY <1>2, <3>4, ListenersWillBe
  <2>3. CASE ~effects[i].disposed
    <3> DEFINE e == [effects[i] EXCEPT !.sock = "none", !.timer = TRUE, !.poll = TRUE]
    <3>1. effects' = [effects EXCEPT ![i] = e]
      BY <1>8, <2>3 DEF SocketCloses
    <3>2. /\ e \in Effects /\ e.session = effects[i].session /\ e.disposed = effects[i].disposed
          /\ ~e.disposed /\ Tidy(e)
      BY <2>1, <2>3 DEF Effects, Tidy
    <3> HIDE DEF e
    <3>3. effects' \in Seq(Effects) /\ Listens(effects', cur)
      BY <1>1, <2>1, <3>1, <3>2, OneChanges
    <3> QED
      BY <1>2, <3>3, ListenersWillBe
  <2> QED
    BY <2>2, <2>3
<1> QED
  BY <1>5, <1>6, <1>7, <1>8

-----------------------------------------------------------------------------
(* What the tab's own steps keep: the part that listens, the part that     *)
(* shows, and the rest.                                                    *)
Listening ==
  cur \in Sessions \cup {NoSession} /\ effects \in Seq(Effects) /\ OneListener
Showing == view \in [Sessions -> Views] /\ NoItemTwice
Listing ==
  /\ modal \in Sessions \cup {NoSession}
  /\ list \subseteq Sessions /\ astray \subseteq Sessions /\ fresh \subseteq Sessions

LEMMA TabParts ==
  TabTypes /\ OneListener /\ NoItemTwice <=> Listening /\ Showing /\ Listing
BY DEF TabTypes, Listening, Showing, Listing

LEMMA ListeningStays ==
  ASSUME Listening, UNCHANGED <<cur, effects>>
  PROVE  Listening'
BY DEF Listening, OneListener, Live, Hook

LEMMA TurningKeepsListening ==
  ASSUME Listening, Showing, Listing, NEW s \in Sessions \cup {NoSession}, TurnTo(s)
  PROVE  Listening'
BY TabParts, TurningListens DEF Listening

LEMMA ShowingStays ==
  ASSUME Showing, view' = view
  PROVE  Showing'
BY DEF Showing, NoItemTwice

LEMMA OneViewChanges ==
  ASSUME Showing, NEW s \in Sessions, NEW v \in Views, Once(v.feed),
         view' = [view EXCEPT ![s] = v]
  PROVE  Showing'
<1>1. view' \in [Sessions -> Views] /\ \A g \in Sessions : view'[g] = IF g = s THEN v ELSE view[g]
  BY DEF Showing
<1>2. \A g \in Sessions : Once(view[g].feed)
  BY DEF Showing, NoItemTwice, Once
<1>3. \A g \in Sessions : Once(view'[g].feed)
  BY <1>1, <1>2
<1> QED
  BY <1>1, <1>3 DEF Showing, NoItemTwice, Once

(* What the tab may show of the sessions.                                  *)
Shows(views) == views \in [Sessions -> Views] /\ \A g \in Sessions : Once(views[g].feed)

LEMMA ShowingIs == (Showing <=> Shows(view)) /\ (Showing' <=> Shows(view'))
BY DEF Showing, Shows, NoItemTwice, Once

LEMMA ItemIsAdded ==
  ASSUME NEW views, Shows(views), NEW s \in Sessions, NEW x \in Items
  PROVE  Shows([views EXCEPT ![s].feed = Added(@, x)])
<1> DEFINE feed == views[s].feed
           v == [views[s] EXCEPT !.feed = Added(feed, x)]
           after == [views EXCEPT ![s].feed = Added(@, x)]
<1>1. views[s] \in Views /\ feed \in Seq(Items) /\ Once(feed)
  BY DEF Shows, Views
<1>2. Added(feed, x) \in Seq(Items) /\ Once(Added(feed, x))
  <2>1. CASE x \in Seen(feed)
    BY <1>1, <2>1 DEF Added
  <2>2. CASE x \notin Seen(feed)
    BY <1>1, <2>2, OnceMore DEF Added
  <2> QED
    BY <2>1, <2>2
<1>3. v \in Views /\ v.feed = Added(feed, x)
  BY <1>1, <1>2 DEF Views
<1>4. after = [views EXCEPT ![s] = v]
  BY DEF Shows
<1> HIDE DEF v, feed
<1>5. after \in [Sessions -> Views] /\ \A g \in Sessions : after[g] = IF g = s THEN v ELSE views[g]
  BY <1>3, <1>4 DEF Shows
<1> QED
  BY <1>2, <1>3, <1>5 DEF Shows

LEMMA StatusIsSet ==
  ASSUME NEW views, Shows(views), NEW s \in Sessions, NEW st \in Statuses
  PROVE  Shows([views EXCEPT ![s].status = st])
<1> DEFINE v == [views[s] EXCEPT !.status = st]
           after == [views EXCEPT ![s].status = st]
<1>1. views[s] \in Views /\ Once(views[s].feed)
  BY DEF Shows
<1>2. v \in Views /\ v.feed = views[s].feed
  BY <1>1 DEF Views
<1>3. after = [views EXCEPT ![s] = v]
  BY DEF Shows
<1> HIDE DEF v
<1>4. after \in [Sessions -> Views] /\ \A g \in Sessions : after[g] = IF g = s THEN v ELSE views[g]
  BY <1>2, <1>3 DEF Shows
<1> QED
  BY <1>1, <1>2, <1>4 DEF Shows

LEMMA ItemIsShown ==
  ASSUME Showing, NEW s \in Sessions, NEW x \in Items, view' = Appended(s, x)
  PROVE  Showing'
BY ShowingIs, ItemIsAdded DEF Appended

LEMMA DerivedIs ==
  ASSUME NEW p, NEW st
  PROVE  Derived(p, st) = <<>> \/ \E x \in Results : Derived(p, st) = <<x>>
BY DEF Derived, Results

LEMMA SnapshotIsShown ==
  ASSUME Showing, NEW s \in Sessions, NEW b \in SnapshotBodies,
         Once(b.hist), Results \cap Seen(b.hist) = {},
         view' = [view EXCEPT ![s] = Hydrated(@, b)]
  PROVE  Showing'
<1> DEFINE feed == b.hist \o Derived(b.prog, b.status)
           v == [feed |-> feed, prog |-> b.prog, status |-> b.status]
<1>1. b.hist \in Seq(Items) /\ b.prog \in ReadProgress /\ b.status \in Statuses
  BY DEF SnapshotBodies
<1>2. \A x \in Results : x \in Items /\ x \notin Seen(b.hist)
  BY DEF Items
<1>3. feed \in Seq(Items) /\ Once(feed)
  <2>1. CASE Derived(b.prog, b.status) = <<>>
    <3>1. feed = b.hist
      BY <1>1, <2>1, ConcatEmptySeq
    <3> QED
      BY <1>1, <3>1
  <2>2. ASSUME NEW x \in Results, Derived(b.prog, b.status) = <<x>>
        PROVE  feed \in Seq(Items) /\ Once(feed)
    <3>1. feed = Append(b.hist, x)
      BY <1>1, <1>2, <2>2, AppendIsConcat
    <3> QED
      BY <1>1, <1>2, <3>1, OnceMore
  <2> QED
    BY <2>1, <2>2, DerivedIs
<1> HIDE DEF feed
<1>4. v \in Views /\ v.feed = feed
  BY <1>1, <1>3 DEF Views
<1>5. view' = [view EXCEPT ![s] = v]
  BY DEF Hydrated, feed
<1> HIDE DEF v
<1> QED
  BY <1>3, <1>4, <1>5, OneViewChanges

LEMMA NothingIsShown ==
  ASSUME Showing, NEW s \in Sessions, view' = [view EXCEPT ![s] = NoView]
  PROVE  Showing'
<1>1. NoView.feed = <<>> /\ NoView \in Views
  <2>1. <<>> \in Seq(Items)
    BY EmptySeq
  <2> QED
    BY <2>1 DEF NoView, Views, ReadProgress, Statuses
<1>2. Once(NoView.feed)
  BY <1>1 DEF Once
<1> QED
  BY <1>1, <1>2, OneViewChanges

LEMMA ReloadIsShown ==
  ASSUME Showing, view' = [s \in Sessions |-> [NoView EXCEPT !.feed = view[s].feed]]
  PROVE  Showing'
<1>1. ASSUME NEW s \in Sessions
      PROVE  view'[s] \in Views /\ view'[s].feed = view[s].feed
  <2>1. view[s].feed \in Seq(Items)
    BY DEF Showing, Views
  <2> QED
    BY <2>1 DEF NoView, Views, ReadProgress, Statuses
<1>2. view' \in [Sessions -> Views]
  BY <1>1
<1> QED
  BY <1>1, <1>2 DEF Showing, NoItemTwice

(* The tab changes nothing on the bridge but its own connection.           *)
LEMMA CutKeepsServer ==
  ASSUME ServerTypes, UNCHANGED <<index, hist, status, prog>>,
         CutLink \/ UNCHANGED <<run, link>>
  PROVE  ServerTypes'
<1>1. CASE UNCHANGED <<run, link>>
  BY <1>1 DEF ServerTypes
<1>2. CASE CutLink
  <2>1. run' \in RunThreads
    BY <1>2 DEF CutLink, RunThreads, ServerTypes
  <2>2. <<>> \in Seq(Items) /\ <<>> \in Seq(Items \cup {<<"signal">>})
    BY EmptySeq
  <2>3. NoLink \in Links /\ NoLink.state = "shut" /\ NoLink.frames = <<>>
    BY <2>2 DEF NoLink, Links
  <2>4. link' = NoLink
    BY <1>2 DEF CutLink
  <2> QED
    BY <2>1, <2>3, <2>4 DEF ServerTypes
<1> QED
  BY <1>1, <1>2

LEMMA TurningCuts ==
  ASSUME NEW s, TurnTo(s)
  PROVE  CutLink \/ UNCHANGED <<run, link>>
BY DEF TurnTo

(* What is left to say of a tab's step, the requests aside.                *)
Tab == Listening /\ Showing /\ Listing

LEMMA ReturnsKeepTab ==
  ASSUME AllTypes, ReqInv, Tab, Returns
  PROVE  Tab' /\ ServerTypes'
<1>0. Listening /\ Showing /\ Listing /\ ServerTypes
  BY DEF Tab, AllTypes
<1>1. PICK k \in 1 .. Len(reqs) :
        \/ SnapshotApplies(k) \/ SnapshotDropped(k) \/ SnapshotFails(k)
        \/ SaveReturns(k) \/ AppendReturns(k) \/ StartReturns(k)
        \/ CreateReturns(k) \/ BatchGoesOn(k) \/ DeleteReturns(k)
        \/ NothingFollows(k) \/ BootReturns(k)
  BY DEF Returns, AllTypes, ReqTypes
<1> DEFINE r == reqs[k]
<1>2. r \in Fetches /\ Carries(r)
  BY ElementOfSeq DEF AllTypes, ReqTypes
<1>3. r.kind # "boot" => r.session \in Sessions
  BY <1>2 DEF Carries
<1>4. r.rest \subseteq Sessions
  BY <1>2 DEF Fetches
<1>5. ASSUME UNCHANGED serverVars PROVE ServerTypes'
  BY <1>0, <1>5, CutKeepsServer DEF serverVars, streamVars
<1>6. ASSUME UNCHANGED <<serverVars, tabVars>> PROVE Tab' /\ ServerTypes'
  <2>1. Tab'
    BY <1>0, <1>6, ListeningStays, ShowingStays DEF tabVars, Tab, Listing
  <2> QED
    BY <1>5, <1>6, <2>1
<1>7. ASSUME NEW s \in Sessions \cup {NoSession}, TurnTo(s),
             UNCHANGED <<index, hist, status, prog>>
      PROVE  Listening' /\ ServerTypes'
  BY <1>0, <1>7, TurningKeepsListening, TurningCuts, CutKeepsServer
<1>10. CASE SnapshotApplies(k)
  <2>1. /\ r.kind = "state"
        /\ r.step = "answered"
        /\ UNCHANGED <<serverVars, cur, list, effects, modal, fresh>>
        /\ view' = [view EXCEPT ![r.session] = Hydrated(@, r.body)]
        /\ astray' \subseteq astray \cup {r.session}
    BY <1>10 DEF SnapshotApplies, Answered
  <2>2. r.session \in Sessions /\ r.body \in SnapshotBodies
    BY <1>2, <2>1 DEF Carries
  <2>3. Once(r.body.hist) /\ Results \cap Seen(r.body.hist) = {}
    BY <2>1 DEF ReqInv, SnapshotsOnce
  <2>4. Showing'
    BY <1>0, <2>1, <2>2, <2>3, SnapshotIsShown
  <2> QED
    BY <1>0, <1>5, <2>1, <2>2, <2>4, ListeningStays DEF Tab, Listing
<1>11. CASE SnapshotDropped(k) \/ NothingFollows(k)
  <2>1. UNCHANGED <<serverVars, tabVars>>
    BY <1>11 DEF SnapshotDropped, NothingFollows
  <2> QED
    BY <1>6, <2>1
<1>12. CASE SnapshotFails(k)
  <2>1. /\ r.kind = "state" /\ UNCHANGED <<serverVars, cur, list, view, effects, modal, fresh>>
        /\ astray' = astray \cup {r.session}
    BY <1>12 DEF SnapshotFails, Failed
  <2> QED
    BY <1>0, <1>3, <1>5, <2>1, ListeningStays, ShowingStays DEF Tab, Listing
<1>13. CASE SaveReturns(k)
  <2>1. /\ r.kind = "save" /\ UNCHANGED <<serverVars, cur, effects, modal, astray, fresh>>
        /\ list' \subseteq list \cup {r.session}
        /\ view' = view \/ (cur # NoSession /\ view' = Appended(cur, Note(1)))
    BY <1>13 DEF SaveReturns, Settled, Answered, Failed, Notes, Launches, Appended
  <2>2. Note(1) \in Items
    BY DEF Note, Items
  <2>3. Showing'
    BY <1>0, <2>1, <2>2, ShowingStays, ItemIsShown DEF Listening
  <2> QED
    BY <1>0, <1>3, <1>5, <2>1, <2>3, ListeningStays DEF Tab, Listing
<1>14. CASE AppendReturns(k)
  <2>1. /\ r.kind = "append" /\ UNCHANGED <<serverVars, cur, view, effects, modal, fresh>>
        /\ list' \subseteq list \cup r.rest /\ astray' \subseteq astray \cup {r.session}
    BY <1>14 DEF AppendReturns, Settled, Answered, Failed, Launches
  <2> QED
    BY <1>0, <1>3, <1>4, <1>5, <2>1, ListeningStays, ShowingStays DEF Tab, Listing
<1>15. CASE StartReturns(k)
  <2>1. /\ r.kind = "start" /\ UNCHANGED <<serverVars, cur, list, effects, modal, fresh>>
        /\ astray' \subseteq astray \cup {r.session}
    BY <1>15 DEF StartReturns, Answered, Astray
  <2> DEFINE shown == [view EXCEPT ![r.session].status = r.body.status]
  <2>2. \/ view' = shown
        \/ cur # NoSession /\ view' = [shown EXCEPT ![cur].feed = Added(@, Note(2))]
    BY <1>15 DEF StartReturns, Notes
  <2>4. r.body.status \in Statuses /\ Note(2) \in Items
    BY <1>2, <1>15 DEF StartReturns, Answered, Carries, StatusBodies, Note, Items
  <2>5. Shows(shown)
    BY <1>0, <1>3, <2>1, <2>4, ShowingIs, StatusIsSet
  <2> HIDE DEF shown
  <2>3. Showing'
    BY <1>0, <2>2, <2>4, <2>5, ShowingIs, ItemIsAdded DEF Listening
  <2> QED
    BY <1>0, <1>3, <1>5, <2>1, <2>3, ListeningStays DEF Tab, Listing
<1>16. CASE CreateReturns(k)
  <2>1. /\ r.kind = "create" /\ TurnTo(r.session)
        /\ UNCHANGED <<index, hist, status, prog, modal, astray, fresh>>
        /\ list' = list \cup {r.session} /\ view' = [view EXCEPT ![r.session] = NoView]
    BY <1>16 DEF CreateReturns, Answered, Activate
  <2> QED
    BY <1>0, <1>3, <1>7, <2>1, NothingIsShown DEF Tab, Listing
<1>17. CASE BatchGoesOn(k)
  <2>1. /\ r.kind = "delete" /\ UNCHANGED <<serverVars, cur, effects, modal, fresh>>
        /\ astray' \subseteq astray \cup {r.session}
        /\ list' = list \ {r.session} /\ view' = [view EXCEPT ![r.session] = NoView]
    BY <1>17 DEF BatchGoesOn, Answered, Astray
  <2> QED
    BY <1>0, <1>3, <1>5, <2>1, NothingIsShown, ListeningStays DEF Tab, Listing
<1>18. CASE DeleteReturns(k)
  <2>1. /\ r.kind = "delete" /\ UNCHANGED <<index, hist, status, prog, fresh>>
        /\ astray' \subseteq astray \cup {r.session}
        /\ list' = list \ {r.session} /\ view' = [view EXCEPT ![r.session] = NoView]
        /\ modal' = NoSession
    BY <1>18 DEF DeleteReturns, Answered, Astray
  <2>2. \/ UNCHANGED <<cur, effects, link, run>>
        \/ \E next \in list' : TurnTo(next)
        \/ TurnTo(NoSession)
    BY <1>18 DEF DeleteReturns, Activate, Deactivate
  <2>3. Listening' /\ ServerTypes'
    <3>1. CASE UNCHANGED <<cur, effects, link, run>>
      BY <1>0, <2>1, <3>1, ListeningStays, CutKeepsServer
    <3>2. ASSUME NEW next \in list', TurnTo(next) PROVE Listening' /\ ServerTypes'
      BY <1>0, <1>7, <2>1, <3>2 DEF Listing
    <3> QED
      BY <1>7, <2>1, <2>2, <3>1, <3>2
  <2> QED
    BY <1>0, <1>3, <2>1, <2>3, NothingIsShown DEF Tab, Listing
<1>20. CASE BootReturns(k)
  <2>1. /\ UNCHANGED <<index, hist, status, prog, view, modal, astray, fresh>>
        /\ list' = list \cup r.body.listed /\ r.kind = "boot" /\ r.step = "answered"
        /\ (\E s \in {cur, r.body.current} \cup (list \cup r.body.listed) :
              s \in list \cup r.body.listed /\ TurnTo(s)) \/ TurnTo(NoSession)
    BY <1>20 DEF BootReturns, Answered, Activate, Deactivate
  <2>2. list \cup r.body.listed \subseteq Sessions
    BY <1>0, <1>2, <2>1 DEF Carries, BootBodies, Listing
  <2>3. Listening' /\ ServerTypes'
    BY <1>7, <2>1, <2>2
  <2> QED
    BY <1>0, <2>1, <2>2, <2>3, ShowingStays DEF Tab, Listing
<1> QED
  BY <1>1, <1>10, <1>11, <1>12, <1>13, <1>14, <1>15, <1>16, <1>17, <1>18, <1>20

LEMMA GesturesKeepTab ==
  ASSUME AllTypes, Tab,
         Selects \/ Creates \/ Types \/ Starts \/ Deletes \/ Batches \/ Cancels \/ Reloads
  PROVE  Tab' /\ ServerTypes'
<1>1. Listening /\ Showing /\ Listing /\ ServerTypes
  BY DEF Tab, AllTypes
<1>2. CASE Selects
  <2>1. PICK s \in list \ {cur} : TurnTo(s)
    BY <1>2 DEF Selects, Activate
  <2>2. UNCHANGED <<index, hist, status, prog, list, view, modal, astray, fresh>>
    BY <1>2 DEF Selects
  <2>3. s \in Sessions
    BY <1>1 DEF Listing
  <2>4. Listening' /\ ServerTypes'
    BY <1>1, <2>1, <2>2, <2>3, TurningKeepsListening, TurningCuts, CutKeepsServer
  <2> QED
    BY <1>1, <2>2, <2>4, ShowingStays DEF Tab, Listing
<1>3. CASE Creates \/ Types \/ Starts \/ Deletes \/ Batches \/ Cancels
  <2>1. /\ UNCHANGED <<serverVars, cur, view, effects, astray>>
        /\ fresh' \subseteq fresh /\ list' \subseteq list \cup ({cur} \ {NoSession})
        /\ modal' \in {modal, NoSession} \cup list
    <3>1. CASE Creates
      BY <3>1 DEF Creates
    <3>2. CASE Types
      BY <3>2 DEF Types
    <3>3. CASE Starts
      BY <3>3 DEF Starts
    <3>4. CASE Deletes
      BY <3>4 DEF Deletes
    <3>5. CASE Batches
      BY <3>5 DEF Batches
    <3>6. CASE Cancels
      BY <3>6 DEF Cancels
    <3> QED
      BY <1>3, <3>1, <3>2, <3>3, <3>4, <3>5, <3>6
  <2>2. Listing'
    BY <1>1, <2>1 DEF Listing, Listening
  <2>3. ServerTypes'
    BY <1>1, <2>1, CutKeepsServer DEF serverVars, streamVars
  <2> QED
    BY <1>1, <2>1, <2>2, <2>3, ListeningStays, ShowingStays DEF Tab
<1>4. CASE Reloads
  <2>1. /\ UNCHANGED <<index, hist, status, prog, cur, list, astray, fresh>>
        /\ modal' = NoSession /\ CutLink
        /\ view' = [s \in Sessions |-> [NoView EXCEPT !.feed = view[s].feed]]
        /\ effects' = IF cur = NoSession THEN <<>> ELSE <<NewEffect(cur)>>
    BY <1>4 DEF Reloads
  <2>2. effects' \in Seq(Effects) /\ Listens(effects', cur)
    <3>1. <<>> \in Seq(Effects) /\ Len(<<>>) = 0
      BY EmptySeq
    <3>2. Listens(<<>>, NoSession)
      BY DEF Listens
    <3>3. CASE cur = NoSession
      BY <2>1, <3>1, <3>2, <3>3
    <3>4. CASE cur # NoSession
      <4>1. <<NewEffect(cur)>> = <<>> \o <<NewEffect(cur)>>
        <5>1. NewEffect(cur) \in Effects
          BY <1>1, <3>4 DEF NewEffect, Effects, Listening
        <5>2. <<NewEffect(cur)>> \in Seq(Effects)
          BY <5>1
        <5> QED
          BY <5>2, ConcatEmptySeq
      <4> QED
        BY <1>1, <2>1, <3>1, <3>2, <3>4, <4>1, NewListens DEF Listening
    <3> QED
      BY <3>3, <3>4
  <2>3. Listening'
    BY <1>1, <2>1, <2>2, ListenersWillBe DEF Listening
  <2> QED
    BY <1>1, <2>1, <2>3, ReloadIsShown, CutKeepsServer DEF Tab, Listing
<1> QED
  BY <1>2, <1>3, <1>4

LEMMA SocketsKeepTab ==
  ASSUME AllTypes, Tab,
         SocketOpens \/ SocketLost \/ Reconnects \/ Polls \/ FrameArrives
           \/ \E i \in DOMAIN effects : SocketCloses(i)
  PROVE  Tab' /\ ServerTypes'
<1>1. Listening /\ Showing /\ Listing /\ ServerTypes /\ TabTypes /\ OneListener
  BY DEF Tab, AllTypes, Listening
<1>2. CASE SocketOpens \/ SocketLost \/ Reconnects \/ \E i \in DOMAIN effects : SocketCloses(i)
  <2>1. UNCHANGED <<index, hist, status, prog, cur, list, view, modal, astray, fresh>>
    <3>1. CASE SocketOpens
      BY <3>1 DEF SocketOpens
    <3>2. CASE SocketLost
      BY <3>2 DEF SocketLost
    <3>3. CASE Reconnects
      BY <3>3 DEF Reconnects, serverVars, streamVars
    <3>4. CASE \E i \in DOMAIN effects : SocketCloses(i)
      BY <3>4 DEF SocketCloses, serverVars, streamVars
    <3> QED
      BY <1>2, <3>1, <3>2, <3>3, <3>4
  <2>2. effects' \in Seq(Effects) /\ OneListener'
    BY <1>1, <1>2, SocketsListen
  <2>3. Tab'
    BY <1>1, <2>1, <2>2, ShowingStays DEF Tab, Listening, Listing
  <2>4. CASE SocketOpens
    <3>1. link' = Accepted(Hook.session) /\ run' = run /\ Live
      BY <2>4 DEF SocketOpens
    <3>2. Hook.session \in Sessions
      <4>1. effects \in Seq(Effects) /\ Len(effects) \in 1 .. Len(effects)
        BY <1>1, <3>1 DEF Live, Listening
      <4>2. Hook \in Effects
        BY <4>1, ElementOfSeq DEF Hook
      <4> QED
        BY <4>2 DEF Effects
    <3>3. <<>> \in Seq(Items) /\ <<>> \in Seq(Items \cup {<<"signal">>})
      BY EmptySeq
    <3>4. link' \in Links /\ link'.state = "handshake" /\ link'.session \in Sessions
      BY <3>1, <3>2, <3>3 DEF Accepted, NoLink, Links
    <3>5. ServerTypes'
      BY <1>1, <2>1, <3>1, <3>4 DEF ServerTypes
    <3> QED
      BY <2>3, <3>5
  <2>5. CASE SocketLost \/ Reconnects \/ \E i \in DOMAIN effects : SocketCloses(i)
    <3>1. CutLink \/ UNCHANGED <<run, link>>
      BY <2>5 DEF SocketLost, Reconnects, SocketCloses, serverVars, streamVars
    <3> QED
      BY <1>1, <2>1, <2>3, <3>1, CutKeepsServer
  <2> QED
    BY <1>2, <2>4, <2>5
<1>3. CASE Polls
  <2>1. UNCHANGED <<serverVars, tabVars>>
    BY <1>3 DEF Polls
  <2>2. ServerTypes'
    BY <1>1, <2>1, CutKeepsServer DEF serverVars, streamVars
  <2> QED
    BY <1>1, <2>1, <2>2, ListeningStays, ShowingStays DEF tabVars, Tab, Listing
<1>4. CASE FrameArrives
  <2> DEFINE frame == Head(link.frames)
  <2>1. /\ UNCHANGED <<index, hist, status, prog, run, cur, list, effects, modal, fresh>>
        /\ astray' \subseteq astray \cup {link.session}
        /\ link.frames # <<>> /\ link' = [link EXCEPT !.frames = Tail(@)]
        /\ view' = view \/ (frame # <<"signal">> /\ view' = Appended(link.session, frame))
    BY <1>4 DEF FrameArrives
  <2>2. link \in Links /\ link.state # "shut" /\ link.session \in Sessions
    BY <1>1, <2>1 DEF ServerTypes
  <2>3. link.frames \in Seq(Items \cup {<<"signal">>})
    BY <2>2 DEF Links
  <2>4. /\ frame \in Items \cup {<<"signal">>}
        /\ Tail(link.frames) \in Seq(Items \cup {<<"signal">>})
    BY <2>1, <2>3
  <2> HIDE DEF frame
  <2>5. Showing'
    BY <1>1, <2>1, <2>2, <2>4, ShowingStays, ItemIsShown
  <2>6. link' \in Links /\ link'.state # "shut" /\ link'.session \in Sessions
    BY <2>1, <2>2, <2>4 DEF Links
  <2>7. ServerTypes'
    BY <1>1, <2>1, <2>6 DEF ServerTypes
  <2> QED
    BY <1>1, <2>1, <2>2, <2>5, <2>7, ListeningStays DEF Tab, Listing
<1> QED
  BY <1>2, <1>3, <1>4

-----------------------------------------------------------------------------
(* The inductive invariant.                                                *)
Inv == AllTypes /\ ReqInv /\ OneListener /\ NoItemTwice

LEMMA InvInit == Init => Inv
<1> SUFFICES ASSUME Init PROVE Inv
  OBVIOUS
<1>1. PICK s \in Sessions :
        index = [listed |-> {s}, current |-> s] /\ fresh = Sessions \ {s}
  BY DEF Init
<1>2. cur = s /\ list = {s} /\ s # NoSession
  BY <1>1, NoSessionAssumption DEF Init
<1>3. /\ <<>> \in Seq(Items) /\ <<>> \in Seq(Items \cup {<<"signal">>})
      /\ <<>> \in Seq(Effects) /\ Len(<<>>) = 0
  BY EmptySeq
<1>4. ServerTypes
  <2>1. index \in Indexes
    BY <1>1 DEF Indexes
  <2>2. hist \in [Sessions -> Seq(Items)]
    BY <1>3 DEF Init
  <2>3. /\ status \in [Sessions -> Statuses]
        /\ prog \in [Sessions -> Progresses]
    BY DEF Init, Statuses, Progresses, ReadProgress
  <2>4. run \in RunThreads
    BY DEF Init, NoRun, RunThreads
  <2>5. link \in Links /\ link.state = "shut" /\ link.frames = <<>>
    BY <1>3 DEF Init, NoLink, Links
  <2> QED
    BY <2>1, <2>2, <2>3, <2>4, <2>5 DEF ServerTypes
<1> DEFINE r == [Request("state", s) EXCEPT !.act = "last"]
<1>5. r \in Fetches /\ r.kind = "state" /\ r.step = "sent" /\ r.session = s
  <2>1. Request("state", s) \in Fetches
    BY RequestIsFetch DEF Kinds
  <2>2. r \in Fetches
    BY <2>1 DEF Fetches
  <2> QED
    BY <2>2 DEF Request
<1>6. reqs = <<r>> /\ script \subseteq Happenings
  BY <1>2, ScriptsAssumption DEF Init
<1> HIDE DEF r
<1>7. reqs \in Seq(Fetches) /\ Len(reqs) = 1 /\ \A k \in 1 .. Len(reqs) : k = 1 /\ reqs[k] = r
  BY <1>5, <1>6
<1>8. ReqTypes
  <2>1. Carries(r)
    BY <1>5, SentCarries
  <2> QED
    BY <1>6, <1>7, <2>1, RequestsAssumption DEF ReqTypes
<1>9. Listening
  <2>1. <<NewEffect(s)>> \in Seq(Effects) /\ <<NewEffect(s)>> = <<>> \o <<NewEffect(s)>>
    <3>1. NewEffect(s) \in Effects
      BY DEF NewEffect, Effects
    <3>2. <<NewEffect(s)>> \in Seq(Effects)
      BY <3>1
    <3> QED
      BY <3>2, ConcatEmptySeq
  <2>2. Listens(<<>>, NoSession)
    BY <1>3 DEF Listens
  <2>3. effects = <<NewEffect(s)>>
    BY <1>2 DEF Init
  <2>4. effects \in Seq(Effects) /\ Listens(effects, s)
    BY <1>3, <2>1, <2>2, <2>3, NewListens
  <2> QED
    BY <1>2, <2>4, ListenersAre DEF Listening
<1>10. Showing
  <2>1. NoView \in Views /\ NoView.feed = <<>>
    BY <1>3 DEF NoView, Views, ReadProgress, Statuses
  <2>2. view \in [Sessions -> Views] /\ \A g \in Sessions : view[g].feed = <<>>
    BY <2>1 DEF Init
  <2> QED
    BY <2>2 DEF Showing, NoItemTwice
<1>11. Listing
  BY <1>1, <1>2 DEF Init, Listing
<1>12. ReqInv
  <2>1. Locks
    BY <1>5, <1>7 DEF Locks
  <2>2. OneStart
    BY <1>5, <1>7 DEF OneStart, Starting
  <2>3. SnapshotsOnce
    BY <1>5, <1>7 DEF SnapshotsOnce
  <2>4. Histories
    <3>1. \A g \in Sessions : hist[g] = <<>>
      BY DEF Init
    <3>2. run = NoRun
      BY DEF Init
    <3> QED
      BY <1>3, <3>1, <3>2 DEF Histories, Once
  <2> QED
    BY <2>1, <2>2, <2>3, <2>4 DEF ReqInv
<1> QED
  BY <1>4, <1>8, <1>9, <1>10, <1>11, <1>12, TabParts DEF Inv, AllTypes

LEMMA UnchangedKeepsTab ==
  ASSUME Tab, UNCHANGED tabVars
  PROVE  Tab'
BY ListeningStays, ShowingStays DEF Tab, tabVars, Listing

LEMMA ServingKeeps ==
  ASSUME AllTypes, ReqInv, Serve
  PROVE  ReqTypes' /\ ReqInv' /\ ServerTypes'
<1>1. PICK k \in 1 .. Len(reqs) :
        \/ ServeStatus(k) \/ ServeProgress(k) \/ ServeHistory(k)
        \/ ServeBoot(k) \/ ServeList(k) \/ ServeAppend(k) \/ ServeStart(k)
        \/ ServeLocked(k) \/ ServeWrite(k) \/ ServeWipe(k) \/ ServeDrop(k)
  BY DEF Serve, AllTypes, ReqTypes
<1>2. script' = script
  BY DEF Serve
<1>3. CASE ServeStatus(k)
  BY <1>2, <1>3, StatusIsRead
<1>4. CASE ServeProgress(k) \/ ServeHistory(k)
  BY <1>2, <1>4, ProgressIsRead, HistoryIsRead
<1>5. CASE ServeBoot(k) \/ ServeList(k)
  BY <1>2, <1>5, BootIsServed
<1>6. CASE ServeAppend(k)
  BY <1>2, <1>6, NoteIsAppended
<1>7. CASE ServeStart(k)
  BY <1>2, <1>7, RunIsStarted
<1>8. CASE ServeLocked(k)
  BY <1>2, <1>8, ListIsLocked
<1>9. CASE ServeWrite(k)
  BY <1>2, <1>9, ListIsWritten
<1>10. CASE ServeWipe(k)
  BY <1>2, <1>10, SessionIsWiped
<1>11. CASE ServeDrop(k)
  BY <1>2, <1>11, SubscribersAreDropped
<1> QED
  BY <1>1, <1>3, <1>4, <1>5, <1>6, <1>7, <1>8, <1>9, <1>10, <1>11

LEMMA InvStep == Inv /\ [Next]_vars => Inv'
<1> SUFFICES ASSUME Inv, [Next]_vars PROVE Inv'
  OBVIOUS
<1>1. AllTypes /\ ServerTypes /\ ReqTypes /\ ReqInv /\ Tab
  BY TabParts DEF Inv, AllTypes, Tab
<1>2. ASSUME ServerTypes', ReqTypes', ReqInv', Tab' PROVE Inv'
  BY <1>2 DEF Inv, AllTypes, Tab, Listening, Showing, Listing, TabTypes
<1>3. ASSUME TabMoves, ServerStays, Tab' /\ ServerTypes' PROVE Inv'
  BY <1>1, <1>2, <1>3, TabKeepsReqs
<1>4. ASSUME ReqTypes' /\ ReqInv' /\ ServerTypes', UNCHANGED tabVars PROVE Inv'
  BY <1>1, <1>2, <1>4, UnchangedKeepsTab
<1>5. CASE RunNext /\ UNCHANGED <<index, reqVars, tabVars>>
  BY <1>1, <1>4, <1>5, EventIsAppended, RunGoesOn DEF RunNext
<1>6. CASE HandlerNext /\ UNCHANGED <<index, reqVars, tabVars>>
  BY <1>1, <1>4, <1>6, HandlerGoesOn
<1>7. CASE Serve /\ UNCHANGED tabVars
  BY <1>1, <1>4, <1>7, ServingKeeps
<1>8. CASE (\E k \in DOMAIN reqs : Unread(k)) /\ UNCHANGED tabVars
  <2>1. TabMoves /\ ServerStays
    BY <1>1, <1>8, UnreadMoves
  <2>2. ServerTypes'
    BY <1>1, <1>8, CutKeepsServer DEF Unread, streamVars
  <2>3. Tab'
    BY <1>1, <1>8, UnchangedKeepsTab
  <2> QED
    BY <1>3, <2>1, <2>2, <2>3
<1>9. CASE Returns
  BY <1>1, <1>3, <1>9, ReturnsMove, ReturnsKeepTab
<1>10. CASE SocketOpens \/ SocketLost \/ Reconnects \/ Polls \/ FrameArrives
              \/ \E i \in DOMAIN effects : SocketCloses(i)
  BY <1>1, <1>3, <1>10, SocketsMove, SocketsKeepTab
<1>11. CASE (\E k \in DOMAIN reqs : RequestFails(k)) /\ UNCHANGED tabVars
  <2>1. PICK k \in 1 .. Len(reqs) : RequestFails(k)
    BY <1>1, <1>11 DEF ReqTypes
  <2> QED
    BY <1>1, <1>4, <1>11, <2>1, FailureKeeps
<1>12. CASE Selects \/ Creates \/ Types \/ Starts \/ Deletes \/ Batches \/ Cancels \/ Reloads
  BY <1>1, <1>3, <1>12, GesturesMove, GesturesKeepTab
<1>13. CASE UNCHANGED vars
  <2>1. UNCHANGED <<serverVars, reqVars, tabVars>>
    BY <1>13 DEF vars, serverVars
  <2>2. ServerTypes'
    BY <1>1, <2>1, CutKeepsServer DEF serverVars, streamVars
  <2>3. ReqTypes' /\ ReqInv'
    <3>1. TabMoves /\ ServerStays
      BY <1>1, <2>1, NoRequestMoves DEF ServerStays, reqVars, serverVars, streamVars
    <3> QED
      BY <1>1, <3>1, TabKeepsReqs
  <2>4. Tab'
    BY <1>1, <2>1, UnchangedKeepsTab
  <2> QED
    BY <1>2, <2>2, <2>3, <2>4
<1>14. Next \/ UNCHANGED vars
  OBVIOUS
<1> QED
  BY <1>5, <1>6, <1>7, <1>8, <1>9, <1>10, <1>11, <1>12, <1>13, <1>14 DEF Next, Progress

THEOREM InvHolds == Spec => []Inv
BY InvInit, InvStep, PTL DEF Spec

(* Everything has its type, in particular what a request carries at each   *)
(* of its steps.                                                           *)
THEOREM WorkspaceTypeCorrect == Spec => []TypeOK
<1>1. Inv => TypeOK
  <2> SUFFICES ASSUME Inv PROVE TypeOK
    OBVIOUS
  <2>1. ServerTypes /\ ReqTypes /\ TabTypes
    BY DEF Inv, AllTypes
  <2>2. index \in Indexes /\ link.state \in {"shut", "handshake", "serving"}
    BY <2>1 DEF ServerTypes, Links
  <2>3. ASSUME NEW s \in Sessions
        PROVE  /\ status[s] \in Statuses
               /\ prog[s] \in Progresses
               /\ view[s].status \in Statuses
               /\ view[s].prog \in ReadProgress
    BY <2>1 DEF ServerTypes, TabTypes, Views
  <2> QED
    BY <2>1, <2>2, <2>3
       DEF TypeOK, ReqTypes, TabTypes, Statuses, Progresses, ReadProgress, Indexes
<1> QED
  BY <1>1, InvHolds, PTL

(* The tab listens to the session it shows, in exactly one way, and to no  *)
(* other, however sockets open, get lost and close and however the user    *)
(* turns from one session to the next.                                     *)
THEOREM ListensToWhatItShows == Spec => []OneListener
<1>1. Inv => OneListener
  BY DEF Inv
<1> QED
  BY <1>1, InvHolds, PTL

(* No activity is shown twice, over whichever way it reaches the tab: what *)
(* the socket and the user append is looked up before, and the histories   *)
(* that snapshots bring have nothing twice, since a run numbers its events *)
(* and, in one behaviour, the user starts one run.                         *)
THEOREM ShownOnce == Spec => []NoItemTwice
<1>1. Inv => NoItemTwice
  BY DEF Inv
<1> QED
  BY <1>1, InvHolds, PTL

(* The list of sessions changes by one request at a time, each applied to  *)
(* the list as it was.                                                     *)
THEOREM ListChangesSerially == Spec => UpdatesAreSerial
<1> DEFINE Serial == \E kind \in IndexKinds, s \in Sessions : index' \in Updates(kind, s, index)
<1>1. Inv /\ [Next]_vars => [Serial]_index
  <2> SUFFICES ASSUME Inv, [Next]_vars, index' # index PROVE Serial
    OBVIOUS
  <2>1. AllTypes /\ ReqInv
    BY DEF Inv
  <2>2. PICK k \in 1 .. Len(reqs) : ServeWrite(k) /\ script' = script
    <3>1. ~(UNCHANGED index)
      OBVIOUS
    <3>2. ASSUME Returns PROVE FALSE
      BY <2>1, <3>1, <3>2, ReturnsMove DEF ServerStays
    <3>3. ASSUME Selects \/ Creates \/ Types \/ Starts \/ Deletes \/ Batches \/ Cancels
                   \/ Reloads
          PROVE  FALSE
      BY <2>1, <3>1, <3>3, GesturesMove DEF ServerStays
    <3>4. ASSUME SocketOpens \/ SocketLost \/ Reconnects \/ Polls \/ FrameArrives
                   \/ \E i \in DOMAIN effects : SocketCloses(i)
          PROVE  FALSE
      BY <2>1, <3>1, <3>4, SocketsMove DEF ServerStays
    <3>5. Serve
      BY <3>1, <3>2, <3>3, <3>4 DEF Next, Progress, vars, Unread, RequestFails
    <3>6. PICK k \in DOMAIN reqs :
            \/ ServeStatus(k) \/ ServeProgress(k) \/ ServeHistory(k)
            \/ ServeBoot(k) \/ ServeList(k) \/ ServeAppend(k) \/ ServeStart(k)
            \/ ServeLocked(k) \/ ServeWrite(k) \/ ServeWipe(k) \/ ServeDrop(k)
      BY <3>5 DEF Serve
    <3>7. ServeWrite(k)
      BY <3>1, <3>6 DEF ServeStatus, ServeProgress, ServeHistory, ServeBoot, ServeList,
                        ServeAppend, ServeStart, ServeLocked, ServeWipe, ServeDrop
    <3> QED
      BY <2>1, <3>5, <3>7 DEF Serve, AllTypes, ReqTypes
  <2> QED
    BY <2>1, <2>2, ListIsWritten
<1> QED
  BY <1>1, InvHolds, PTL DEF Spec, UpdatesAreSerial

-----------------------------------------------------------------------------
(* What is shown and what is on its way.                                   *)

(* A request of this page whose answer replaces what is shown of s.        *)
Concerns(r, s) == r.mine /\ r.session = s /\ Replaces(r)

(* Nothing the answer will bring is older than b, the snapshot that could  *)
(* be taken now.                                                           *)
UpToDate(r, b) ==
  /\ r.kind = "state" /\ r.step \in {"reading", "read"} => r.body.status = b.status
  /\ r.kind = "state" /\ r.step = "read" => r.body.prog = b.prog
  /\ r.kind = "state" /\ r.step = "answered" => r.body = b
  /\ r.kind # "state" => r.step \notin {"dropping", "answered"}

(* A snapshot of s that will be applied, and not after a later answer.     *)
Asking(r, s) == Concerns(r, s) /\ r.kind = "state" /\ r.act # "before" /\ ~r.late

(* Such a snapshot was asked for since s changed last.                     *)
AskedIn(q, s, b) ==
  \E m \in 1 .. Len(q) :
    Asking(q[m], s) /\ \A k \in m .. Len(q) : Concerns(q[k], s) => UpToDate(q[k], b)

(* Nothing older is on its way, unless it is late.                         *)
CleanIn(q, s, b) ==
  \A k \in 1 .. Len(q) : Concerns(q[k], s) /\ ~q[k].late => UpToDate(q[k], b)

(* The user's own item is shown and not yet written.                       *)
Noting(r, s) == r.mine /\ r.session = s /\ r.kind = "append" /\ r.step # "answered"
NotingIn(q, s) == \E k \in 1 .. Len(q) : Noting(q[k], s)

(* Who was overtaken, so was everyone before.                              *)
LateFirst(q) ==
  \A s \in Sessions : \A i, j \in 1 .. Len(q) :
    i < j /\ Concerns(q[i], s) /\ Concerns(q[j], s) /\ q[j].late => q[i].late

LEMMA LateIsTheSame ==
  ASSUME NEW r \in Fetches, NEW s, NEW b
  PROVE  LET l == [r EXCEPT !.late = TRUE]
         IN  /\ l \in Fetches /\ l.late
             /\ Concerns(l, s) <=> Concerns(r, s)
             /\ UpToDate(l, b) <=> UpToDate(r, b)
             /\ Noting(l, s) <=> Noting(r, s)
BY DEF Fetches, Concerns, Replaces, UpToDate, Noting

(* What is left when request k has ended: where each was before, and how   *)
(* it was overtaken.                                                       *)
Was(k, i) == IF i < k THEN i ELSE i + 1
OvertakenBy(k, i) == i < k /\ reqs[i].session = reqs[k].session /\ Replaces(reqs[i])

LEMMA WhatIsLeft ==
  ASSUME reqs \in Seq(Fetches), NEW k \in 1 .. Len(reqs), NEW rs \in {Without(k), Overtaken(k)}
  PROVE  /\ rs \in Seq(Fetches) /\ Len(rs) = Len(reqs) - 1 /\ Len(reqs) \in Nat
         /\ \A i \in 1 .. Len(rs) :
              /\ i \in 1 .. Len(reqs) /\ Was(k, i) \in 1 .. Len(reqs)
              /\ Was(k, i) # k /\ reqs[Was(k, i)] \in Fetches
              /\ \/ rs[i] = reqs[Was(k, i)]
                 \/ /\ rs = Overtaken(k) /\ OvertakenBy(k, i)
                    /\ rs[i] = [reqs[i] EXCEPT !.late = TRUE]
              /\ rs = Overtaken(k) /\ OvertakenBy(k, i) => rs[i].late
<1> DEFINE n == Len(reqs)
           w == Without(k)
<1>0. n \in Nat /\ k \in 1 .. n
  OBVIOUS
<1>1. /\ w \in Seq(Fetches) /\ Len(w) = n - 1 /\ n \in Nat /\ k \in 1 .. n
      /\ \A i \in 1 .. (n - 1) : w[i] = IF i < k THEN reqs[i] ELSE reqs[i + 1]
  <2> HIDE DEF n, w
  <2> QED
    BY <1>0, WithoutOne DEF n, w
<1>2. rs \in Seq(Fetches) /\ Len(rs) = n - 1
  BY <1>1, ComesOvertaken DEF Comes
<1>3. ASSUME NEW i \in 1 .. (n - 1)
      PROVE  /\ i \in 1 .. n /\ Was(k, i) \in 1 .. n /\ Was(k, i) # k
             /\ w[i] = reqs[Was(k, i)]
  BY <1>1 DEF Was
<1>4. ASSUME NEW i \in 1 .. n PROVE reqs[i] \in Fetches
  BY <1>4, ElementOfSeq
<1>5. DOMAIN w = 1 .. (n - 1)
  BY <1>1
<1>6. ASSUME NEW i \in 1 .. (n - 1)
      PROVE  Overtaken(k)[i] =
               IF OvertakenBy(k, i)
               THEN [reqs[i] EXCEPT !.late = TRUE] ELSE w[i]
  BY <1>5 DEF Overtaken, OvertakenBy
<1> HIDE DEF w
<1>7. ASSUME NEW i \in 1 .. (n - 1)
      PROVE  /\ \/ rs[i] = reqs[Was(k, i)]
                \/ /\ rs = Overtaken(k) /\ OvertakenBy(k, i)
                   /\ rs[i] = [reqs[i] EXCEPT !.late = TRUE]
             /\ rs = Overtaken(k) /\ OvertakenBy(k, i) => rs[i].late
  <2>1. CASE ~(rs = Overtaken(k) /\ OvertakenBy(k, i))
    BY <1>3, <1>6, <2>1 DEF w
  <2>2. CASE rs = Overtaken(k) /\ OvertakenBy(k, i)
    <3>1. rs[i] = [reqs[i] EXCEPT !.late = TRUE]
      BY <1>6, <2>2
    <3>2. reqs[i] \in Fetches
      BY <1>3, <1>4
    <3> QED
      BY <2>2, <3>1, <3>2, LateIsTheSame
  <2> QED
    BY <2>1, <2>2
<1> QED
  BY <1>1, <1>2, <1>3, <1>4, <1>7

LEMMA AppendIs ==
  ASSUME NEW q \in Seq(Fetches), NEW r \in Fetches
  PROVE  /\ Append(q, r) \in Seq(Fetches) /\ Len(Append(q, r)) = Len(q) + 1 /\ Len(q) \in Nat
         /\ Append(q, r)[Len(q) + 1] = r
         /\ \A i \in 1 .. Len(q) : Append(q, r)[i] = q[i] /\ i \in 1 .. (Len(q) + 1)
         /\ \A i \in 1 .. (Len(q) + 1) : i \in 1 .. Len(q) \/ i = Len(q) + 1
BY AppendProperties

(* A request that is sent leaves what is on its way as good as it was.     *)
LEMMA SendingKeeps ==
  ASSUME NEW q \in Seq(Fetches), NEW r \in Fetches, NEW s, NEW b,
         Concerns(r, s) => UpToDate(r, b)
  PROVE  /\ AskedIn(q, s, b) => AskedIn(Append(q, r), s, b)
         /\ CleanIn(q, s, b) => CleanIn(Append(q, r), s, b)
         /\ NotingIn(q, s) => NotingIn(Append(q, r), s)
<1> DEFINE t == Append(q, r)
           n == Len(q)
<1>1. /\ Len(t) = n + 1 /\ n \in Nat /\ t[n + 1] = r
      /\ \A i \in 1 .. n : t[i] = q[i] /\ i \in 1 .. (n + 1)
      /\ \A i \in 1 .. (n + 1) : i \in 1 .. n \/ i = n + 1
  BY AppendIs
<1> HIDE DEF t
<1>2. ASSUME AskedIn(q, s, b) PROVE AskedIn(t, s, b)
  <2>1. PICK m \in 1 .. n :
          Asking(q[m], s) /\ \A k \in m .. n : Concerns(q[k], s) => UpToDate(q[k], b)
    BY <1>2 DEF AskedIn
  <2>2. m \in 1 .. (n + 1) /\ t[m] = q[m]
    BY <1>1
  <2>3. ASSUME NEW k \in m .. (n + 1), Concerns(t[k], s) PROVE UpToDate(t[k], b)
    <3>1. (k \in 1 .. n /\ k \in m .. n) \/ k = n + 1
      BY <1>1
    <3> QED
      BY <1>1, <2>1, <2>3, <3>1
  <2> QED
    BY <1>1, <2>1, <2>2, <2>3 DEF AskedIn
<1>3. ASSUME CleanIn(q, s, b) PROVE CleanIn(t, s, b)
  BY <1>1, <1>3 DEF CleanIn
<1>4. ASSUME NotingIn(q, s) PROVE NotingIn(t, s)
  BY <1>1, <1>4 DEF NotingIn
<1> QED
  BY <1>2, <1>3, <1>4 DEF t

(* A snapshot that is asked for last makes up for everything.              *)
LEMMA AskingMakesGood ==
  ASSUME NEW q \in Seq(Fetches), NEW r \in Fetches, NEW s, NEW b,
         Asking(r, s), r.step = "sent"
  PROVE  AskedIn(Append(q, r), s, b)
<1> DEFINE t == Append(q, r)
           n == Len(q)
<1>1. Len(t) = n + 1 /\ n \in Nat /\ t[n + 1] = r
  BY AppendIs
<1> HIDE DEF t
<1>2. UpToDate(r, b)
  BY DEF UpToDate
<1>3. n + 1 \in 1 .. Len(t) /\ \A k \in (n + 1) .. Len(t) : t[k] = r
  <2>1. \A k \in (n + 1) .. (n + 1) : k = n + 1
    BY <1>1
  <2> QED
    BY <1>1, <2>1
<1> QED
  BY <1>1, <1>2, <1>3 DEF AskedIn, t

LEMMA SendingIsFirst ==
  ASSUME NEW q \in Seq(Fetches), NEW r \in Fetches, ~r.late, LateFirst(q)
  PROVE  LateFirst(Append(q, r))
<1> DEFINE t == Append(q, r)
           n == Len(q)
<1>1. /\ Len(t) = n + 1 /\ n \in Nat /\ t[n + 1] = r
      /\ \A i \in 1 .. n : t[i] = q[i] /\ i \in 1 .. (n + 1)
      /\ \A i \in 1 .. (n + 1) : i \in 1 .. n \/ i = n + 1
  BY AppendIs
<1> HIDE DEF t
<1> SUFFICES ASSUME NEW s \in Sessions, NEW i \in 1 .. (n + 1), NEW j \in 1 .. (n + 1), i < j,
                    Concerns(t[i], s), Concerns(t[j], s), t[j].late
             PROVE  t[i].late
  BY <1>1 DEF LateFirst, t
<1>2. j \in 1 .. n
  BY <1>1
<1>3. i \in 1 .. n
  BY <1>1, <1>2
<1> QED
  BY <1>1, <1>2, <1>3 DEF LateFirst

LEMMA LeavingIsFirst ==
  ASSUME reqs \in Seq(Fetches), NEW k \in 1 .. Len(reqs), NEW rs \in {Without(k), Overtaken(k)},
         LateFirst(reqs)
  PROVE  LateFirst(rs)
<1> DEFINE n == Len(reqs)
<1>1. /\ Len(rs) = n - 1 /\ n \in Nat
      /\ \A i \in 1 .. Len(rs) :
              /\ i \in 1 .. n /\ Was(k, i) \in 1 .. n
              /\ Was(k, i) # k /\ reqs[Was(k, i)] \in Fetches
              /\ \/ rs[i] = reqs[Was(k, i)]
                 \/ /\ rs = Overtaken(k) /\ OvertakenBy(k, i)
                    /\ rs[i] = [reqs[i] EXCEPT !.late = TRUE]
              /\ rs = Overtaken(k) /\ OvertakenBy(k, i) => rs[i].late
  BY WhatIsLeft
<1> SUFFICES ASSUME NEW s \in Sessions, NEW i \in 1 .. Len(rs), NEW j \in 1 .. Len(rs), i < j,
                    Concerns(rs[i], s), Concerns(rs[j], s), rs[j].late
             PROVE  rs[i].late
  BY DEF LateFirst
<1>2. Was(k, i) < Was(k, j)
  BY <1>1 DEF Was
<1>3. CASE rs[i] = reqs[Was(k, i)] /\ rs[j] = reqs[Was(k, j)]
  BY <1>1, <1>2, <1>3 DEF LateFirst
<1>4. CASE rs[i] # reqs[Was(k, i)]
  BY <1>1, <1>4
<1>5. CASE rs[i] = reqs[Was(k, i)] /\ rs[j] # reqs[Was(k, j)]
  <2>1. rs = Overtaken(k) /\ OvertakenBy(k, j) /\ rs[j] = [reqs[j] EXCEPT !.late = TRUE]
    BY <1>1, <1>5
  <2>2. i < k /\ j < k /\ i \in 1 .. n /\ j \in 1 .. n
    BY <1>1, <2>1 DEF OvertakenBy
  <2>3. Was(k, i) = i /\ Was(k, j) = j
    BY <2>2 DEF Was
  <2>4. Concerns(reqs[j], s) /\ Concerns(reqs[i], s)
    BY <1>1, <1>5, <2>1, <2>3, LateIsTheSame
  <2>5. OvertakenBy(k, i)
    BY <2>1, <2>2, <2>4 DEF OvertakenBy, Concerns
  <2> QED
    BY <1>1, <2>1, <2>5
<1> QED
  BY <1>3, <1>4, <1>5

LEMMA OutdatedIsFirst ==
  ASSUME NEW q \in Seq(Fetches), LateFirst(q)
  PROVE  Outdated(q) \in Seq(Fetches) /\ LateFirst(Outdated(q))
<1> DEFINE n == Len(q)
           t == Outdated(q)
<1>1. n \in Nat /\ DOMAIN q = 1 .. n /\ \A i \in 1 .. n : q[i] \in Fetches
  BY ElementOfSeq
<1>2. ASSUME NEW i \in 1 .. n
      PROVE  /\ t[i] \in Fetches /\ t[i].late = q[i].late
             /\ \A s \in Sessions : Concerns(t[i], s) <=> Concerns(q[i], s)
  <2>1. t[i] = q[i] \/ t[i] = [q[i] EXCEPT !.act = "before"]
    BY <1>1 DEF Outdated
  <2> QED
    BY <1>1, <2>1 DEF Fetches, Concerns, Replaces
<1>3. t = [i \in 1 .. n |-> t[i]]
  BY <1>1 DEF Outdated
<1> HIDE DEF t
<1>4. t \in Seq(Fetches) /\ Len(t) = n
  BY <1>1, <1>2, <1>3
<1> QED
  BY <1>2, <1>4 DEF LateFirst, t

(* Nothing of the page that is gone concerns the one that was loaded.      *)
LEMMA ReloadingIsFirst ==
  ASSUME reqs \in Seq(Fetches), NEW S
  PROVE  LET left == Among(reqs, S)
             rs == [i \in DOMAIN left |-> [left[i] EXCEPT !.mine = FALSE]]
         IN  rs \in Seq(Fetches) /\ LateFirst(rs)
<1> DEFINE left == Among(reqs, S)
           rs == [i \in DOMAIN left |-> [left[i] EXCEPT !.mine = FALSE]]
           n == Len(left)
<1>1. left \in Seq(Fetches)
  BY AmongPicks
<1> HIDE DEF left
<1>2. n \in Nat /\ DOMAIN left = 1 .. n /\ \A i \in 1 .. n : left[i] \in Fetches
  BY <1>1, ElementOfSeq
<1>3. ASSUME NEW i \in 1 .. n PROVE rs[i] \in Fetches /\ ~rs[i].mine
  BY <1>2 DEF Fetches
<1>4. rs \in [1 .. n -> Fetches]
  BY <1>2, <1>3
<1>5. rs \in Seq(Fetches) /\ Len(rs) = n
  BY <1>2, <1>4
<1> HIDE DEF rs
<1>6. LateFirst(rs)
  BY <1>3, <1>5 DEF LateFirst, Concerns
<1> QED
  BY <1>5, <1>6 DEF left, rs

(* What is left is as good as it was, but for what was asked for before    *)
(* the request that ended.                                                 *)
LEMMA LeavingKeeps ==
  ASSUME reqs \in Seq(Fetches), NEW k \in 1 .. Len(reqs), NEW rs \in {Without(k), Overtaken(k)},
         NEW s, NEW b
  PROVE  /\ CleanIn(reqs, s, b) => CleanIn(rs, s, b)
         /\ NotingIn(reqs, s) /\ ~Noting(reqs[k], s) => NotingIn(rs, s)
         /\ /\ AskedIn(reqs, s, b) /\ ~Asking(reqs[k], s)
            /\ rs = Without(k) \/ reqs[k].session # s
            => AskedIn(rs, s, b)
<1> DEFINE n == Len(reqs)
<1>1. /\ Len(rs) = n - 1 /\ n \in Nat
      /\ \A i \in 1 .. Len(rs) :
              /\ i \in 1 .. n /\ Was(k, i) \in 1 .. n
              /\ Was(k, i) # k /\ reqs[Was(k, i)] \in Fetches
              /\ \/ rs[i] = reqs[Was(k, i)]
                 \/ /\ rs = Overtaken(k) /\ OvertakenBy(k, i)
                    /\ rs[i] = [reqs[i] EXCEPT !.late = TRUE]
              /\ rs = Overtaken(k) /\ OvertakenBy(k, i) => rs[i].late
  BY WhatIsLeft
<1>2. ASSUME NEW i \in 1 .. Len(rs), OvertakenBy(k, i)
      PROVE  Was(k, i) = i
  BY <1>2 DEF OvertakenBy, Was
<1>3. ASSUME NEW i \in 1 .. Len(rs)
      PROVE  /\ rs[i] = reqs[Was(k, i)] \/ rs[i] = [reqs[Was(k, i)] EXCEPT !.late = TRUE]
             /\ rs[i] # reqs[Was(k, i)] => rs[i].late
             /\ Concerns(rs[i], s) <=> Concerns(reqs[Was(k, i)], s)
             /\ UpToDate(rs[i], b) <=> UpToDate(reqs[Was(k, i)], b)
             /\ Noting(rs[i], s) <=> Noting(reqs[Was(k, i)], s)
  <2>1. CASE rs[i] = reqs[Was(k, i)]
    BY <2>1
  <2>2. CASE /\ rs = Overtaken(k) /\ OvertakenBy(k, i)
             /\ rs[i] = [reqs[i] EXCEPT !.late = TRUE]
    <3>1. Was(k, i) = i /\ reqs[i] \in Fetches
      BY <1>1, <1>2, <2>2
    <3> QED
      BY <2>2, <3>1, LateIsTheSame
  <2> QED
    BY <1>1, <2>1, <2>2
<1>4. ASSUME NEW m \in 1 .. n, m # k
      PROVE  \E i \in 1 .. Len(rs) : Was(k, i) = m
  <2>1. CASE m < k
    <3>1. m \in 1 .. Len(rs) /\ Was(k, m) = m
      BY <1>1, <2>1 DEF Was
    <3> QED
      BY <3>1
  <2>2. CASE ~(m < k)
    <3>1. m - 1 \in 1 .. Len(rs) /\ Was(k, m - 1) = m
      BY <1>1, <1>4, <2>2 DEF Was
    <3> QED
      BY <3>1
  <2> QED
    BY <2>1, <2>2
<1>5. ASSUME CleanIn(reqs, s, b) PROVE CleanIn(rs, s, b)
  BY <1>1, <1>3, <1>5 DEF CleanIn
<1>6. ASSUME NotingIn(reqs, s), ~Noting(reqs[k], s) PROVE NotingIn(rs, s)
  <2>1. PICK m \in 1 .. n : Noting(reqs[m], s)
    BY <1>6 DEF NotingIn
  <2>2. PICK i \in 1 .. Len(rs) : Was(k, i) = m
    BY <1>4, <1>6, <2>1
  <2> QED
    BY <1>3, <2>1, <2>2 DEF NotingIn
<1>7. ASSUME AskedIn(reqs, s, b), ~Asking(reqs[k], s), rs = Without(k) \/ reqs[k].session # s
      PROVE  AskedIn(rs, s, b)
  <2>1. PICK m \in 1 .. n :
          Asking(reqs[m], s) /\ \A j \in m .. n : Concerns(reqs[j], s) => UpToDate(reqs[j], b)
    BY <1>7 DEF AskedIn
  <2>2. PICK i \in 1 .. Len(rs) : Was(k, i) = m
    BY <1>4, <1>7, <2>1
  <2>3. Asking(rs[i], s)
    <3>1. CASE rs[i] = reqs[m]
      BY <2>1, <3>1
    <3>2. CASE rs[i] # reqs[m]
      <4>1. /\ rs = Overtaken(k) /\ reqs[i].session = reqs[k].session
            /\ rs[i] = [reqs[i] EXCEPT !.late = TRUE] /\ i = m
        BY <1>1, <1>2, <2>2, <3>2 DEF OvertakenBy
      <4>2. reqs[k].session = s
        BY <2>1, <4>1 DEF Asking, Concerns
      <4>3. rs = Without(k) /\ \A j \in 1 .. Len(rs) : Without(k)[j] = reqs[Was(k, j)]
        BY <1>1, <1>7, <4>2, WithoutOne DEF Was
      <4> QED
        BY <2>2, <3>2, <4>3
    <3> QED
      BY <3>1, <3>2
  <2>4. ASSUME NEW j \in i .. Len(rs) PROVE j \in 1 .. Len(rs) /\ Was(k, j) \in m .. n
    BY <1>1, <2>2 DEF Was
  <2>5. \A j \in i .. Len(rs) : Concerns(rs[j], s) => UpToDate(rs[j], b)
    BY <1>3, <2>1, <2>4
  <2> QED
    BY <2>3, <2>5 DEF AskedIn
<1> QED
  BY <1>5, <1>6, <1>7

(* When the answer that ended replaces what is shown of s, either another  *)
(* snapshot was asked for after it, or nothing older is left.              *)
LEMMA OvertakingKeeps ==
  ASSUME reqs \in Seq(Fetches), NEW k \in 1 .. Len(reqs), NEW s \in Sessions, NEW b,
         Concerns(reqs[k], s), LateFirst(reqs), AskedIn(reqs, s, b)
  PROVE  \/ AskedIn(Overtaken(k), s, b)
         \/ CleanIn(Overtaken(k), s, b) /\ UpToDate(reqs[k], b) /\ ~reqs[k].late
<1> DEFINE n == Len(reqs)
           rs == Overtaken(k)
<1>1. /\ Len(rs) = n - 1 /\ n \in Nat
      /\ \A i \in 1 .. Len(rs) :
              /\ i \in 1 .. n /\ Was(k, i) \in 1 .. n
              /\ Was(k, i) # k /\ reqs[Was(k, i)] \in Fetches
              /\ \/ rs[i] = reqs[Was(k, i)]
                 \/ OvertakenBy(k, i) /\ rs[i] = [reqs[i] EXCEPT !.late = TRUE]
              /\ OvertakenBy(k, i) => rs[i].late
  BY WhatIsLeft
<1> HIDE DEF rs
<1>2. PICK m \in 1 .. n :
        Asking(reqs[m], s) /\ \A j \in m .. n : Concerns(reqs[j], s) => UpToDate(reqs[j], b)
  BY DEF AskedIn
<1>3. ASSUME NEW i \in 1 .. Len(rs), i >= k PROVE rs[i] = reqs[i + 1]
  <2>1. Was(k, i) = i + 1 /\ ~OvertakenBy(k, i)
    BY <1>3 DEF Was, OvertakenBy
  <2> QED
    BY <1>1, <2>1
<1>4. CASE m > k
  <2>1. m - 1 \in 1 .. Len(rs) /\ rs[m - 1] = reqs[m]
    BY <1>1, <1>3, <1>4
  <2>2. \A j \in (m - 1) .. Len(rs) : j \in 1 .. Len(rs) /\ j >= k /\ j + 1 \in m .. n
    BY <1>1, <1>4
  <2>3. \A j \in (m - 1) .. Len(rs) : Concerns(rs[j], s) => UpToDate(rs[j], b)
    BY <1>2, <1>3, <2>2
  <2> QED
    BY <1>2, <2>1, <2>3 DEF AskedIn, rs
<1>5. CASE ~(m > k)
  <2>1. k \in m .. n
    BY <1>1, <1>5
  <2>2. UpToDate(reqs[k], b)
    BY <1>2, <2>1
  <2>3. ~reqs[k].late
    <3>1. CASE m = k
      BY <1>2, <3>1 DEF Asking
    <3>2. CASE m < k
      BY <1>2, <3>2 DEF LateFirst, Asking
    <3> QED
      BY <1>1, <1>5, <3>1, <3>2
  <2>4. ASSUME NEW i \in 1 .. Len(rs), Concerns(rs[i], s), ~rs[i].late PROVE UpToDate(rs[i], b)
    <3>1. rs[i] = reqs[Was(k, i)] /\ ~OvertakenBy(k, i)
      BY <1>1, <2>4
    <3>2. ~(i < k)
      <4>1. ASSUME i < k PROVE FALSE
        <5>1. rs[i] = reqs[i]
          BY <3>1, <4>1 DEF Was
        <5> QED
          BY <2>4, <3>1, <4>1, <5>1 DEF OvertakenBy, Concerns
      <4> QED
        BY <4>1
    <3>3. i + 1 \in m .. n /\ rs[i] = reqs[i + 1]
      BY <1>1, <1>3, <1>5, <3>2
    <3> QED
      BY <1>2, <2>4, <3>3
  <2> QED
    BY <2>2, <2>3, <2>4 DEF CleanIn, rs
<1> QED
  BY <1>1, <1>4, <1>5

LEMMA StepChanges ==
  ASSUME ReqTypes, NEW k \in 1 .. Len(reqs), NEW st, NEW b, Step(k, st, b)
  PROVE  /\ Len(reqs') = Len(reqs) /\ Len(reqs) \in Nat
         /\ \A j \in 1 .. Len(reqs) : j # k => reqs'[j] = reqs[j]
         /\ reqs'[k].step = st /\ reqs'[k].body = b /\ reqs'[k].kind = reqs[k].kind
         /\ reqs'[k].act = reqs[k].act /\ reqs'[k].late = reqs[k].late
         /\ \A s : Concerns(reqs'[k], s) <=> Concerns(reqs[k], s)
         /\ \A s : Noting(reqs[k], s) /\ st # "answered" => Noting(reqs'[k], s)
<1> DEFINE r == [reqs[k] EXCEPT !.step = st, !.body = b]
<1>1. reqs \in Seq(Fetches) /\ Len(reqs) \in Nat /\ reqs[k] \in Fetches
  BY ElementOfSeq DEF ReqTypes
<1>2. reqs' = [reqs EXCEPT ![k] = r]
  BY DEF Step
<1>3. /\ r.step = st /\ r.body = b /\ r.kind = reqs[k].kind /\ r.session = reqs[k].session
      /\ r.mine = reqs[k].mine /\ r.act = reqs[k].act /\ r.late = reqs[k].late
  BY <1>1 DEF Fetches
<1> HIDE DEF r
<1>4. Len(reqs') = Len(reqs)
  <2> DEFINE T == Fetches \cup {r}
  <2>1. reqs \in [1 .. Len(reqs) -> T] /\ r \in T
    BY <1>1
  <2> HIDE DEF T
  <2>2. reqs' \in [1 .. Len(reqs) -> T]
    BY <1>2, <2>1
  <2> QED
    BY <1>1, <2>2
<1>5. reqs'[k] = r /\ \A j \in 1 .. Len(reqs) : j # k => reqs'[j] = reqs[j]
  BY <1>1, <1>2
<1>6. /\ \A s : Concerns(r, s) <=> Concerns(reqs[k], s)
      /\ \A s : Noting(reqs[k], s) /\ st # "answered" => Noting(r, s)
  BY <1>3 DEF Concerns, Noting, Replaces
<1> QED
  BY <1>1, <1>3, <1>4, <1>5, <1>6

LEMMA ServingIsFirst ==
  ASSUME ReqTypes, NEW k \in 1 .. Len(reqs), NEW st, NEW b, Step(k, st, b),
         LateFirst(reqs)
  PROVE  LateFirst(reqs')
<1>1. /\ Len(reqs') = Len(reqs)
      /\ \A j \in 1 .. Len(reqs) :
           /\ reqs'[j].late = reqs[j].late
           /\ \A s : Concerns(reqs'[j], s) <=> Concerns(reqs[j], s)
  BY StepChanges
<1> QED
  BY <1>1 DEF LateFirst

(* Serving a request as it should be keeps what is on its way as good as   *)
(* it was.                                                                 *)
LEMMA ServingIsGood ==
  ASSUME ReqTypes, NEW k \in 1 .. Len(reqs), NEW st, NEW b, Step(k, st, b),
         NEW s, NEW c,
         Concerns(reqs[k], s) /\ UpToDate(reqs[k], c) => UpToDate(reqs'[k], c),
         Noting(reqs[k], s) => st # "answered"
  PROVE  /\ AskedIn(reqs, s, c) => AskedIn(reqs', s, c)
         /\ CleanIn(reqs, s, c) => CleanIn(reqs', s, c)
         /\ NotingIn(reqs, s) => NotingIn(reqs', s)
<1>1. /\ Len(reqs') = Len(reqs) /\ Len(reqs) \in Nat
      /\ \A j \in 1 .. Len(reqs) :
           /\ reqs'[j].late = reqs[j].late
           /\ Concerns(reqs'[j], s) <=> Concerns(reqs[j], s)
           /\ Asking(reqs'[j], s) <=> Asking(reqs[j], s)
           /\ Concerns(reqs[j], s) /\ UpToDate(reqs[j], c) => UpToDate(reqs'[j], c)
           /\ Noting(reqs[j], s) => Noting(reqs'[j], s)
  BY StepChanges DEF Asking
<1>2. ASSUME AskedIn(reqs, s, c) PROVE AskedIn(reqs', s, c)
  <2>1. PICK m \in 1 .. Len(reqs) :
          /\ Asking(reqs[m], s)
          /\ \A j \in m .. Len(reqs) : Concerns(reqs[j], s) => UpToDate(reqs[j], c)
    BY <1>2 DEF AskedIn
  <2>2. \A j \in m .. Len(reqs) : j \in 1 .. Len(reqs)
    BY <1>1
  <2> QED
    BY <1>1, <2>1, <2>2 DEF AskedIn
<1>3. ASSUME CleanIn(reqs, s, c) PROVE CleanIn(reqs', s, c)
  BY <1>1, <1>3 DEF CleanIn
<1>4. ASSUME NotingIn(reqs, s) PROVE NotingIn(reqs', s)
  BY <1>1, <1>4 DEF NotingIn
<1> QED
  BY <1>2, <1>3, <1>4

-----------------------------------------------------------------------------
(* What the tab has been told, and what it knows then.                     *)

(* The snapshot that could be taken now.                                   *)
Current(s) == [status |-> status[s], prog |-> Readable(prog[s]), hist |-> hist[s]]

(* Either a snapshot of s was asked for since s changed last, or s is      *)
(* shown as it is, but for the user's own item, and will stay so.          *)
Covered(s) ==
  \/ AskedIn(reqs, s, Current(s))
  \/ /\ CleanIn(reqs, s, Current(s))
     /\ s \in astray \/ NotingIn(reqs, s) \/ view[s] = Truth(s)

(* The tab was told of the last change of its session.                     *)
Told == link.told /\ <<"signal">> \notin Seen(link.frames)
Synced == Told => Covered(link.session)

LinkIs ==
  /\ link.state = "shut" => link = NoLink
  /\ link.state # "shut" => link.session = cur
  /\ link.told => link.state = "serving"

(* The events on their way to the tab are those of a run of its session,   *)
(* and in the history of the session unless that was deleted.              *)
Streaming == Seen(link.queue) \cup (Seen(link.frames) \ {<<"signal">>})
RunStreams ==
  /\ run.step # "off" => run.session \in Sessions
  /\ run.reached \/ Streaming # {} => run.step # "off" /\ link.session = run.session
  /\ run.step # "off" /\ ~run.lost => Streaming \subseteq Seen(hist[run.session])
  /\ run.step \in {"publish", "put"} /\ ~run.lost =>
       Event(run.events) \in Seen(hist[run.session])

Sync == LinkIs /\ RunStreams /\ LateFirst(reqs) /\ Synced

LEMMA NoLinkIs ==
  /\ NoLink.state = "shut" /\ NoLink.session = NoSession /\ NoLink.queue = <<>>
  /\ NoLink.frames = <<>> /\ NoLink.told = FALSE /\ NoLink.subscribed = FALSE
  /\ Seen(<<>>) = {}
BY DEF NoLink, Seen

LEMMA StreamStays ==
  ASSUME LinkIs, RunStreams, UNCHANGED <<cur, link, run, hist>>
  PROVE  LinkIs' /\ RunStreams'
BY DEF LinkIs, RunStreams, Streaming

LEMMA StreamIsCut ==
  ASSUME ServerTypes, RunStreams, CutLink, UNCHANGED hist
  PROVE  LinkIs' /\ RunStreams' /\ ~Told'
<1>1. link' = NoLink /\ Streaming' = {}
  BY NoLinkIs DEF CutLink, Streaming
<1>2. /\ run'.step = run.step /\ run'.session = run.session /\ run'.lost = run.lost
      /\ run'.events = run.events /\ run'.reached = FALSE
  BY DEF CutLink, ServerTypes, RunThreads
<1>3. LinkIs' /\ ~Told'
  BY <1>1, NoLinkIs DEF LinkIs, Told
<1>4. RunStreams'
  BY <1>1, <1>2 DEF RunStreams
<1> QED
  BY <1>3, <1>4

LEMMA CoveredStays ==
  ASSUME ServerTypes, LinkIs, Synced, UNCHANGED link,
         \A s \in Sessions : Covered(s) => Covered(s)'
  PROVE  Synced'
<1> SUFFICES ASSUME Told' PROVE Covered(link.session)'
  BY DEF Synced
<1>1. Told
  BY DEF Told
<1>2. link.session \in Sessions
  BY <1>1 DEF Told, LinkIs, ServerTypes
<1>3. PICK s \in Sessions : s = link.session
  BY <1>2
<1>4. Covered(s)'
  BY <1>1, <1>3 DEF Synced
<1> QED
  BY <1>3, <1>4 DEF Covered

LEMMA SnapshotIsAsked ==
  ASSUME NEW s \in Sessions, NEW remote \in BOOLEAN, NEW r,
         r = [Request("state", s) EXCEPT !.act = "last", !.remote = remote]
  PROVE  r \in Fetches /\ r.step = "sent" /\ ~r.late /\ Asking(r, s)
<1>1. Request("state", s) \in Fetches
  BY RequestIsFetch DEF Kinds
<1>2. r \in Fetches
  BY <1>1 DEF Fetches
<1>3. /\ r.step = "sent" /\ ~r.late /\ r.mine /\ r.session = s /\ r.kind = "state"
      /\ r.act = "last"
  BY DEF Request
<1> QED
  BY <1>2, <1>3 DEF Asking, Concerns, Replaces

(* A session that is activated is asked for.                               *)
LEMMA ActivatingSyncs ==
  ASSUME ServerTypes, Sync, UNCHANGED <<hist, status, prog>>,
         NEW rs \in Seq(Fetches), LateFirst(rs), NEW s \in Sessions, NEW remote \in BOOLEAN,
         Activate(rs, s, remote)
  PROVE  Sync'
<1> DEFINE r == [Request("state", s) EXCEPT !.act = "last", !.remote = remote]
           q == Outdated(rs)
<1>1. TurnTo(s) /\ reqs' = Append(q, r) /\ cur' = s
  BY DEF Activate, TurnTo
<1>2. q \in Seq(Fetches) /\ LateFirst(q)
  BY OutdatedIsFirst
<1>3. r \in Fetches /\ r.step = "sent" /\ ~r.late /\ Asking(r, s)
  BY SnapshotIsAsked
<1> HIDE DEF q, r
<1>4. LateFirst(reqs')
  BY <1>1, <1>2, <1>3, SendingIsFirst
<1>5. AskedIn(reqs', s, Current(s)')
  BY <1>1, <1>2, <1>3, AskingMakesGood
<1>6. CASE CutLink
  <2>1. LinkIs' /\ RunStreams' /\ ~Told'
    BY <1>6, StreamIsCut DEF Sync
  <2> QED
    BY <1>4, <2>1 DEF Sync, Synced
<1>7. CASE UNCHANGED <<run, link>> /\ s = cur
  <2>1. LinkIs' /\ RunStreams'
    BY <1>1, <1>7, StreamStays DEF Sync
  <2>2. ASSUME Told' PROVE link'.session = s
    BY <1>7, <2>2 DEF Told, LinkIs, Sync
  <2>3. Covered(s)'
    BY <1>5 DEF Covered
  <2>4. Synced'
    BY <2>2, <2>3 DEF Synced, Covered
  <2> QED
    BY <1>4, <2>1, <2>4 DEF Sync
<1> QED
  BY <1>1, <1>6, <1>7 DEF TurnTo

LEMMA DeactivatingSyncs ==
  ASSUME ServerTypes, Sync, UNCHANGED <<hist, status, prog>>,
         NEW rs \in Seq(Fetches), LateFirst(rs), Deactivate(rs)
  PROVE  Sync'
<1>1. TurnTo(NoSession) /\ reqs' = Outdated(rs) /\ cur' = NoSession
  BY DEF Deactivate, TurnTo
<1>2. LateFirst(reqs')
  BY <1>1, OutdatedIsFirst
<1>3. CASE CutLink
  <2>1. LinkIs' /\ RunStreams' /\ ~Told'
    BY <1>3, StreamIsCut DEF Sync
  <2> QED
    BY <1>2, <2>1 DEF Sync, Synced
<1>4. CASE UNCHANGED <<run, link>> /\ cur = NoSession
  <2>1. LinkIs' /\ RunStreams'
    BY <1>1, <1>4, StreamStays DEF Sync
  <2>2. ~Told
    BY <1>4, NoSessionAssumption DEF Told, LinkIs, Sync, ServerTypes
  <2>3. ~Told'
    BY <1>4, <2>2 DEF Told
  <2> QED
    BY <1>2, <2>1, <2>3 DEF Sync, Synced
<1> QED
  BY <1>1, <1>3, <1>4 DEF TurnTo

-----------------------------------------------------------------------------
(* What the bridge does: of a session that changes the tab is to be told   *)
(* anew, and the others stay as they are.                                  *)

LEMMA ChangeIsTold ==
  ASSUME ServerTypes, LinkIs, Synced, UNCHANGED cur, NEW g \in Sessions,
         link.session # g => link' = link,
         link.session = g =>
           /\ link'.told = FALSE /\ link'.state = link.state /\ link'.session = link.session
           /\ link'.queue = link.queue /\ link'.frames = link.frames,
         \A s \in Sessions : s # g /\ Covered(s) => Covered(s)'
  PROVE  LinkIs' /\ Synced' /\ Streaming' = Streaming /\ link'.session = link.session
<1>1. CASE link.session = g
  <2>1. link.state # "shut"
    BY <1>1, NoLinkIs, NoSessionAssumption DEF LinkIs
  <2> QED
    BY <1>1, <2>1 DEF LinkIs, Synced, Told, Streaming
<1>2. CASE link.session # g
  <2>1. link' = link
    BY <1>2
  <2>2. ASSUME Told' PROVE Covered(link.session)'
    <3>1. Told /\ link.session \in Sessions
      BY <2>1, <2>2 DEF Told, LinkIs, ServerTypes
    <3>2. PICK s \in Sessions : s = link.session
      BY <3>1
    <3>3. Covered(s)'
      BY <1>2, <3>1, <3>2 DEF Synced
    <3> QED
      BY <2>1, <3>2, <3>3 DEF Covered
  <2>3. Synced'
    BY <2>2 DEF Synced, Covered
  <2> QED
    BY <2>1, <2>3 DEF LinkIs, Streaming
<1> QED
  BY <1>1, <1>2

LEMMA CursorTells ==
  ASSUME ServerTypes, NEW g, CursorMoves(g)
  PROVE  /\ link.session # g => link' = link
         /\ link.session = g =>
              /\ link'.told = FALSE /\ link'.state = link.state /\ link'.session = link.session
              /\ link'.queue = link.queue /\ link'.frames = link.frames
BY DEF CursorMoves, CursorMoved, ServerTypes, Links

(* A session of which nothing changes, neither on the bridge nor on its    *)
(* way nor in the tab.                                                     *)
LEMMA OthersStay ==
  ASSUME NEW s, status'[s] = status[s], prog'[s] = prog[s], hist'[s] = hist[s]
  PROVE  Current(s)' = Current(s) /\ Truth(s)' = Truth(s)
BY DEF Current, Truth

LEMMA AppendSees ==
  ASSUME NEW T, NEW q \in Seq(T), NEW x \in T
  PROVE  Seen(Append(q, x)) = Seen(q) \cup {x}
<1> DEFINE n == Len(q)
           t == Append(q, x)
<1>1. /\ n \in Nat /\ t \in Seq(T) /\ Len(t) = n + 1
      /\ t[n + 1] = x /\ \A i \in 1 .. n : t[i] = q[i]
  BY AppendProperties
<1>2. DOMAIN q = 1 .. n /\ DOMAIN t = 1 .. (n + 1)
  BY <1>1
<1> HIDE DEF t
<1>3. /\ n + 1 \in 1 .. (n + 1) /\ \A i \in 1 .. n : i \in 1 .. (n + 1)
      /\ \A i \in 1 .. (n + 1) : i \in 1 .. n \/ i = n + 1
  BY <1>1
<1>4. Seen(t) = Seen(q) \cup {x}
  BY <1>1, <1>2, <1>3 DEF Seen
<1> QED
  BY <1>4 DEF t

LEMMA HistoryGrows ==
  ASSUME ServerTypes, NEW g \in Sessions, NEW x \in Items, AppendHistory(g, x)
  PROVE  /\ \A s \in Sessions : Seen(hist[s]) \subseteq Seen(hist'[s])
         /\ \A s \in Sessions : s # g => hist'[s] = hist[s]
         /\ x \in Seen(hist'[g])
<1>1. hist[g] \in Seq(Items) /\ hist' = [hist EXCEPT ![g] = Append(@, x)]
  BY DEF ServerTypes, AppendHistory
<1>2. hist'[g] = Append(hist[g], x) /\ \A s \in Sessions : s # g => hist'[s] = hist[s]
  BY <1>1 DEF ServerTypes
<1>3. Seen(Append(hist[g], x)) = Seen(hist[g]) \cup {x}
  BY <1>1, AppendSees
<1> QED
  BY <1>2, <1>3

LEMMA RunSyncs ==
  ASSUME ServerTypes, Sync, RunNext, UNCHANGED <<index, reqVars, tabVars>>
  PROVE  Sync'
<1> DEFINE same == /\ run'.session = run.session /\ run'.lost = run.lost
                   /\ run'.step # "off" /\ run'.reached = run.reached
<1>1. run.step # "off"
  BY DEF RunNext, RunEmits, RunPublishes, RunPuts, RunOpensProgress, RunWritesProgress, RunEnds
<1>2. PICK g \in Sessions : g = run.session
  BY <1>1 DEF Sync, RunStreams
<1>3. LateFirst(reqs')
  BY DEF Sync, reqVars
<1>4. UNCHANGED <<cur, reqs, view, astray>>
  BY DEF reqVars, tabVars
<1>5. ASSUME CursorMoves(g),
             \A s \in Sessions : s # g => /\ status'[s] = status[s] /\ prog'[s] = prog[s]
                                          /\ hist'[s] = hist[s]
      PROVE  LinkIs' /\ Synced' /\ Streaming' = Streaming /\ link'.session = link.session
  <2>1. ASSUME NEW s \in Sessions, s # g, Covered(s) PROVE Covered(s)'
    <3>1. Current(s)' = Current(s) /\ Truth(s)' = Truth(s)
      BY <1>5, <2>1, OthersStay
    <3> QED
      BY <1>4, <2>1, <3>1 DEF Covered
  <2> QED
    BY <1>4, <1>5, <2>1, CursorTells, ChangeIsTold DEF Sync
<1>6. CASE RunEmits
  <2> DEFINE x == Event(run.events + 1)
  <2>1. /\ run'.session = g /\ run'.lost = run.lost /\ run'.step = "publish"
        /\ run'.reached = run.reached /\ run'.events = run.events + 1 /\ run.events \in Nat
    BY <1>2, <1>6 DEF RunEmits, ServerTypes, RunThreads
  <2>2. AppendHistory(g, x) /\ CursorMoves(g) /\ UNCHANGED <<status, prog>> /\ x \in Items
    BY <1>2, <1>6, <2>1 DEF RunEmits, Event, Items
  <2> HIDE DEF x
  <2>3. /\ \A s \in Sessions : Seen(hist[s]) \subseteq Seen(hist'[s])
        /\ \A s \in Sessions : s # g => hist'[s] = hist[s]
        /\ x \in Seen(hist'[g])
    BY <2>2, HistoryGrows
  <2>4. LinkIs' /\ Synced' /\ Streaming' = Streaming /\ link'.session = link.session
    BY <1>5, <2>2, <2>3
  <2>5. RunStreams'
    BY <1>1, <1>2, <2>1, <2>3, <2>4 DEF RunStreams, Sync, x
  <2> QED
    BY <1>3, <2>4, <2>5 DEF Sync
<1>7. CASE RunPublishes
  <2>1. /\ run'.session = g /\ run'.lost = run.lost /\ run'.step = "put"
        /\ run'.events = run.events /\ run.step = "publish"
        /\ run'.reached => link.session = g
        /\ UNCHANGED <<hist, status, prog, link>>
    BY <1>2, <1>7 DEF RunPublishes, ServerTypes, RunThreads
  <2>2. RunStreams' /\ LinkIs'
    BY <1>1, <1>2, <1>4, <2>1 DEF RunStreams, Sync, LinkIs, Streaming
  <2>3. ASSUME NEW s \in Sessions, Covered(s) PROVE Covered(s)'
    BY <1>4, <2>1, <2>3, OthersStay DEF Covered
  <2>4. Synced'
    BY <2>1, <2>3, CoveredStays DEF Sync
  <2> QED
    BY <1>3, <2>2, <2>4 DEF Sync
<1>8. CASE RunPuts
  <2>1. /\ run'.session = g /\ run'.lost = run.lost /\ run'.step = "talk" /\ run'.reached = FALSE
        /\ run'.events = run.events /\ run.step = "put"
        /\ UNCHANGED <<hist, status, prog>>
    BY <1>2, <1>8 DEF RunPuts, ServerTypes, RunThreads
  <2>2. ASSUME NEW s \in Sessions, Covered(s) PROVE Covered(s)'
    BY <1>4, <2>1, <2>2, OthersStay DEF Covered
  <2>3. CASE ~run.reached
    <3>1. link' = link
      BY <1>8, <2>3 DEF RunPuts
    <3>2. RunStreams' /\ LinkIs'
      BY <1>1, <1>2, <1>4, <2>1, <3>1 DEF RunStreams, Sync, LinkIs, Streaming
    <3>3. Synced'
      BY <2>2, <3>1, CoveredStays DEF Sync
    <3> QED
      BY <1>3, <3>2, <3>3 DEF Sync
  <2>4. CASE run.reached
    <3> DEFINE x == Event(run.events)
               q == Append(link.queue, x)
    <3>1. x \in Items
      BY DEF Event, Items, ServerTypes, RunThreads
    <3> HIDE DEF x
    <3>2. link' = [link EXCEPT !.queue = q]
      BY <1>8, <2>4 DEF RunPuts, x
    <3>3. Seen(q) = Seen(link.queue) \cup {x}
      <4>1. link.queue \in Seq(Items)
        BY DEF ServerTypes, Links
      <4> QED
        BY <3>1, <4>1, AppendSees
    <3> HIDE DEF q
    <3>4. /\ link'.state = link.state /\ link'.session = link.session /\ link'.told = link.told
          /\ link'.frames = link.frames /\ link'.queue = q /\ link.state # "shut"
      <4>1. link.session = g
        BY <1>2, <2>4 DEF Sync, RunStreams
      <4>2. link.state # "shut"
        BY <4>1, NoLinkIs, NoSessionAssumption DEF Sync, LinkIs
      <4> QED
        BY <3>2, <4>2 DEF ServerTypes, Links
    <3>5. Streaming' = Streaming \cup {x}
      BY <3>3, <3>4 DEF Streaming
    <3>6. ~run.lost => x \in Seen(hist[g])
      BY <1>2, <2>1 DEF Sync, RunStreams, x
    <3>7. RunStreams'
      BY <1>1, <1>2, <2>1, <2>4, <3>4, <3>5, <3>6 DEF RunStreams, Sync
    <3>8. LinkIs'
      BY <1>4, <3>4 DEF LinkIs, Sync
    <3>9. Synced'
      <4> SUFFICES ASSUME Told' PROVE Covered(link.session)'
        BY DEF Synced, Covered
      <4>1. Told /\ link.session \in Sessions
        BY <3>4 DEF Told, ServerTypes
      <4>2. PICK s \in Sessions : s = link.session
        BY <4>1
      <4>3. Covered(s)'
        BY <2>2, <4>1, <4>2 DEF Sync, Synced
      <4> QED
        BY <3>4, <4>2, <4>3 DEF Covered
    <3> QED
      BY <1>3, <3>7, <3>8, <3>9 DEF Sync
  <2> QED
    BY <2>3, <2>4
<1>9. CASE RunOpensProgress \/ RunWritesProgress \/ RunEnds
  <2>1. /\ run'.session = g /\ run'.lost = run.lost /\ run'.step \notin {"off", "publish", "put"}
        /\ run'.reached = run.reached /\ run'.events = run.events
        /\ UNCHANGED hist /\ CursorMoves(g)
        /\ \A s \in Sessions : s # g => status'[s] = status[s] /\ prog'[s] = prog[s]
    BY <1>2, <1>9 DEF RunOpensProgress, RunWritesProgress, RunEnds, ServerTypes, RunThreads
  <2>2. LinkIs' /\ Synced' /\ Streaming' = Streaming /\ link'.session = link.session
    BY <1>5, <2>1
  <2>3. RunStreams'
    BY <1>1, <1>2, <2>1, <2>2 DEF RunStreams, Sync
  <2> QED
    BY <1>3, <2>2, <2>3 DEF Sync
<1> QED
  BY <1>6, <1>7, <1>8, <1>9 DEF RunNext

LEMMA FirstSees ==
  ASSUME NEW T, NEW q \in Seq(T), q # <<>>
  PROVE  /\ Head(q) \in Seen(q) /\ Head(q) \in T /\ Tail(q) \in Seq(T)
         /\ Seen(q) = Seen(Tail(q)) \cup {Head(q)}
<1> DEFINE n == Len(q)
           t == Tail(q)
<1>1. /\ n \in Nat /\ n # 0 /\ t \in Seq(T) /\ Len(t) = n - 1
      /\ Head(q) = q[1] /\ Head(q) \in T /\ \A i \in 1 .. (n - 1) : t[i] = q[i + 1]
  BY HeadTailProperties, EmptySeq
<1>2. DOMAIN q = 1 .. n /\ DOMAIN t = 1 .. (n - 1)
  BY <1>1
<1> HIDE DEF t
<1>3. /\ 1 \in 1 .. n /\ \A i \in 1 .. (n - 1) : i + 1 \in 1 .. n
      /\ \A i \in 1 .. n : i = 1 \/ (i - 1 \in 1 .. (n - 1) /\ i = (i - 1) + 1)
  BY <1>1
<1>4. \A i \in 1 .. n : i # 1 => q[i] = t[i - 1] /\ i - 1 \in 1 .. (n - 1)
  BY <1>1, <1>3
<1>5. Seen(t) \cup {Head(q)} \subseteq Seen(q)
  <2>1. ASSUME NEW i \in DOMAIN t PROVE t[i] \in Seen(q)
    <3>1. t[i] = q[i + 1] /\ i + 1 \in DOMAIN q
      BY <1>1, <1>2, <1>3
    <3> QED
      BY <3>1 DEF Seen
  <2>2. Head(q) \in Seen(q)
    BY <1>1, <1>2, <1>3 DEF Seen
  <2> QED
    BY <2>1, <2>2 DEF Seen
<1>6. ASSUME NEW i \in 1 .. n PROVE q[i] \in Seen(t) \cup {Head(q)}
  BY <1>1, <1>2, <1>4 DEF Seen
<1>7. Seen(q) \subseteq Seen(t) \cup {Head(q)}
  BY <1>2, <1>6 DEF Seen
<1> QED
  BY <1>1, <1>5, <1>7 DEF t

LEMMA HandlerSyncs ==
  ASSUME ServerTypes, Sync, HandlerNext, UNCHANGED <<index, reqVars, tabVars>>
  PROVE  Sync'
<1>1. UNCHANGED <<hist, status, prog, run, cur, reqs, view, astray>>
  BY DEF HandlerNext, HandlerRegisters, HandlerForwards, HandlerSignals, reqVars, tabVars
<1>2. LateFirst(reqs')
  BY <1>1 DEF Sync
<1>3. ASSUME NEW s \in Sessions, Covered(s) PROVE Covered(s)'
  BY <1>1, <1>3, OthersStay DEF Covered
<1>4. ASSUME link.state # "shut", link'.state # "shut", link'.session = link.session,
             link'.told => link'.state = "serving",
             Streaming' \subseteq Streaming, Told' => Told
      PROVE  Sync'
  <2>1. LinkIs'
    BY <1>1, <1>4 DEF Sync, LinkIs
  <2>2. RunStreams'
    BY <1>1, <1>4 DEF Sync, RunStreams
  <2>3. PICK s \in Sessions : s = link.session
    BY <1>4 DEF ServerTypes
  <2>4. ASSUME Told' PROVE Covered(link.session)'
    <3>1. Covered(s)'
      BY <1>3, <1>4, <2>3, <2>4 DEF Sync, Synced
    <3> QED
      BY <1>4, <2>3, <3>1 DEF Covered
  <2> QED
    BY <1>2, <2>1, <2>2, <2>4 DEF Sync, Synced
<1>5. CASE HandlerRegisters
  <2>1. /\ link.state = "handshake" /\ link'.state = "serving" /\ link'.session = link.session
        /\ link'.told = link.told /\ link'.queue = link.queue /\ link'.frames = link.frames
    BY <1>5 DEF HandlerRegisters, ServerTypes, Links
  <2> QED
    BY <1>4, <2>1 DEF Streaming, Told
<1>6. CASE HandlerForwards
  <2> DEFINE x == Head(link.queue)
             q == Tail(link.queue)
             f == Append(link.frames, x)
  <2>1. /\ link.state = "serving" /\ link.queue # <<>> /\ link.queue \in Seq(Items)
        /\ link.frames \in Seq(Items \cup {<<"signal">>})
    BY <1>6 DEF HandlerForwards, Serving, ServerTypes, Links
  <2>2. x \in Seen(link.queue) /\ x \in Items /\ Seen(q) \subseteq Seen(link.queue)
    BY <2>1, FirstSees
  <2>3. Seen(f) = Seen(link.frames) \cup {x}
    <3>1. x \in Items \cup {<<"signal">>}
      BY <2>2
    <3> HIDE DEF x
    <3> QED
      BY <2>1, <3>1, AppendSees
  <2> HIDE DEF x, q, f
  <2>4. link' = [link EXCEPT !.queue = q, !.frames = f]
    BY <1>6 DEF HandlerForwards, q, f, x
  <2>5. /\ link'.state = "serving" /\ link'.session = link.session
        /\ link'.told = link.told /\ link'.queue = q /\ link'.frames = f
    BY <2>1, <2>4 DEF ServerTypes, Links
  <2>6. Streaming' \subseteq Streaming
    BY <2>2, <2>3, <2>5 DEF Streaming
  <2>7. Told' => Told
    BY <2>3, <2>5 DEF Told
  <2> QED
    BY <1>4, <2>1, <2>5, <2>6, <2>7
<1>7. CASE HandlerSignals
  <2> DEFINE f == Append(link.frames, <<"signal">>)
  <2>1. link.state = "serving" /\ link.frames \in Seq(Items \cup {<<"signal">>})
    BY <1>7 DEF HandlerSignals, Serving, ServerTypes, Links
  <2>2. Seen(f) = Seen(link.frames) \cup {<<"signal">>}
    BY <2>1, AppendSees
  <2> HIDE DEF f
  <2>3. link' = [link EXCEPT !.told = TRUE, !.frames = f]
    BY <1>7 DEF HandlerSignals, f
  <2>4. /\ link'.state = "serving" /\ link'.session = link.session
        /\ link'.queue = link.queue /\ link'.frames = f
    BY <2>1, <2>3 DEF ServerTypes, Links
  <2>5. Streaming' = Streaming
    BY <2>2, <2>4 DEF Streaming
  <2>6. ~Told'
    BY <2>2, <2>4 DEF Told
  <2> QED
    BY <1>4, <2>1, <2>4, <2>5, <2>6
<1> QED
  BY <1>5, <1>6, <1>7 DEF HandlerNext

(* Serving a request keeps a session covered of which nothing changes.     *)
LEMMA StillCovered ==
  ASSUME ReqTypes, NEW k \in 1 .. Len(reqs), NEW st, NEW b, Step(k, st, b), UNCHANGED tabVars,
         NEW s \in Sessions,
         status'[s] = status[s], prog'[s] = prog[s], hist'[s] = hist[s],
         Concerns(reqs[k], s) /\ UpToDate(reqs[k], Current(s)) => UpToDate(reqs'[k], Current(s)),
         Noting(reqs[k], s) => st # "answered",
         Covered(s)
  PROVE  Covered(s)'
<1>1. Current(s)' = Current(s) /\ Truth(s)' = Truth(s)
  BY OthersStay
<1>2. /\ AskedIn(reqs, s, Current(s)) => AskedIn(reqs', s, Current(s))
      /\ CleanIn(reqs, s, Current(s)) => CleanIn(reqs', s, Current(s))
      /\ NotingIn(reqs, s) => NotingIn(reqs', s)
  <2> DEFINE c == Current(s)
  <2>1. Concerns(reqs[k], s) /\ UpToDate(reqs[k], c) => UpToDate(reqs'[k], c)
    OBVIOUS
  <2> HIDE DEF c
  <2>2. /\ AskedIn(reqs, s, c) => AskedIn(reqs', s, c)
        /\ CleanIn(reqs, s, c) => CleanIn(reqs', s, c)
        /\ NotingIn(reqs, s) => NotingIn(reqs', s)
    BY <2>1, ServingIsGood
  <2> QED
    BY <2>2 DEF c
<1>3. UNCHANGED <<view, astray>>
  BY DEF tabVars
<1> QED
  BY <1>1, <1>2, <1>3 DEF Covered

(* Who serves a request that concerns no session of which it changes       *)
(* nothing, or brings it what is true.                                     *)
LEMMA ReadingSyncs ==
  ASSUME ServerTypes, ReqTypes, Sync, NEW k \in 1 .. Len(reqs), NEW st, NEW b, Step(k, st, b),
         UNCHANGED <<streamVars, tabVars>>,
         Noting(reqs[k], reqs[k].session) => st # "answered",
         \A s \in Sessions :
           Concerns(reqs[k], s) /\ UpToDate(reqs[k], Current(s)) => UpToDate(reqs'[k], Current(s))
  PROVE  Sync'
<1>1. UNCHANGED <<hist, status, prog, run, link, cur>>
  BY DEF streamVars, tabVars
<1>2. LateFirst(reqs')
  BY ServingIsFirst DEF Sync
<1>3. LinkIs' /\ RunStreams'
  BY <1>1, StreamStays DEF Sync
<1>4. ASSUME NEW s \in Sessions, Covered(s) PROVE Covered(s)'
  <2>1. Noting(reqs[k], s) => st # "answered"
    BY DEF Noting
  <2> QED
    BY <1>1, <1>4, <2>1, StillCovered
<1>5. Synced'
  BY <1>1, <1>4, CoveredStays DEF Sync
<1> QED
  BY <1>2, <1>3, <1>5 DEF Sync

LEMMA FailingSyncs ==
  ASSUME ServerTypes, ReqTypes, Sync, NEW k \in 1 .. Len(reqs), RequestFails(k), UNCHANGED tabVars
  PROVE  Sync'
<1>1. Step(k, "failed", reqs[k].body) /\ UNCHANGED streamVars
  BY DEF RequestFails
<1>2. reqs'[k].step = "failed"
  BY <1>1, StepChanges
<1>3. \A s \in Sessions : UpToDate(reqs'[k], Current(s))
  BY <1>2 DEF UpToDate
<1> QED
  BY <1>1, <1>3, ReadingSyncs

LEMMA ReadsSync ==
  ASSUME AllTypes, ReqInv, Sync, NEW k \in 1 .. Len(reqs), UNCHANGED tabVars,
         \/ ServeStatus(k) \/ ServeProgress(k) \/ ServeHistory(k)
         \/ ServeBoot(k) \/ ServeList(k)
         \/ ServeLocked(k) \/ ServeWrite(k)
  PROVE  Sync'
<1>0. ServerTypes /\ ReqTypes
  BY DEF AllTypes
<1>1. CASE ServeStatus(k)
  <2> DEFINE b == [status |-> status[reqs[k].session]]
  <2>1. Step(k, "reading", b) /\ reqs[k].kind = "state" /\ UNCHANGED streamVars
    BY <1>1 DEF ServeStatus
  <2>2. reqs'[k].kind = "state" /\ reqs'[k].step = "reading" /\ reqs'[k].body = b
    BY <1>0, <2>1, StepChanges
  <2>3. ASSUME NEW s \in Sessions, Concerns(reqs[k], s)
        PROVE  UpToDate(reqs'[k], Current(s))
    BY <2>2, <2>3 DEF UpToDate, Current, Concerns
  <2>4. Noting(reqs[k], reqs[k].session) => "reading" # "answered"
    OBVIOUS
  <2> HIDE DEF b
  <2> QED
    BY <1>0, <2>1, <2>3, <2>4, ReadingSyncs
<1>2. CASE ServeProgress(k)
  <2> DEFINE g == reqs[k].session
             b == [status |-> reqs[k].body.status, prog |-> Readable(prog[g])]
  <2>1. /\ Step(k, "read", b) /\ reqs[k].kind = "state" /\ reqs[k].step = "reading"
        /\ UNCHANGED streamVars
    BY <1>2 DEF ServeProgress
  <2>2. reqs'[k].kind = "state" /\ reqs'[k].step = "read" /\ reqs'[k].body = b
    BY <1>0, <2>1, StepChanges
  <2>3. ASSUME NEW s \in Sessions, Concerns(reqs[k], s), UpToDate(reqs[k], Current(s))
        PROVE  UpToDate(reqs'[k], Current(s))
    <3>1. g = s /\ reqs[k].body.status = Current(s).status
      BY <2>1, <2>3 DEF UpToDate, Concerns
    <3>2. b.status = Current(s).status /\ b.prog = Current(s).prog
      BY <3>1 DEF Current
    <3> QED
      BY <2>2, <3>2 DEF UpToDate
  <2>4. ~Noting(reqs[k], reqs[k].session)
    BY <2>1 DEF Noting
  <2> HIDE DEF b
  <2> QED
    BY <1>0, <2>1, <2>3, <2>4, ReadingSyncs
<1>4. CASE ServeHistory(k)
  <2> DEFINE g == reqs[k].session
             b == [status |-> reqs[k].body.status, prog |-> reqs[k].body.prog,
                   hist |-> hist[g]]
  <2>1. /\ Step(k, "answered", b) /\ reqs[k].kind = "state" /\ reqs[k].step = "read"
        /\ UNCHANGED streamVars
    BY <1>4 DEF ServeHistory
  <2>2. reqs'[k].kind = "state" /\ reqs'[k].step = "answered" /\ reqs'[k].body = b
    BY <1>0, <2>1, StepChanges
  <2>3. ASSUME NEW s \in Sessions, Concerns(reqs[k], s), UpToDate(reqs[k], Current(s))
        PROVE  UpToDate(reqs'[k], Current(s))
    <3>1. /\ g = s /\ reqs[k].body.status = Current(s).status
          /\ reqs[k].body.prog = Current(s).prog
      BY <2>1, <2>3 DEF UpToDate, Concerns
    <3>2. b = Current(s)
      BY <3>1 DEF Current
    <3> QED
      BY <2>2, <3>2 DEF UpToDate
  <2>4. ~Noting(reqs[k], reqs[k].session)
    BY <2>1 DEF Noting
  <2> HIDE DEF b
  <2> QED
    BY <1>0, <2>1, <2>3, <2>4, ReadingSyncs
<1>3. CASE ServeBoot(k) \/ ServeList(k) \/ ServeLocked(k) \/ ServeWrite(k)
  <2>1. /\ reqs[k].kind \in {"boot"} \cup IndexKinds /\ UNCHANGED streamVars
        /\ \E st, b : /\ Step(k, st, b)
                      /\ reqs[k].kind = "delete" => st \notin {"dropping", "answered"}
    <3>1. CASE ServeBoot(k)
      BY <3>1 DEF ServeBoot
    <3>2. CASE ServeList(k)
      BY <3>2 DEF ServeList
    <3>3. CASE ServeLocked(k)
      BY <3>3 DEF ServeLocked
    <3>4. CASE ServeWrite(k)
      BY <3>4 DEF ServeWrite, ReqInv, Locks
    <3> QED
      BY <1>3, <3>1, <3>2, <3>3, <3>4
  <2>2. PICK st, b : /\ Step(k, st, b)
                     /\ reqs[k].kind = "delete" => st \notin {"dropping", "answered"}
    BY <2>1
  <2>3. reqs'[k].kind = reqs[k].kind /\ reqs'[k].step = st
    BY <1>0, <2>2, StepChanges
  <2>4. ASSUME NEW s \in Sessions, Concerns(reqs[k], s) PROVE UpToDate(reqs'[k], Current(s))
    <3>1. reqs[k].kind = "delete"
      BY <2>1, <2>4 DEF Concerns, Replaces, IndexKinds
    <3> QED
      BY <2>2, <2>3, <3>1 DEF UpToDate
  <2>5. ~Noting(reqs[k], reqs[k].session)
    BY <2>1 DEF Noting, IndexKinds
  <2> QED
    BY <1>0, <2>1, <2>2, <2>4, <2>5, ReadingSyncs
<1> QED
  BY <1>1, <1>2, <1>3, <1>4

(* The session of which serving request k changes something.               *)
LEMMA WritingSyncs ==
  ASSUME ServerTypes, ReqTypes, Sync, NEW k \in 1 .. Len(reqs), NEW st, NEW b, Step(k, st, b),
         UNCHANGED tabVars, NEW g \in Sessions, g = reqs[k].session,
         link.session # g => link' = link,
         link.session = g =>
           /\ link'.told = FALSE /\ link'.state = link.state /\ link'.session = link.session
           /\ link'.queue = link.queue /\ link'.frames = link.frames,
         \A s \in Sessions : s # g => /\ status'[s] = status[s] /\ prog'[s] = prog[s]
                                      /\ hist'[s] = hist[s],
         Streaming' = Streaming /\ link'.session = link.session => RunStreams'
  PROVE  Sync'
<1>1. LateFirst(reqs')
  BY ServingIsFirst DEF Sync
<1>2. UNCHANGED cur
  BY DEF tabVars
<1>3. ASSUME NEW s \in Sessions, s # g, Covered(s) PROVE Covered(s)'
  <2>1. ~Concerns(reqs[k], s) /\ ~Noting(reqs[k], s)
    BY <1>3 DEF Concerns, Noting
  <2> QED
    BY <1>3, <2>1, StillCovered
<1>4. LinkIs' /\ Synced' /\ Streaming' = Streaming /\ link'.session = link.session
  BY <1>2, <1>3, ChangeIsTold DEF Sync
<1> QED
  BY <1>1, <1>4 DEF Sync

(* Dropping the subscribers of a session that was wiped changes nothing    *)
(* the tab could be told of.                                               *)
LEMMA DroppingSyncs ==
  ASSUME ServerTypes, ReqTypes, Sync, NEW k \in 1 .. Len(reqs), NEW b,
         reqs[k].kind = "delete", reqs[k].step = "dropping", Step(k, "answered", b),
         UNCHANGED <<hist, status, prog, run, tabVars>>,
         NEW g \in Sessions, DropSubscribers(g)
  PROVE  Sync'
<1>1. UNCHANGED <<hist, status, prog, run, cur>>
  BY DEF tabVars
<1>2. LateFirst(reqs')
  BY ServingIsFirst DEF Sync
<1>3. /\ link'.state = link.state /\ link'.session = link.session /\ link'.told = link.told
      /\ link'.queue = link.queue /\ link'.frames = link.frames
      /\ link.session # g => link' = link
  BY DEF DropSubscribers, ServerTypes, Links
<1>4. LinkIs'
  <2>1. link.state = "shut" => link.session # g
    BY NoLinkIs, NoSessionAssumption DEF Sync, LinkIs
  <2> QED
    BY <1>1, <1>3, <2>1 DEF Sync, LinkIs
<1>5. RunStreams'
  BY <1>1, <1>3 DEF Sync, RunStreams, Streaming
<1>6. ASSUME NEW s \in Sessions, Covered(s) PROVE Covered(s)'
  <2>1. ~UpToDate(reqs[k], Current(s)) /\ ~Noting(reqs[k], s)
    BY DEF UpToDate, Noting
  <2> QED
    BY <1>1, <1>6, <2>1, StillCovered
<1>7. ASSUME Told' PROVE Covered(link.session)'
  <2>1. Told
    BY <1>3, <1>7 DEF Told
  <2>2. PICK s \in Sessions : s = link.session
    BY <2>1 DEF Told, Sync, LinkIs, ServerTypes
  <2>3. Covered(s)'
    BY <1>6, <2>1, <2>2 DEF Sync, Synced
  <2> QED
    BY <1>3, <2>2, <2>3 DEF Covered
<1> QED
  BY <1>2, <1>4, <1>5, <1>7 DEF Sync, Synced

LEMMA WritesSync ==
  ASSUME AllTypes, ReqInv, Sync, NEW k \in 1 .. Len(reqs), UNCHANGED tabVars,
         ServeAppend(k) \/ ServeStart(k) \/ ServeWipe(k) \/ ServeDrop(k)
  PROVE  Sync'
<1>0. ServerTypes /\ ReqTypes /\ RunStreams
  BY DEF AllTypes, Sync
<1>1. reqs[k].kind \in {"append", "start", "delete"} /\ Carries(reqs[k]) /\ reqs[k] \in Fetches
  BY <1>0, ElementOfSeq DEF ServeAppend, ServeStart, ServeWipe, ServeDrop, Carries, ReqTypes
<1>2. PICK g \in Sessions : g = reqs[k].session
  BY <1>1 DEF Carries
<1>3. CASE ServeAppend(k)
  <2> DEFINE x == Note(reqs[k].note)
  <2>1. x \in Items
    BY <1>1 DEF Note, Items, Fetches
  <2> HIDE DEF x
  <2>2. /\ AppendHistory(g, x) /\ CursorMoves(g) /\ Step(k, "answered", reqs[k].body)
        /\ UNCHANGED <<status, prog, run>>
    BY <1>2, <1>3 DEF ServeAppend, x
  <2>3. /\ \A s \in Sessions : Seen(hist[s]) \subseteq Seen(hist'[s])
        /\ \A s \in Sessions : s # g => hist'[s] = hist[s]
    BY <1>0, <2>1, <2>2, HistoryGrows
  <2>4. ASSUME Streaming' = Streaming, link'.session = link.session PROVE RunStreams'
    BY <1>0, <2>2, <2>3, <2>4 DEF RunStreams
  <2> QED
    BY <1>0, <1>2, <2>2, <2>3, <2>4, CursorTells, WritingSyncs
<1>4. CASE ServeStart(k)
  <2>1. PICK st \in {"running", "failed"} :
          /\ status' = [status EXCEPT ![g] = st]
          /\ run' = IF st = "running" THEN [NoRun EXCEPT !.session = g, !.step = "talk"]
                    ELSE run
          /\ Step(k, "answered", [status |-> st])
    BY <1>2, <1>4 DEF ServeStart
  <2>2. /\ CursorMoves(g) /\ UNCHANGED <<hist, prog>>
        /\ reqs[k].kind = "start" /\ reqs[k].step = "sent"
    BY <1>2, <1>4 DEF ServeStart
  <2>3. \A s \in Sessions : s # g => /\ status'[s] = status[s] /\ prog'[s] = prog[s]
                                     /\ hist'[s] = hist[s]
    BY <1>0, <2>1, <2>2 DEF ServerTypes
  <2>4. run = NoRun
    BY <2>2 DEF ReqInv, Histories, StartPending, Starting, StartComes
  <2>5. Streaming = {}
    BY <1>0, <2>4 DEF RunStreams, NoRun
  <2>6. ~run'.reached /\ ~run'.lost /\ run'.step \in {"off", "talk"}
        /\ (run'.step # "off" => run'.session = g)
    BY <2>1, <2>4 DEF NoRun
  <2>7. ASSUME Streaming' = Streaming, link'.session = link.session PROVE RunStreams'
    BY <1>2, <2>5, <2>6, <2>7 DEF RunStreams
  <2>8. /\ link.session # g => link' = link
        /\ link.session = g =>
             /\ link'.told = FALSE /\ link'.state = link.state /\ link'.session = link.session
             /\ link'.queue = link.queue /\ link'.frames = link.frames
    BY <1>0, <2>2, CursorTells
  <2> QED
    BY <1>0, <1>2, <2>1, <2>3, <2>7, <2>8, WritingSyncs
<1>5. CASE ServeWipe(k)
  <2>1. WipeSession(g) /\ Step(k, "dropping", reqs[k].body) /\ CursorMoves(g)
    BY <1>2, <1>5 DEF ServeWipe, WipeSession
  <2>2. \A s \in Sessions : s # g => /\ status'[s] = status[s] /\ prog'[s] = prog[s]
                                     /\ hist'[s] = hist[s]
    BY <1>0, <2>1 DEF WipeSession, ServerTypes
  <2>3. /\ run'.session = run.session /\ run'.step = run.step /\ run'.reached = run.reached
        /\ run'.events = run.events
        /\ run'.lost = (run.lost \/ run.session = g)
    BY <1>0, <2>1 DEF WipeSession, ServerTypes, RunThreads
  <2>4. ASSUME Streaming' = Streaming, link'.session = link.session PROVE RunStreams'
    BY <1>0, <2>2, <2>3, <2>4 DEF RunStreams
  <2> QED
    BY <1>0, <1>2, <2>1, <2>2, <2>4, CursorTells, WritingSyncs
<1>6. CASE ServeDrop(k)
  <2>1. /\ DropSubscribers(g) /\ Step(k, "answered", reqs[k].body)
        /\ reqs[k].kind = "delete" /\ reqs[k].step = "dropping"
        /\ UNCHANGED <<hist, status, prog, run>>
    BY <1>1, <1>2, <1>6 DEF ServeDrop, DropSubscribers, Carries
  <2> QED
    BY <1>0, <1>2, <2>1, DroppingSyncs
<1> QED
  BY <1>3, <1>4, <1>5, <1>6

LEMMA ServingSyncs ==
  ASSUME AllTypes, ReqInv, Sync, Serve, UNCHANGED tabVars
  PROVE  Sync'
<1>1. PICK k \in 1 .. Len(reqs) :
        \/ ServeStatus(k) \/ ServeProgress(k) \/ ServeHistory(k)
        \/ ServeBoot(k) \/ ServeList(k) \/ ServeAppend(k) \/ ServeStart(k)
        \/ ServeLocked(k) \/ ServeWrite(k) \/ ServeWipe(k) \/ ServeDrop(k)
  BY DEF Serve, AllTypes, ReqTypes
<1> QED
  BY <1>1, ReadsSync, WritesSync

-----------------------------------------------------------------------------
(* What the tab does.                                                      *)

LEMMA QuietlySyncs ==
  ASSUME ServerTypes, Sync, UNCHANGED <<hist, status, prog, run, link, cur>>, LateFirst(reqs'),
         \A s \in Sessions : Covered(s) => Covered(s)'
  PROVE  Sync'
<1>1. LinkIs' /\ RunStreams'
  BY StreamStays DEF Sync
<1>2. Synced'
  BY CoveredStays DEF Sync
<1> QED
  BY <1>1, <1>2 DEF Sync

LEMMA CoversAsBefore ==
  ASSUME NEW s, UNCHANGED <<hist, status, prog>>,
         AskedIn(reqs, s, Current(s)) => AskedIn(reqs', s, Current(s)),
         CleanIn(reqs, s, Current(s)) => CleanIn(reqs', s, Current(s)),
         s \in astray \/ NotingIn(reqs, s) \/ view[s] = Truth(s) =>
           s \in astray' \/ NotingIn(reqs', s) \/ view'[s] = Truth(s),
         Covered(s)
  PROVE  Covered(s)'
BY OthersStay DEF Covered

(* A step that changes nothing of all this.                                *)
LEMMA NothingSyncs ==
  ASSUME ServerTypes, Sync,
         UNCHANGED <<hist, status, prog, run, link, cur, reqs, view, astray>>
  PROVE  Sync'
<1>1. ASSUME NEW s \in Sessions, Covered(s) PROVE Covered(s)'
  <2> DEFINE c == Current(s)
  <2>1. /\ AskedIn(reqs, s, c) => AskedIn(reqs', s, c)
        /\ CleanIn(reqs, s, c) => CleanIn(reqs', s, c)
    OBVIOUS
  <2>2. s \in astray \/ NotingIn(reqs, s) \/ view[s] = Truth(s) =>
          s \in astray' \/ NotingIn(reqs', s) \/ view'[s] = Truth(s)
    OBVIOUS
  <2> QED
    BY <1>1, <2>1, <2>2, CoversAsBefore
<1>2. LateFirst(reqs')
  BY DEF Sync
<1> QED
  BY <1>1, <1>2, QuietlySyncs

LEMMA CutSyncs ==
  ASSUME ServerTypes, Sync, CutLink, UNCHANGED hist, LateFirst(reqs')
  PROVE  Sync'
<1>1. LinkIs' /\ RunStreams' /\ ~Told'
  BY StreamIsCut DEF Sync
<1> QED
  BY <1>1 DEF Sync, Synced

(* One request more.                                                       *)
LEMMA SendingSyncs ==
  ASSUME ServerTypes, ReqTypes, Sync, UNCHANGED <<hist, status, prog, run, link, cur, view, astray>>,
         NEW r \in Fetches, r.step = "sent", ~r.late, reqs' = Append(reqs, r)
  PROVE  Sync'
<1>1. reqs \in Seq(Fetches) /\ LateFirst(reqs)
  BY DEF ReqTypes, Sync
<1>2. LateFirst(reqs')
  BY <1>1, SendingIsFirst
<1>3. ASSUME NEW s \in Sessions, Covered(s) PROVE Covered(s)'
  <2> DEFINE c == Current(s)
  <2>1. UpToDate(r, c)
    BY DEF UpToDate
  <2> HIDE DEF c
  <2>2. /\ AskedIn(reqs, s, c) => AskedIn(reqs', s, c)
        /\ CleanIn(reqs, s, c) => CleanIn(reqs', s, c)
        /\ NotingIn(reqs, s) => NotingIn(reqs', s)
    BY <1>1, <2>1, SendingKeeps
  <2> QED
    BY <1>3, <2>2, CoversAsBefore DEF c
<1> QED
  BY <1>2, <1>3, QuietlySyncs

LEMMA DeletionIsSent ==
  ASSUME NEW s \in Sessions, NEW n \in {0, 1}, NEW rest \in SUBSET Sessions, NEW r,
         \/ r = [Request("delete", s) EXCEPT !.note = n]
         \/ r = [Request("delete", s) EXCEPT !.note = n, !.rest = rest]
  PROVE  r \in Fetches /\ r.step = "sent" /\ ~r.late
<1>1. Request("delete", s) \in Fetches /\ n \in 0 .. 2
  BY RequestIsFetch DEF Kinds, IndexKinds
<1>2. r \in Fetches
  BY <1>1 DEF Fetches
<1>3. r.step = "sent" /\ ~r.late
  BY DEF Request
<1> QED
  BY <1>2, <1>3

LEMMA GesturesSync ==
  ASSUME AllTypes, Sync,
         Selects \/ Creates \/ Types \/ Starts \/ Deletes \/ Batches \/ Cancels \/ Reloads
  PROVE  Sync'
<1>0. /\ ServerTypes /\ ReqTypes /\ reqs \in Seq(Fetches) /\ LateFirst(reqs)
      /\ list \subseteq Sessions /\ fresh \subseteq Sessions /\ cur \in Sessions \cup {NoSession}
      /\ {"create", "save", "delete", "boot"} \subseteq Kinds
  BY DEF AllTypes, Sync, ReqTypes, TabTypes, Kinds, IndexKinds
<1>1. CASE Selects
  <2>1. PICK s \in list \ {cur} : Activate(reqs, s, TRUE)
    BY <1>1 DEF Selects
  <2> QED
    BY <1>0, <1>1, <2>1, ActivatingSyncs DEF Selects
<1>2. CASE Creates
  <2>1. PICK s \in fresh : reqs' = Append(reqs, Request("create", s))
    BY <1>2 DEF Creates, Send
  <2>2. /\ Request("create", s) \in Fetches /\ Request("create", s).step = "sent"
        /\ ~Request("create", s).late
    BY <1>0, <2>1, RequestIsFetch
  <2> QED
    BY <1>0, <1>2, <2>1, <2>2, SendingSyncs DEF Creates, serverVars, streamVars
<1>3. CASE Types
  <2>1. reqs' = Append(reqs, Request("save", cur))
    BY <1>3 DEF Types, Send
  <2>2. /\ Request("save", cur) \in Fetches /\ Request("save", cur).step = "sent"
        /\ ~Request("save", cur).late
    BY <1>0, RequestIsFetch
  <2> QED
    BY <1>0, <1>3, <2>1, <2>2, SendingSyncs DEF Types, serverVars, streamVars
<1>4. CASE Starts
  <2> DEFINE r == [Request("save", cur) EXCEPT !.note = 1]
  <2>1. reqs' = Append(reqs, r)
    BY <1>4 DEF Starts, Send
  <2>2. r \in Fetches /\ r.step = "sent" /\ ~r.late
    <3>1. Request("save", cur) \in Fetches /\ 1 \in 0 .. 2
      BY <1>0, RequestIsFetch
    <3>2. r \in Fetches
      BY <3>1 DEF Fetches
    <3>3. r.step = "sent" /\ ~r.late
      BY DEF Request
    <3> QED
      BY <3>2, <3>3
  <2> HIDE DEF r
  <2> QED
    BY <1>0, <1>4, <2>1, <2>2, SendingSyncs DEF Starts, serverVars, streamVars
<1>5. CASE Deletes
  <2>1. PICK s \in list :
          reqs' = Append(reqs, [Request("delete", s) EXCEPT !.note = IF s = cur THEN 1 ELSE 0])
    BY <1>5 DEF Deletes, Send
  <2> DEFINE n == IF s = cur THEN 1 ELSE 0
             r == [Request("delete", s) EXCEPT !.note = n]
  <2>2. reqs' = Append(reqs, r) /\ n \in {0, 1}
    BY <2>1
  <2> HIDE DEF n
  <2>3. r \in Fetches /\ r.step = "sent" /\ ~r.late
    <3>1. n \in {0, 1} /\ s \in Sessions /\ {} \in SUBSET Sessions
      BY <1>0, <2>1, <2>2
    <3> QED
      BY <3>1, DeletionIsSent
  <2> HIDE DEF r
  <2> QED
    BY <1>0, <1>5, <2>2, <2>3, SendingSyncs DEF Deletes, serverVars, streamVars
<1>6. CASE Batches
  <2>1. PICK chosen \in (SUBSET list) \ {{}} : \E s \in chosen :
          reqs' = Append(reqs, [Request("delete", s) EXCEPT
                                  !.note = IF cur \in chosen THEN 1 ELSE 0, !.rest = chosen \ {s}])
    BY <1>6 DEF Batches, Send
  <2>2. PICK s \in chosen :
          reqs' = Append(reqs, [Request("delete", s) EXCEPT
                                  !.note = IF cur \in chosen THEN 1 ELSE 0, !.rest = chosen \ {s}])
    BY <2>1
  <2> DEFINE n == IF cur \in chosen THEN 1 ELSE 0
             rest == chosen \ {s}
             r == [Request("delete", s) EXCEPT !.note = n, !.rest = rest]
  <2>3. reqs' = Append(reqs, r) /\ n \in {0, 1} /\ rest \in SUBSET Sessions /\ s \in Sessions
    BY <1>0, <2>2
  <2> HIDE DEF n, rest
  <2>5. r \in Fetches /\ r.step = "sent" /\ ~r.late
    BY <2>3, DeletionIsSent
  <2> HIDE DEF r
  <2> QED
    BY <1>0, <1>6, <2>3, <2>5, SendingSyncs DEF Batches, serverVars, streamVars
<1>7. CASE Reloads
  <2>1. PICK S : reqs' = Append([i \in DOMAIN Among(reqs, S) |->
                                   [Among(reqs, S)[i] EXCEPT !.mine = FALSE]],
                                Request("boot", NoSession))
    BY <1>7 DEF Reloads
  <2> DEFINE rs == [i \in DOMAIN Among(reqs, S) |-> [Among(reqs, S)[i] EXCEPT !.mine = FALSE]]
  <2>2. rs \in Seq(Fetches) /\ LateFirst(rs)
    BY <1>0, ReloadingIsFirst
  <2>3. Request("boot", NoSession) \in Fetches /\ ~Request("boot", NoSession).late
    BY <1>0, RequestIsFetch
  <2>4. reqs' = Append(rs, Request("boot", NoSession))
    BY <2>1
  <2> HIDE DEF rs
  <2>5. LateFirst(reqs')
    BY <2>2, <2>3, <2>4, SendingIsFirst
  <2> QED
    BY <1>0, <1>7, <2>5, CutSyncs DEF Reloads
<1>8. CASE Cancels
  <2>1. UNCHANGED <<hist, status, prog, run, link, cur, reqs, view, astray>>
    BY <1>8 DEF Cancels, serverVars, streamVars, reqVars
  <2> QED
    BY <1>0, <2>1, NothingSyncs
<1> QED
  BY <1>1, <1>2, <1>3, <1>4, <1>5, <1>6, <1>7, <1>8

LEMMA TruthShowsHistory ==
  ASSUME ServerTypes, NEW s \in Sessions
  PROVE  Seen(hist[s]) \subseteq Seen(Truth(s).feed)
<1> DEFINE b == [status |-> status[s], prog |-> Readable(prog[s]), hist |-> hist[s]]
           h == hist[s]
           d == Derived(b.prog, b.status)
<1>1. h \in Seq(Items) /\ b.hist = h
  BY DEF ServerTypes
<1>3. d = <<>> \/ \E y \in Results : d = <<y>>
  BY DerivedIs
<1>4. Truth(s) = Hydrated(NoView, b)
  BY DEF Truth
<1> HIDE DEF b, h, d
<1>5. Truth(s).feed = h \o d
  BY <1>1, <1>4 DEF Hydrated, d
<1>6. CASE d = <<>>
  BY <1>1, <1>5, <1>6, ConcatEmptySeq DEF h
<1>7. ASSUME NEW y \in Results, d = <<y>> PROVE Seen(h) \subseteq Seen(Truth(s).feed)
  <2>1. y \in Items /\ h \o d = Append(h, y)
    BY <1>1, <1>7, AppendIsConcat DEF Items
  <2> QED
    BY <1>1, <1>5, <2>1, AppendSees DEF h
<1> QED
  BY <1>3, <1>6, <1>7 DEF h

(* An event that is appended to what is shown is in the history already,   *)
(* unless that is gone.                                                    *)
LEMMA FramesSync ==
  ASSUME AllTypes, Sync, FrameArrives
  PROVE  Sync'
<1>0. ServerTypes /\ ReqTypes /\ TabTypes /\ reqs \in Seq(Fetches) /\ LateFirst(reqs)
  BY DEF AllTypes, Sync, ReqTypes
<1> DEFINE x == Head(link.frames)
           f == Tail(link.frames)
<1>1. link.frames # <<>> /\ link.frames \in Seq(Items \cup {<<"signal">>})
  BY <1>0 DEF FrameArrives, ServerTypes, Links
<1>2. Seen(link.frames) = Seen(f) \cup {x} /\ x \in Items \cup {<<"signal">>}
  BY <1>1, FirstSees
<1>3. link.state # "shut" /\ link.session = cur /\ cur \in Sessions
  BY <1>0, <1>1 DEF Sync, LinkIs, ServerTypes
<1>4. link' = [link EXCEPT !.frames = f]
  BY DEF FrameArrives
<1>5. /\ UNCHANGED <<hist, status, prog, run, cur>>
      /\ IF x = <<"signal">>
         THEN Send(Request("state", cur)) /\ UNCHANGED <<view, astray>>
         ELSE /\ view' = Appended(cur, x)
              /\ astray' = IF run.lost /\ x \notin Seen(hist[cur])
                           THEN astray \cup {cur} ELSE astray
              /\ UNCHANGED reqs
  BY <1>3 DEF FrameArrives
<1> HIDE DEF x, f
<1>6. /\ link'.state = link.state /\ link'.session = link.session /\ link'.told = link.told
      /\ link'.queue = link.queue /\ link'.frames = f
  BY <1>0, <1>4 DEF ServerTypes, Links
<1>7. LinkIs'
  BY <1>3, <1>5, <1>6 DEF Sync, LinkIs
<1>8. RunStreams'
  <2>1. Streaming' \subseteq Streaming
    BY <1>2, <1>6 DEF Streaming
  <2> QED
    BY <1>5, <1>6, <2>1 DEF RunStreams, Sync
<1>9. PICK s \in Sessions : s = cur
  BY <1>3
<1>10. CASE x = <<"signal">>
  <2> DEFINE r == Request("state", s)
  <2>1. reqs' = Append(reqs, r)
    BY <1>5, <1>9, <1>10 DEF Send
  <2>2. r \in Fetches /\ r.step = "sent" /\ ~r.late /\ Asking(r, s)
    BY DEF Request, Fetches, Kinds, Steps, Bodies, Asking, Concerns, Replaces
  <2> HIDE DEF r
  <2>3. LateFirst(reqs')
    BY <1>0, <2>1, <2>2, SendingIsFirst
  <2>4. AskedIn(reqs', s, Current(s)')
    BY <1>0, <2>1, <2>2, AskingMakesGood
  <2>5. Covered(s)'
    BY <2>4 DEF Covered
  <2>6. Synced'
    BY <1>3, <1>6, <1>9, <2>5 DEF Synced, Covered
  <2> QED
    BY <1>7, <1>8, <2>3, <2>6 DEF Sync
<1>11. CASE x # <<"signal">>
  <2>1. UNCHANGED reqs
    BY <1>5, <1>11
  <2>2. x \in Streaming /\ x \in Items
    BY <1>2, <1>11 DEF Streaming
  <2>3. astray \subseteq astray' /\ (x \notin Seen(hist[s]) => s \in astray')
    <3>1. run.step # "off" /\ run.session = s /\ (~run.lost => x \in Seen(hist[s]))
      BY <1>3, <1>9, <2>2 DEF Sync, RunStreams
    <3> QED
      BY <1>5, <1>9, <1>11, <3>1
  <2>4. ASSUME view[s] = Truth(s), x \in Seen(hist[s]) PROVE view'[s] = Truth(s)
    <3>1. view \in [Sessions -> Views]
      BY <1>0 DEF TabTypes
    <3>2. x \in Seen(view[s].feed)
      BY <1>0, <2>4, TruthShowsHistory
    <3>3. view'[s] = [view[s] EXCEPT !.feed = view[s].feed]
      BY <1>5, <1>9, <1>11, <3>1, <3>2 DEF Appended, Added
    <3> QED
      BY <2>4, <3>1, <3>3 DEF Views
  <2>5. ASSUME Covered(s) PROVE Covered(s)'
    BY <1>5, <2>1, <2>3, <2>4, <2>5, CoversAsBefore
  <2>6. ASSUME Told' PROVE Told
    BY <1>2, <1>6, <1>11, <2>6 DEF Told
  <2>7. Synced'
    <3>1. Told => Covered(s)
      BY <1>3, <1>9 DEF Sync, Synced
    <3> QED
      BY <1>3, <1>6, <1>9, <2>5, <2>6, <3>1 DEF Synced, Covered
  <2>8. LateFirst(reqs')
    BY <1>0, <2>1
  <2> QED
    BY <1>7, <1>8, <2>7, <2>8 DEF Sync
<1> QED
  BY <1>10, <1>11

LEMMA SocketsSync ==
  ASSUME AllTypes, OneListener, Sync,
         SocketOpens \/ SocketLost \/ Reconnects \/ Polls \/ FrameArrives
           \/ \E i \in DOMAIN effects : SocketCloses(i)
  PROVE  Sync'
<1>0. /\ ServerTypes /\ ReqTypes /\ TabTypes /\ LateFirst(reqs)
      /\ effects \in Seq(Effects) /\ cur \in Sessions \cup {NoSession}
  BY DEF AllTypes, Sync, TabTypes
<1>1. ASSUME Live PROVE Hook.session = cur /\ cur \in Sessions
  <2>1. Len(effects) \in DOMAIN effects
    BY <1>0, <1>1, EmptySeq DEF Live
  <2>2. cur # NoSession
    BY <1>1, <2>1 DEF OneListener, Live
  <2> QED
    BY <1>0, <2>2 DEF OneListener
<1>2. CASE SocketOpens
  <2>1. /\ link.state = "shut" /\ link' = Accepted(cur) /\ cur \in Sessions
        /\ UNCHANGED <<hist, run, cur, reqs>>
    BY <1>1, <1>2 DEF SocketOpens, reqVars
  <2>2. link = NoLink
    BY <2>1 DEF Sync, LinkIs
  <2>3. /\ link'.state = "handshake" /\ link'.session = cur /\ link'.told = FALSE
        /\ link'.queue = <<>> /\ link'.frames = <<>>
    BY <2>1 DEF Accepted, NoLink
  <2>4. Streaming' = {}
    BY <2>3, NoLinkIs DEF Streaming
  <2>5. ~run.reached
    BY <2>2, NoLinkIs, NoSessionAssumption DEF Sync, RunStreams
  <2>6. RunStreams'
    BY <2>1, <2>4, <2>5 DEF Sync, RunStreams
  <2>7. LinkIs'
    BY <2>1, <2>3 DEF LinkIs
  <2> QED
    BY <1>0, <2>1, <2>3, <2>6, <2>7 DEF Sync, Synced, Told
<1>3. CASE SocketLost
  BY <1>0, <1>3, CutSyncs DEF SocketLost
<1>4. CASE Reconnects \/ \E i \in DOMAIN effects : SocketCloses(i)
  <2>1. UNCHANGED <<hist, status, prog, run, link, cur, reqs, view, astray>>
    BY <1>4 DEF Reconnects, SocketCloses, serverVars, streamVars, reqVars
  <2> QED
    BY <1>0, <2>1, NothingSyncs
<1>5. CASE Polls
  <2>1. /\ reqs' = Append(reqs, Request("state", cur)) /\ cur \in Sessions
        /\ UNCHANGED <<hist, status, prog, run, link, cur, view, astray>>
    BY <1>1, <1>5 DEF Polls, Send, serverVars, streamVars, tabVars
  <2>2. /\ Request("state", cur) \in Fetches /\ Request("state", cur).step = "sent"
        /\ ~Request("state", cur).late
    <3>1. "state" \in Kinds
      BY DEF Kinds
    <3> QED
      BY <2>1, <3>1, RequestIsFetch
  <2> QED
    BY <1>0, <2>1, <2>2, SendingSyncs
<1>6. CASE FrameArrives
  BY <1>6, FramesSync
<1> QED
  BY <1>2, <1>3, <1>4, <1>5, <1>6

(* An item that is shown at once and sent.                                 *)
LEMMA NotesAreSent ==
  ASSUME ServerTypes, view \in [Sessions -> Views], cur \in Sessions \cup {NoSession},
         cur # NoSession, NEW views \in [Sessions -> Views], NEW q \in Seq(Fetches),
         NEW n \in 0 .. 2, NEW rest \in SUBSET Sessions, Notes(views, q, n, rest)
  PROVE  /\ \E r \in Fetches : reqs' = Append(q, r) /\ r.step = "sent" /\ ~r.late
         /\ NotingIn(reqs', cur)
         /\ \A s \in Sessions : s # cur => view'[s] = views[s]
<1> DEFINE r == [Request("append", cur) EXCEPT !.note = n, !.rest = rest]
<1>1. "append" \in Kinds
  BY DEF Kinds
<1>2. r \in Fetches /\ r.step = "sent" /\ ~r.late /\ Noting(r, cur)
  BY <1>1 DEF Request, Fetches, Steps, Bodies, Noting
<1>3. reqs' = Append(q, r)
  BY DEF Notes
<1> HIDE DEF r
<1>4. NotingIn(reqs', cur)
  <2>1. Len(reqs') = Len(q) + 1 /\ Len(q) \in Nat /\ reqs'[Len(q) + 1] = r
    BY <1>2, <1>3, AppendIs
  <2>2. Len(q) + 1 \in 1 .. Len(reqs')
    BY <2>1
  <2> QED
    BY <1>2, <2>1, <2>2 DEF NotingIn
<1>5. \A s \in Sessions : s # cur => view'[s] = views[s]
  BY DEF Notes
<1> QED
  BY <1>2, <1>3, <1>4, <1>5

(* What the answer to request k leaves of the others.                      *)
LEMMA LeftIsGood ==
  ASSUME AllTypes, Sync, NEW k \in 1 .. Len(reqs), NEW rs \in {Without(k), Overtaken(k)}
  PROVE  rs \in Seq(Fetches) /\ LateFirst(rs) /\ reqs[k] \in Fetches /\ Carries(reqs[k])
<1>1. reqs \in Seq(Fetches) /\ LateFirst(reqs) /\ Carries(reqs[k])
  BY DEF AllTypes, ReqTypes, Sync
<1> QED
  BY <1>1, WhatIsLeft, LeavingIsFirst, ElementOfSeq

(* A request that asked for nothing has ended, and another one may follow. *)
LEMMA EndingCovers ==
  ASSUME AllTypes, Sync, UNCHANGED <<hist, status, prog>>, NEW k \in 1 .. Len(reqs),
         reqs[k].kind # "state" \/ reqs[k].act = "before" \/ ~reqs[k].mine,
         \/ reqs' = Without(k)
         \/ \E r \in Fetches : reqs' = Append(Without(k), r) /\ r.step = "sent" /\ ~r.late,
         NEW s \in Sessions, Covered(s),
         \/ s \in astray'
         \/ view'[s] = view[s] /\ astray \subseteq astray' /\ ~Noting(reqs[k], s)
         \/ NotingIn(reqs', s)
         \/ Concerns(reqs[k], s) /\ ~UpToDate(reqs[k], Current(s)) /\ ~reqs[k].late
  PROVE  Covered(s)'
<1> DEFINE c == Current(s)
           w == Without(k)
<1>1. reqs \in Seq(Fetches) /\ w \in Seq(Fetches)
  BY LeftIsGood DEF AllTypes, ReqTypes
<1>2. ~Asking(reqs[k], s)
  BY DEF Asking, Concerns
<1> HIDE DEF c
<1>3. /\ AskedIn(reqs, s, c) => AskedIn(w, s, c)
      /\ CleanIn(reqs, s, c) => CleanIn(w, s, c)
      /\ NotingIn(reqs, s) /\ ~Noting(reqs[k], s) => NotingIn(w, s)
  BY <1>1, <1>2, LeavingKeeps
<1> HIDE DEF w
<1>4. /\ AskedIn(reqs, s, c) => AskedIn(reqs', s, c)
      /\ CleanIn(reqs, s, c) => CleanIn(reqs', s, c)
      /\ NotingIn(reqs, s) /\ ~Noting(reqs[k], s) => NotingIn(reqs', s)
  <2>1. CASE reqs' = w
    BY <1>3, <2>1
  <2>2. ASSUME NEW r \in Fetches, reqs' = Append(w, r), r.step = "sent" PROVE <1>4
    <3>1. UpToDate(r, c)
      BY <2>2 DEF UpToDate
    <3>2. /\ AskedIn(w, s, c) => AskedIn(Append(w, r), s, c)
          /\ CleanIn(w, s, c) => CleanIn(Append(w, r), s, c)
          /\ NotingIn(w, s) => NotingIn(Append(w, r), s)
      BY <1>1, <3>1, SendingKeeps
    <3> QED
      BY <1>3, <2>2, <3>2
  <2> QED
    BY <2>1, <2>2 DEF w
<1>5. CASE Concerns(reqs[k], s) /\ ~UpToDate(reqs[k], c) /\ ~reqs[k].late
  <2>1. ~CleanIn(reqs, s, c)
    BY <1>5 DEF CleanIn
  <2>2. AskedIn(reqs', s, c)
    BY <1>4, <2>1 DEF Covered, c
  <2> QED
    BY <2>2, OthersStay DEF Covered, c
<1>6. CASE ~(Concerns(reqs[k], s) /\ ~UpToDate(reqs[k], c) /\ ~reqs[k].late)
  <2>1. s \in astray \/ NotingIn(reqs, s) \/ view[s] = Truth(s) =>
          s \in astray' \/ NotingIn(reqs', s) \/ view'[s] = Truth(s)
    BY <1>4, <1>6 DEF c
  <2> QED
    BY <1>4, <2>1, CoversAsBefore DEF c
<1> QED
  BY <1>5, <1>6

LEMMA EndingIsFirst ==
  ASSUME AllTypes, Sync, NEW k \in 1 .. Len(reqs), NEW w \in {Without(k), Overtaken(k)},
         \/ reqs' = w
         \/ \E r \in Fetches : reqs' = Append(w, r) /\ r.step = "sent" /\ ~r.late
  PROVE  LateFirst(reqs')
<1>1. w \in Seq(Fetches) /\ LateFirst(w)
  BY LeftIsGood
<1> QED
  BY <1>1, SendingIsFirst

(* The answer of request k replaces what is shown of its session.          *)
LEMMA ReplacingCovers ==
  ASSUME AllTypes, Sync, UNCHANGED <<hist, status, prog>>, NEW k \in 1 .. Len(reqs),
         Replaces(reqs[k]), reqs[k].mine,
         \/ reqs' = Overtaken(k)
         \/ \E r \in Fetches : reqs' = Append(Overtaken(k), r) /\ r.step = "sent" /\ ~r.late,
         NEW s \in Sessions, Covered(s),
         s # reqs[k].session =>
           NotingIn(reqs', s) \/ (view'[s] = view[s] /\ (s \in astray => s \in astray')),
         s = reqs[k].session =>
           \/ s \in astray' \/ NotingIn(reqs', s)
           \/ ~reqs[k].late /\ (UpToDate(reqs[k], Current(s)) => view'[s] = Truth(s))
  PROVE  Covered(s)'
<1> DEFINE c == Current(s)
           w == Overtaken(k)
<1>1. reqs \in Seq(Fetches) /\ w \in Seq(Fetches) /\ LateFirst(reqs)
  BY LeftIsGood DEF AllTypes, ReqTypes, Sync
<1> HIDE DEF c
<1>2. /\ CleanIn(reqs, s, c) => CleanIn(w, s, c)
      /\ NotingIn(reqs, s) => NotingIn(w, s)
      /\ AskedIn(reqs, s, c) /\ s # reqs[k].session => AskedIn(w, s, c)
  <2>1. ~Noting(reqs[k], s)
    BY DEF Noting, Replaces
  <2>2. s # reqs[k].session => ~Asking(reqs[k], s)
    BY DEF Asking, Concerns
  <2> QED
    BY <1>1, <2>1, <2>2, LeavingKeeps
<1>3. AskedIn(reqs, s, c) /\ s = reqs[k].session =>
        AskedIn(w, s, c) \/ (CleanIn(w, s, c) /\ UpToDate(reqs[k], c))
  <2> SUFFICES ASSUME AskedIn(reqs, s, c), s = reqs[k].session
               PROVE  AskedIn(w, s, c) \/ (CleanIn(w, s, c) /\ UpToDate(reqs[k], c))
    OBVIOUS
  <2>1. Concerns(reqs[k], s)
    BY DEF Concerns
  <2> QED
    BY <1>1, <2>1, OvertakingKeeps
<1> HIDE DEF w
<1>4. /\ AskedIn(w, s, c) => AskedIn(reqs', s, c)
      /\ CleanIn(w, s, c) => CleanIn(reqs', s, c)
      /\ NotingIn(w, s) => NotingIn(reqs', s)
  <2>1. CASE reqs' = w
    BY <2>1
  <2>2. ASSUME NEW r \in Fetches, reqs' = Append(w, r), r.step = "sent" PROVE <1>4
    <3>1. UpToDate(r, c)
      BY <2>2 DEF UpToDate
    <3>2. /\ AskedIn(w, s, c) => AskedIn(Append(w, r), s, c)
          /\ CleanIn(w, s, c) => CleanIn(Append(w, r), s, c)
          /\ NotingIn(w, s) => NotingIn(Append(w, r), s)
      BY <1>1, <3>1, SendingKeeps
    <3> QED
      BY <2>2, <3>2
  <2> QED
    BY <2>1, <2>2 DEF w
<1>5. CASE s # reqs[k].session
  <2>1. AskedIn(reqs, s, c) => AskedIn(reqs', s, c)
    BY <1>2, <1>4, <1>5
  <2>2. CleanIn(reqs, s, c) => CleanIn(reqs', s, c)
    BY <1>2, <1>4
  <2>3. s \in astray \/ NotingIn(reqs, s) \/ view[s] = Truth(s) =>
          s \in astray' \/ NotingIn(reqs', s) \/ view'[s] = Truth(s)
    BY <1>2, <1>4, <1>5
  <2> QED
    BY <2>1, <2>2, <2>3, CoversAsBefore DEF c
<1>6. CASE s = reqs[k].session
  <2>1. CASE AskedIn(w, s, c)
    BY <1>4, <2>1, OthersStay DEF Covered, c
  <2>2. CASE ~AskedIn(w, s, c)
    <3>1. CleanIn(w, s, c)
      BY <1>2, <1>3, <1>6, <2>2 DEF Covered, c
    <3>2. s \in astray' \/ NotingIn(reqs', s) \/ UpToDate(reqs[k], c)
      <4>1. CASE AskedIn(reqs, s, c)
        BY <1>3, <1>6, <2>2, <4>1
      <4>2. CASE ~AskedIn(reqs, s, c)
        <5>1. CleanIn(reqs, s, c)
          BY <4>2 DEF Covered, c
        <5>2. Concerns(reqs[k], s)
          BY <1>6 DEF Concerns
        <5> QED
          BY <1>6, <5>1, <5>2 DEF CleanIn
      <4> QED
        BY <4>1, <4>2
    <3>3. s \in astray' \/ NotingIn(reqs', s) \/ view'[s] = Truth(s)
      BY <1>6, <3>2 DEF c
    <3> QED
      BY <1>4, <3>1, <3>3, OthersStay DEF Covered, c
  <2> QED
    BY <2>1, <2>2
<1> QED
  BY <1>5, <1>6

LEMMA SnapshotsSync ==
  ASSUME AllTypes, Sync, NEW k \in 1 .. Len(reqs),
         SnapshotApplies(k) \/ SnapshotFails(k) \/ StartReturns(k)
  PROVE  Sync'
<1> DEFINE r == reqs[k]
<1>0. /\ ServerTypes /\ view \in [Sessions -> Views] /\ r \in Fetches /\ Carries(r)
      /\ "current" \in Kinds /\ Overtaken(k) \in Seq(Fetches)
      /\ cur \in Sessions \cup {NoSession}
  BY LeftIsGood DEF AllTypes, TabTypes, Kinds, IndexKinds
<1>1. r.mine /\ r.kind \in {"state", "start"} /\ Replaces(r) /\ r.session \in Sessions
  BY <1>0 DEF SnapshotApplies, SnapshotFails, StartReturns, Answered, Failed, Carries, Replaces
<1>2. UNCHANGED <<hist, status, prog, run, link, cur>>
  BY DEF SnapshotApplies, SnapshotFails, StartReturns, serverVars, streamVars
(* A refused start is noted where the tab is by now.                       *)
<1>8. ASSUME StartReturns(k)
      PROVE  /\ \/ reqs' = Overtaken(k)
                \/ \E q \in Fetches : reqs' = Append(Overtaken(k), q) /\ q.step = "sent" /\ ~q.late
             /\ \A s \in Sessions :
                  s # r.session => NotingIn(reqs', s) \/ view'[s] = view[s]
  <2> DEFINE views == [view EXCEPT ![r.session].status = r.body.status]
  <2>1. r.kind = "start" /\ r.step = "answered" /\ r.body \in StatusBodies
    BY <1>0, <1>8 DEF StartReturns, Answered, Carries
  <2>2. /\ views \in [Sessions -> Views]
        /\ \A s \in Sessions : s # r.session => views[s] = view[s]
    BY <1>0, <1>1, <2>1 DEF Views, StatusBodies
  <2>3. \/ cur # NoSession /\ Notes(views, Overtaken(k), 2, {})
        \/ view' = views /\ reqs' = Overtaken(k)
    BY <1>8 DEF StartReturns
  <2> HIDE DEF views
  <2>4. CASE view' = views /\ reqs' = Overtaken(k)
    BY <2>2, <2>4
  <2>5. CASE cur # NoSession /\ Notes(views, Overtaken(k), 2, {})
    <3>1. /\ \E q \in Fetches : reqs' = Append(Overtaken(k), q) /\ q.step = "sent" /\ ~q.late
          /\ NotingIn(reqs', cur)
          /\ \A s \in Sessions : s # cur => view'[s] = views[s]
      <4>1. 2 \in 0 .. 2 /\ {} \in SUBSET Sessions
        OBVIOUS
      <4> QED
        BY <1>0, <2>2, <2>5, <4>1, NotesAreSent
    <3> QED
      BY <2>2, <3>1
  <2> QED
    BY <2>3, <2>4, <2>5
<1>3. \/ reqs' = Overtaken(k)
      \/ \E q \in Fetches : reqs' = Append(Overtaken(k), q) /\ q.step = "sent" /\ ~q.late
  <2>1. /\ Request("current", r.session) \in Fetches
        /\ Request("current", r.session).step = "sent" /\ ~Request("current", r.session).late
    BY <1>0, <1>1, RequestIsFetch
  <2>2. CASE SnapshotApplies(k) \/ SnapshotFails(k)
    BY <2>1, <2>2 DEF SnapshotApplies, SnapshotFails
  <2>3. CASE StartReturns(k)
    BY <2>3, <1>8
  <2> QED
    BY <2>2, <2>3
<1> HIDE DEF r
<1>4. LateFirst(reqs')
  BY <1>3, EndingIsFirst
<1>5. ASSUME NEW s \in Sessions, Covered(s) PROVE Covered(s)'
  <2>1. CASE SnapshotApplies(k)
    <3>1. /\ view' = [view EXCEPT ![r.session] = Hydrated(@, r.body)]
          /\ astray' = IF r.late THEN astray \cup {r.session} ELSE astray \ {r.session}
          /\ r.kind = "state" /\ r.step = "answered"
      BY <2>1 DEF SnapshotApplies, Answered, r
    <3>2. s # r.session => view'[s] = view[s] /\ (s \in astray => s \in astray')
      BY <1>0, <3>1
    <3>3. ASSUME s = r.session, UpToDate(r, Current(s)) PROVE view'[s] = Truth(s)
      <4>1. r.body = Current(s)
        BY <3>1, <3>3 DEF UpToDate
      <4>2. view'[s] = Hydrated(view[s], Current(s))
        BY <1>0, <3>1, <3>3, <4>1
      <4> QED
        BY <4>2 DEF Hydrated, Truth, Current
    <3>4. s = r.session =>
          s \in astray' \/ (~r.late /\ (UpToDate(r, Current(s)) => view'[s] = Truth(s)))
      BY <3>1, <3>3
    <3> QED
      BY <1>1, <1>2, <1>3, <1>5, <3>2, <3>4, ReplacingCovers DEF r
  <2>2. CASE SnapshotFails(k)
    <3>1. view' = view /\ astray' = astray \cup {r.session}
      BY <2>2 DEF SnapshotFails, r
    <3> QED
      BY <1>1, <1>2, <1>3, <1>5, <3>1, ReplacingCovers DEF r
  <2>3. CASE StartReturns(k)
    <3>1. astray' = Astray(r) /\ r.kind = "start" /\ r.step = "answered"
      BY <2>3 DEF StartReturns, Answered, r
    <3>2. s # r.session =>
            NotingIn(reqs', s) \/ (view'[s] = view[s] /\ (s \in astray => s \in astray'))
      BY <1>8, <2>3, <3>1 DEF Astray, r
    <3>3. ~UpToDate(r, Current(s)) /\ (s = r.session => s \in astray' \/ ~r.late)
      BY <3>1 DEF UpToDate, Astray
    <3> QED
      BY <1>1, <1>2, <1>3, <1>5, <3>2, <3>3, ReplacingCovers DEF r
  <2> QED
    BY <2>1, <2>2, <2>3
<1> QED
  BY <1>0, <1>2, <1>4, <1>5, QuietlySyncs

(* Answers that are followed by no activation.                             *)
LEMMA AnswersSync ==
  ASSUME AllTypes, Sync, NEW k \in 1 .. Len(reqs),
         \/ SnapshotDropped(k) \/ SaveReturns(k) \/ AppendReturns(k)
         \/ BatchGoesOn(k) \/ NothingFollows(k)
         \/ Unread(k) /\ UNCHANGED tabVars
  PROVE  Sync'
<1> DEFINE r == reqs[k]
<1>0. /\ ServerTypes /\ view \in [Sessions -> Views] /\ r \in Fetches /\ Carries(r)
      /\ {"append", "start", "delete"} \subseteq Kinds
      /\ cur \in Sessions \cup {NoSession} /\ Without(k) \in Seq(Fetches)
  BY LeftIsGood DEF AllTypes, TabTypes, Kinds, IndexKinds
<1> HIDE DEF r
<1>1. ASSUME UNCHANGED <<hist, status, prog, run, link, cur>>,
             r.kind # "state" \/ r.act = "before" \/ ~r.mine,
             \/ reqs' = Without(k)
             \/ \E q \in Fetches : reqs' = Append(Without(k), q) /\ q.step = "sent" /\ ~q.late,
             \A s \in Sessions :
               \/ s \in astray'
               \/ view'[s] = view[s] /\ astray \subseteq astray' /\ ~Noting(r, s)
               \/ NotingIn(reqs', s)
               \/ Concerns(r, s) /\ ~UpToDate(r, Current(s)) /\ ~r.late
      PROVE  Sync'
  <2>1. \A s \in Sessions : Covered(s) => Covered(s)'
    BY <1>1, EndingCovers DEF r
  <2>2. LateFirst(reqs')
    BY <1>1, EndingIsFirst
  <2> QED
    BY <1>0, <1>1, <2>1, <2>2, QuietlySyncs
<1>2. CASE \/ SnapshotDropped(k) \/ NothingFollows(k)
           \/ Unread(k) /\ UNCHANGED tabVars
  <2>1. /\ UNCHANGED <<hist, status, prog, run, link, cur, view, astray>>
        /\ reqs' = Without(k)
        /\ r.kind # "state" \/ r.act = "before" \/ ~r.mine
        /\ r.kind # "append" \/ ~r.mine
    BY <1>2 DEF SnapshotDropped, NothingFollows, Unread, Settled, Answered, Failed, serverVars,
                streamVars, tabVars, r
  <2>2. \A s \in Sessions : ~Noting(r, s)
    BY <2>1 DEF Noting
  <2> QED
    BY <1>1, <2>1, <2>2
(* The run is started.                                                     *)
<1>6. ASSUME NEW s \in Sessions, Launches(Without(k), s)
      PROVE  \E q \in Fetches : reqs' = Append(Without(k), q) /\ q.step = "sent" /\ ~q.late
  <2>1. /\ Request("start", s) \in Fetches /\ Request("start", s).step = "sent"
        /\ ~Request("start", s).late
    BY <1>0, RequestIsFetch
  <2> QED
    BY <1>6, <2>1 DEF Launches
<1>3. CASE SaveReturns(k)
  <2>1. /\ UNCHANGED <<hist, status, prog, run, link, cur, astray>>
        /\ r.kind = "save" /\ r.session \in Sessions
        /\ \/ reqs' = Without(k) /\ UNCHANGED view
           \/ cur # NoSession /\ Notes(view, Without(k), 1, {r.session})
           \/ Launches(Without(k), r.session) /\ UNCHANGED view
    BY <1>0, <1>3 DEF SaveReturns, Settled, Answered, Failed, serverVars, streamVars, Carries, r
  <2>2. \A s \in Sessions : ~Noting(r, s)
    BY <2>1 DEF Noting
  <2>3. CASE reqs' = Without(k) /\ UNCHANGED view
    BY <1>1, <2>1, <2>2, <2>3
  <2>4. CASE cur # NoSession /\ Notes(view, Without(k), 1, {r.session})
    <3>1. 1 \in 0 .. 2 /\ {r.session} \in SUBSET Sessions
      BY <2>1
    <3>2. /\ \E q \in Fetches : reqs' = Append(Without(k), q) /\ q.step = "sent" /\ ~q.late
          /\ NotingIn(reqs', cur)
          /\ \A s \in Sessions : s # cur => view'[s] = view[s]
      BY <1>0, <2>4, <3>1, NotesAreSent
    <3> QED
      BY <1>1, <2>1, <2>2, <3>2
  <2>5. CASE Launches(Without(k), r.session) /\ UNCHANGED view
    BY <1>1, <1>6, <2>1, <2>2, <2>5
  <2> QED
    BY <2>1, <2>3, <2>4, <2>5
<1>4. CASE AppendReturns(k)
  <2> DEFINE g == r.session
  <2>1. /\ UNCHANGED <<hist, status, prog, run, link, cur, view>>
        /\ r.kind = "append" /\ (r.step # "answered" => astray' = astray \cup {g})
        /\ astray \subseteq astray' /\ r.rest \subseteq Sessions
        /\ (\E s \in r.rest : Launches(Without(k), s)) \/ reqs' = Without(k)
    BY <1>0, <1>4 DEF AppendReturns, Settled, Answered, Failed, serverVars, streamVars, Fetches, r
  <2>2. \/ reqs' = Without(k)
        \/ \E q \in Fetches : reqs' = Append(Without(k), q) /\ q.step = "sent" /\ ~q.late
    BY <1>6, <2>1
  <2>3. \A s \in Sessions : ~Noting(r, s) \/ s \in astray'
    BY <2>1 DEF Noting
  <2> QED
    BY <1>1, <2>1, <2>2, <2>3
<1>5. CASE BatchGoesOn(k)
  <2> DEFINE g == r.session
  <2>1. PICK next \in r.rest :
          reqs' = Append(Without(k), [Request("delete", next) EXCEPT
                                        !.note = r.note, !.rest = r.rest \ {next}])
    BY <1>5 DEF BatchGoesOn, r
  <2> DEFINE q == [Request("delete", next) EXCEPT !.note = r.note, !.rest = r.rest \ {next}]
  <2>2. q \in Fetches /\ q.step = "sent" /\ ~q.late /\ reqs' = Append(Without(k), q)
    <3>1. "delete" \in Kinds /\ r.note \in 0 .. 2 /\ r.rest \in SUBSET Sessions /\ next \in Sessions
          /\ r.rest \ {next} \in SUBSET Sessions
      BY <1>0, <2>1 DEF Fetches
    <3> QED
      BY <2>1, <3>1 DEF Request, Fetches, Steps, Bodies
  <2> HIDE DEF q
  <2>3. /\ UNCHANGED <<hist, status, prog, run, link, cur>>
        /\ r.kind = "delete" /\ r.step = "answered" /\ r.mine
        /\ astray' = Astray(r) /\ view' = [view EXCEPT ![g] = NoView]
    BY <1>5 DEF BatchGoesOn, Answered, serverVars, streamVars, r
  <2>4. \A s \in Sessions : s # g => view'[s] = view[s] /\ astray \subseteq astray' /\ ~Noting(r, s)
    BY <1>0, <2>3 DEF Astray, Noting
  <2>5. \A s \in Sessions : s = g =>
          s \in astray' \/ (Concerns(r, s) /\ ~UpToDate(r, Current(s)) /\ ~r.late)
    BY <2>3 DEF Astray, Concerns, Replaces, UpToDate
  <2> QED
    BY <1>1, <2>2, <2>3, <2>4, <2>5
<1> QED
  BY <1>2, <1>3, <1>4, <1>5

LEMMA ReturnsSync ==
  ASSUME AllTypes, Sync, Returns
  PROVE  Sync'
<1>1. PICK k \in 1 .. Len(reqs) :
        \/ SnapshotApplies(k) \/ SnapshotDropped(k) \/ SnapshotFails(k)
        \/ SaveReturns(k) \/ AppendReturns(k) \/ StartReturns(k)
        \/ CreateReturns(k) \/ BatchGoesOn(k) \/ DeleteReturns(k)
        \/ NothingFollows(k) \/ BootReturns(k)
  BY DEF Returns, AllTypes, ReqTypes
<1> DEFINE r == reqs[k]
<1>2. /\ ServerTypes /\ view \in [Sessions -> Views] /\ r \in Fetches /\ Carries(r)
      /\ Without(k) \in Seq(Fetches) /\ LateFirst(Without(k))
      /\ list \subseteq Sessions /\ cur \in Sessions \cup {NoSession}
  BY LeftIsGood DEF AllTypes, TabTypes
<1>3. CASE SnapshotApplies(k) \/ SnapshotFails(k) \/ StartReturns(k)
  BY <1>3, SnapshotsSync
<1>4. CASE \/ SnapshotDropped(k) \/ SaveReturns(k) \/ AppendReturns(k)
           \/ BatchGoesOn(k) \/ NothingFollows(k)
  BY <1>4, AnswersSync
<1>5. CASE CreateReturns(k)
  <2>1. r.session \in Sessions
    BY <1>2, <1>5 DEF CreateReturns, Answered, Carries
  <2> QED
    BY <1>2, <1>5, <2>1, ActivatingSyncs DEF CreateReturns
<1>6. CASE BootReturns(k)
  <2> DEFINE merged == list \cup r.body.listed
             resolved == IF cur \in merged THEN {cur}
                         ELSE IF r.body.current \in merged THEN {r.body.current} ELSE merged
  <2>1. r.body.listed \subseteq Sessions
    BY <1>2, <1>6 DEF BootReturns, Answered, Carries, BootBodies
  <2>2. resolved \subseteq Sessions
    BY <1>2, <2>1
  <2> HIDE DEF resolved
  <2>3. (\E s \in resolved : Activate(Without(k), s, FALSE)) \/ Deactivate(Without(k))
    BY <1>6 DEF BootReturns, resolved
  <2>4. UNCHANGED <<hist, status, prog>>
    BY <1>6 DEF BootReturns
  <2> QED
    BY <1>2, <2>2, <2>3, <2>4, ActivatingSyncs, DeactivatingSyncs
<1>7. CASE DeleteReturns(k)
  <2>1. /\ UNCHANGED <<hist, status, prog>> /\ list' \subseteq Sessions
        /\ r.kind = "delete" /\ r.step = "answered" /\ r.mine
        /\ astray' = Astray(r) /\ view' = [view EXCEPT ![r.session] = NoView]
        /\ \/ reqs' = Without(k) /\ UNCHANGED <<cur, effects, link, run>>
           \/ \E next \in list' : Activate(Without(k), next, TRUE)
           \/ Deactivate(Without(k))
    BY <1>2, <1>7 DEF DeleteReturns, Answered
  <2>2. CASE \E next \in list' : Activate(Without(k), next, TRUE)
    BY <1>2, <2>1, <2>2, ActivatingSyncs
  <2>3. CASE Deactivate(Without(k))
    BY <1>2, <2>1, <2>3, DeactivatingSyncs
  <2>4. CASE reqs' = Without(k) /\ UNCHANGED <<cur, effects, link, run>>
    <3>1. LateFirst(reqs')
      BY <1>2, <2>4
    <3>2. ASSUME NEW s \in Sessions, Covered(s) PROVE Covered(s)'
      <4>1. CASE s # r.session
        <5>1. view'[s] = view[s] /\ astray \subseteq astray' /\ ~Noting(r, s)
          BY <1>2, <2>1, <4>1 DEF Astray, Noting
        <5> QED
          BY <2>1, <2>4, <3>2, <5>1, EndingCovers
      <4>2. CASE s = r.session
        <5>1. s \in astray' \/ (Concerns(r, s) /\ ~UpToDate(r, Current(s)) /\ ~r.late)
          BY <2>1, <4>2 DEF Astray, Concerns, Replaces, UpToDate
        <5> QED
          BY <2>1, <2>4, <3>2, <5>1, EndingCovers
      <4> QED
        BY <4>1, <4>2
    <3> QED
      BY <1>2, <2>1, <2>4, <3>1, <3>2, QuietlySyncs
  <2> QED
    BY <2>1, <2>2, <2>3, <2>4
<1> QED
  BY <1>1, <1>3, <1>4, <1>5, <1>6, <1>7

-----------------------------------------------------------------------------
LEMMA SyncInit ==
  ASSUME Init
  PROVE  Sync
<1>1. link = NoLink /\ run = NoRun
  BY DEF Init
<1>2. LinkIs /\ ~Told
  BY <1>1, NoLinkIs DEF LinkIs, Told
<1>3. RunStreams
  <2>1. Streaming = {}
    BY <1>1, NoLinkIs DEF Streaming
  <2> QED
    BY <1>1, <2>1 DEF RunStreams, NoRun
<1>4. LateFirst(reqs)
  <2>1. Len(reqs) = 1
    BY DEF Init
  <2>2. \A i, j \in 1 .. 1 : ~(i < j)
    OBVIOUS
  <2> QED
    BY <2>1, <2>2 DEF LateFirst
<1> QED
  BY <1>2, <1>3, <1>4 DEF Sync, Synced

LEMMA SyncStep ==
  ASSUME Inv, Sync, [Next]_vars
  PROVE  Sync'
<1>1. AllTypes /\ ServerTypes /\ ReqTypes /\ ReqInv /\ OneListener
  BY DEF Inv, AllTypes
<1>2. CASE RunNext /\ UNCHANGED <<index, reqVars, tabVars>>
  BY <1>1, <1>2, RunSyncs
<1>3. CASE HandlerNext /\ UNCHANGED <<index, reqVars, tabVars>>
  BY <1>1, <1>3, HandlerSyncs
<1>4. CASE Serve /\ UNCHANGED tabVars
  BY <1>1, <1>4, ServingSyncs
<1>5. CASE (\E k \in DOMAIN reqs : Unread(k)) /\ UNCHANGED tabVars
  <2>1. PICK k \in 1 .. Len(reqs) : Unread(k)
    BY <1>1, <1>5 DEF ReqTypes
  <2> QED
    BY <1>1, <1>5, <2>1, AnswersSync
<1>6. CASE Returns
  BY <1>1, <1>6, ReturnsSync
<1>7. CASE SocketOpens \/ SocketLost \/ Reconnects \/ Polls \/ FrameArrives
             \/ \E i \in DOMAIN effects : SocketCloses(i)
  BY <1>1, <1>7, SocketsSync
<1>8. CASE (\E k \in DOMAIN reqs : RequestFails(k)) /\ UNCHANGED tabVars
  <2>1. PICK k \in 1 .. Len(reqs) : RequestFails(k)
    BY <1>1, <1>8 DEF ReqTypes
  <2> QED
    BY <1>1, <1>8, <2>1, FailingSyncs
<1>9. CASE Selects \/ Creates \/ Types \/ Starts \/ Deletes \/ Batches \/ Cancels \/ Reloads
  BY <1>1, <1>9, GesturesSync
<1>10. CASE UNCHANGED vars
  <2>1. UNCHANGED <<hist, status, prog, run, link, cur, reqs, view, astray>>
    BY <1>10 DEF vars, streamVars, reqVars, tabVars
  <2> QED
    BY <1>1, <2>1, NothingSyncs
<1> QED
  BY <1>2, <1>3, <1>4, <1>5, <1>6, <1>7, <1>8, <1>9, <1>10 DEF Next, Progress

(* What a session's page shows when nothing more is to come is what the    *)
(* bridge knows.                                                           *)
LEMMA QuietShowsTruth ==
  ASSUME AllTypes, Sync
  PROVE  ShownAsItIs
<1> SUFFICES ASSUME cur # NoSession, Quiet(cur), cur \notin astray
             PROVE  view[cur] = Truth(cur)
  BY DEF ShownAsItIs
<1>1. Told /\ link.session = cur
  BY NoLinkIs DEF Quiet, Told
<1>2. Covered(cur)
  BY <1>1 DEF Sync, Synced
<1>3. reqs \in Seq(Fetches) /\ DOMAIN reqs = 1 .. Len(reqs)
  BY DEF AllTypes, ReqTypes
<1>4. \A k \in 1 .. Len(reqs) : ~Concerns(reqs[k], cur) /\ ~Noting(reqs[k], cur)
  BY <1>3 DEF Quiet, Concerns, Replaces, Noting
<1>5. ~AskedIn(reqs, cur, Current(cur)) /\ ~NotingIn(reqs, cur)
  BY <1>4 DEF AskedIn, Asking, NotingIn
<1> QED
  BY <1>2, <1>5 DEF Covered

(* When the socket has nothing more to say and no answer is awaited, the   *)
(* session that is current is shown as it is on the bridge, its activity   *)
(* in the same order, unless an overtaken answer, a failed fetch or an     *)
(* event of a deleted history touched it last: applySessionSnapshot puts   *)
(* the snapshot in the place of everything, appendActivity adds nothing    *)
(* that is there, and the thread of the socket looks at the cursor again   *)
(* after it has subscribed.                                                *)
THEOREM ShownAsOnTheBridge == Spec => []ShownAsItIs
<1>1. Init => Inv /\ Sync
  BY InvInit, SyncInit
<1>2. Inv /\ Sync /\ [Next]_vars => (Inv /\ Sync)'
  BY InvStep, SyncStep
<1>3. Inv /\ Sync => ShownAsItIs
  BY QuietShowsTruth DEF Inv
<1> QED
  BY <1>1, <1>2, <1>3, PTL DEF Spec
=============================================================================
