------------------------- MODULE BuilderTodosProofs -------------------------
(***************************************************************************)
(* What the two phases of the Builder promise, for every plan, every number*)
(* of parts and instances, and whatever a language model extracts: a part  *)
(* approved once stands until the end, and a run that gets behind the gate *)
(* of the assembly phase has the whole model in the scene; and what the    *)
(* inspection of Inspection and the final snapshot add: the page is told   *)
(* no more than the scene holds.                                           *)
(*                                                                         *)
(* With AO the build phase needs no assumption at all: whatever it left,   *)
(* every placement is read back, and the actions of the assembly phase     *)
(* touch the part they are for and no other.  Without AO nothing is read   *)
(* back, and the proof follows the actions of a placement one by one.  So  *)
(* it does with the actions of a plan that Python has repaired.            *)
(***************************************************************************)
EXTENDS Inspection, SublistProofs, SequenceTheorems

(* The actions of the assembly phase for the part f. *)
Placing(f) ==
  {a \in AnyAction : a.op \in {"show", "place", "rotate", "parent"} /\ a.object \in InstancesOf(f)}

(* What one call into Blender may do to the scene. *)
Touches(a) == Perform(a) \/ RemoveAll(Replaced(a)) \/ UNCHANGED sceneVars

(* The scene is a function of the objects. *)
SceneIsTotal == DOMAIN spot = Objects /\ DOMAIN parent = Objects

(* A todo is executed in one of the two phases, and only then. *)
TodoHasPhase ==
  /\ todo \in Families \cup {NoFamily}
  /\ todo # NoFamily => stage \in {"build", "assemble"}
  /\ todo = NoFamily => queue = <<>>

(* No part has a verdict before the assembly phase. *)
NoEarlyVerdict ==
  /\ verdict \in [Families -> {"pending", "approved", "failed"}]
  /\ stage = "build" => \A f \in Families : verdict[f] = "pending"

(* The assembly phase works on a part without a verdict, and on nothing    *)
(* but that part.                                                          *)
PlacesOnlyTodo ==
  stage = "assemble" /\ todo # NoFamily =>
    verdict[todo] = "pending" /\ queue \in Seq(Seq(Placing(todo)))

(* The k-th of a part's placing actions has had its effect.                *)
Done(f, k) ==
  LET o == Instance(f, ((k - 1) \div 3) + 1)
  IN  CASE k % 3 = 1 -> o \in present
        [] k % 3 = 2 -> spot[o] = "planned"
        [] OTHER     -> Parent[f] # NoFamily => parent[o] = ParentInstance(f)

(* The first p of them have, and the others are still to be executed.      *)
Follows(f, p) ==
  /\ \A k \in 1 .. p : Done(f, k)
  /\ \/ queue = <<>> /\ p = 3 * Count[f]
     \/ /\ leading /\ Len(queue) = 1 /\ Len(queue[1]) = 3 * Count[f] - p
        /\ \A j \in 1 .. (3 * Count[f] - p) :
             queue[1][j] = PlaceActions(f, ParentInstance(f))[p + j]

(* Without AO nothing is read back: a part is approved because all of its  *)
(* actions were executed.                                                  *)
DirectPlacing ==
  stage = "assemble" /\ todo # NoFamily /\ ~ao /\ ~failed =>
    \E p \in 0 .. 3 * Count[todo] : Follows(todo, p)

GateMeansApproval == stage = "placed" /\ ao => AllApproved

Inv ==
  /\ SceneIsTotal
  /\ TodoHasPhase
  /\ NoEarlyVerdict
  /\ PlacesOnlyTodo
  /\ ApprovedPartsStand
  /\ GateMeansApproval

-----------------------------------------------------------------------------
(* The types of the action lists.                                          *)

LEMMA InstanceIsObject ==
  ASSUME NEW f \in Families
  PROVE  InstancesOf(f) \subseteq Instances /\ Instances \subseteq Objects
           /\ Template(f) \in Objects
  BY DEF Objects, Instances

LEMMA Actions ==
  ASSUME NEW o \in Objects, NEW q \in Objects
  PROVE  /\ \A op \in Simple : op \in BuildOps => Do(op, o, NoObject) \in BuildAction
         /\ \A op \in Simple : op \in BuildOps \cup AssemblyOps => Do(op, o, NoObject) \in AnyAction
         /\ Do("duplicate", o, q) \in BuildAction /\ Do("parent", o, q) \in AnyAction
         /\ BuildAction \subseteq AnyAction
<1> USE DEF BuildAction, AnyAction, Action, BuildOps, AssemblyOps, Simple, Do
<1>1. /\ \A op \in Simple : op \in BuildOps => Do(op, o, NoObject) \in BuildAction
      /\ \A op \in Simple : op \in BuildOps \cup AssemblyOps => Do(op, o, NoObject) \in AnyAction
  OBVIOUS
<1>2. Do("duplicate", o, q) \in BuildAction /\ Do("parent", o, q) \in AnyAction
  OBVIOUS
<1>3. BuildAction \subseteq AnyAction
  OBVIOUS
<1> QED
  BY <1>1, <1>2, <1>3

LEMMA CreateActionsAreActions ==
  ASSUME NEW f \in Families
  PROVE  CreateActions(f) \in Seq(BuildAction)
<1> DEFINE t == Template(f)
           n == Count[f]
           copies == [i \in 1 .. n |-> Do("duplicate", t, Instance(f, i))]
<1>1. n \in Nat /\ t \in Objects
  BY CountAssumption, InstanceIsObject
<1>2. \A i \in 1 .. n : Do("duplicate", t, Instance(f, i)) \in BuildAction
  <2>1. \A i \in 1 .. n : Instance(f, i) \in Objects
    BY InstanceIsObject DEF InstancesOf
  <2> HIDE DEF t, n
  <2> QED
    BY <1>1, <2>1, Actions
<1>3. /\ Do("create", t, NoObject) \in BuildAction /\ Do("scale", t, NoObject) \in BuildAction
      /\ Do("delete", t, NoObject) \in BuildAction
  <2> HIDE DEF t
  <2> QED
    BY <1>1, Actions DEF Simple, BuildOps
<1>4. copies \in Seq(BuildAction)
  <2> HIDE DEF n, t, BuildAction
  <2>1. copies \in [1 .. n -> BuildAction]
    BY <1>2
  <2> QED
    BY <1>1, <2>1
<1>5. CreateActions(f) =
        (<<Do("create", t, NoObject), Do("scale", t, NoObject)>> \o copies)
          \o <<Do("delete", t, NoObject)>>
  BY DEF CreateActions
<1> HIDE DEF t, copies, BuildAction
<1> DEFINE a == Do("create", t, NoObject)
           b == Do("scale", t, NoObject)
           d == Do("delete", t, NoObject)
<1> HIDE DEF a, b, d
<1>6. <<a, b>> \in Seq(BuildAction) /\ <<d>> \in Seq(BuildAction)
  BY <1>3 DEF a, b, d
<1>7. (<<a, b>> \o copies) \o <<d>> \in Seq(BuildAction)
  BY <1>4, <1>6
<1> QED
  BY <1>5, <1>7 DEF a, b, d

LEMMA FirstAtIsPlace ==
  ASSUME NEW T, NEW acts \in Seq(T), NEW op
  PROVE  /\ FirstAt(acts, op) \in 1 .. Len(acts) + 1
         /\ \A j \in 1 .. Len(acts) : j < FirstAt(acts, op) => acts[j].op # op
         /\ FirstAt(acts, op) <= Len(acts) => acts[FirstAt(acts, op)].op = op
<1> DEFINE at == {k \in DOMAIN acts : acts[k].op = op}
           k0 == CHOOSE k \in at : \A j \in at : k <= j
<1>1. DOMAIN acts = 1 .. Len(acts) /\ Len(acts) \in Nat
  OBVIOUS
<1>2. FirstAt(acts, op) = IF at = {} THEN Len(acts) + 1 ELSE k0
  BY DEF FirstAt
<1>3. CASE at = {}
  BY <1>1, <1>2, <1>3
<1>4. CASE at # {}
  <2>1. at \in SUBSET Nat
    BY <1>1
  <2>2. \E k \in at : \A j \in at : k <= j
    BY <1>4, <2>1, Smallest
  <2>3. k0 \in at /\ \A j \in at : k0 <= j
    BY <2>2
  <2> HIDE DEF k0
  <2>4. FirstAt(acts, op) = k0
    BY <1>2, <1>4
  <2> QED
    BY <1>1, <2>3, <2>4
<1> QED
  BY <1>3, <1>4

(* A list with others spliced in.                                          *)
LEMMA SplicedList ==
  ASSUME NEW T, NEW acts \in Seq(T), NEW more \in Seq(T), NEW k \in 1 .. Len(acts) + 1
  PROVE  /\ Spliced(acts, k, more) \in Seq(T)
         /\ Len(Spliced(acts, k, more)) = Len(acts) + Len(more)
         /\ \A i \in 1 .. Len(acts) + Len(more) :
              Spliced(acts, k, more)[i] =
                IF i < k THEN acts[i]
                ELSE IF i < k + Len(more) THEN more[i - k + 1] ELSE acts[i - Len(more)]
<1> DEFINE l == SubSeq(acts, 1, k - 1)
           r == SubSeq(acts, k, Len(acts))
           n == Len(acts)
           m == Len(more)
<1>1. n \in Nat /\ m \in Nat /\ k \in Int /\ k - 1 \in Int /\ 1 \in Int
  OBVIOUS
<1>2. \A i \in 1 .. (k - 1) : acts[i] \in T
  OBVIOUS
<1>3. \A i \in k .. n : acts[i] \in T
  OBVIOUS
<1>4. /\ l \in Seq(T) /\ Len(l) = k - 1
      /\ \A i \in 1 .. (k - 1) : l[i] = acts[i]
  <2>1. /\ l \in Seq(T) /\ Len(l) = IF 1 <= k - 1 THEN k - 1 - 1 + 1 ELSE 0
        /\ \A i \in 1 .. (k - 1 - 1 + 1) : l[i] = acts[1 + i - 1]
    BY <1>1, <1>2, SubSeqProperties
  <2> HIDE DEF l
  <2>2. Len(l) = k - 1 /\ \A i \in 1 .. (k - 1) : l[i] = acts[1 + i - 1]
    BY <1>1, <2>1
  <2>3. \A i \in 1 .. (k - 1) : 1 + i - 1 = i
    BY <1>1
  <2> QED
    BY <2>1, <2>2, <2>3
<1>5. /\ r \in Seq(T) /\ Len(r) = n - k + 1
      /\ \A i \in 1 .. (n - k + 1) : r[i] = acts[k + i - 1]
  <2>1. /\ r \in Seq(T) /\ Len(r) = IF k <= n THEN n - k + 1 ELSE 0
        /\ \A i \in 1 .. (n - k + 1) : r[i] = acts[k + i - 1]
    BY <1>1, <1>3, SubSeqProperties
  <2> HIDE DEF r
  <2> QED
    BY <1>1, <2>1
<1>6. Spliced(acts, k, more) = (l \o more) \o r
  BY DEF Spliced
<1> HIDE DEF l, r
<1>7. /\ l \o more \in Seq(T) /\ Len(l \o more) = k - 1 + m
      /\ \A i \in 1 .. (k - 1 + m) :
           (l \o more)[i] = IF i <= k - 1 THEN l[i] ELSE more[i - (k - 1)]
  <2>1. /\ l \o more \in Seq(T) /\ Len(l \o more) = Len(l) + Len(more)
        /\ \A i \in 1 .. Len(l) + Len(more) :
             (l \o more)[i] = IF i <= Len(l) THEN l[i] ELSE more[i - Len(l)]
    BY <1>4, ConcatProperties
  <2> QED
    BY <1>4, <2>1
<1>8. /\ (l \o more) \o r \in Seq(T) /\ Len((l \o more) \o r) = k - 1 + m + (n - k + 1)
      /\ \A i \in 1 .. (k - 1 + m + (n - k + 1)) :
           ((l \o more) \o r)[i] = IF i <= k - 1 + m THEN (l \o more)[i]
                                   ELSE r[i - (k - 1 + m)]
  <2> DEFINE u == l \o more
  <2>1. u \in Seq(T) /\ Len(u) = k - 1 + m
    BY <1>7
  <2>4. u \in Seq(T) /\ r \in Seq(T)
    BY <1>5, <1>7
  <2> HIDE DEF u
  <2>2. /\ u \o r \in Seq(T) /\ Len(u \o r) = Len(u) + Len(r)
        /\ \A i \in 1 .. Len(u) + Len(r) :
             (u \o r)[i] = IF i <= Len(u) THEN u[i] ELSE r[i - Len(u)]
    BY <2>4, ConcatProperties
  <2>3. /\ u \o r \in Seq(T) /\ Len(u \o r) = k - 1 + m + (n - k + 1)
        /\ \A i \in 1 .. (k - 1 + m + (n - k + 1)) :
             (u \o r)[i] = IF i <= k - 1 + m THEN u[i] ELSE r[i - (k - 1 + m)]
    BY <1>5, <2>1, <2>2
  <2> QED
    BY <2>3 DEF u
<1> DEFINE s == (l \o more) \o r
           lm == l \o more
<1> HIDE DEF s, lm
<1>9. k - 1 + m + (n - k + 1) = n + m
  BY <1>1
<1>10. ASSUME NEW i \in 1 .. n + m
       PROVE  s[i] = IF i < k THEN acts[i] ELSE IF i < k + m THEN more[i - k + 1]
                     ELSE acts[i - m]
  <2>1. s[i] = IF i <= k - 1 + m THEN lm[i] ELSE r[i - (k - 1 + m)]
    BY <1>8, <1>9 DEF s, lm
  <2>2. CASE i < k
    <3>1. i \in 1 .. (k - 1 + m) /\ i <= k - 1 /\ i \in 1 .. (k - 1) /\ i <= k - 1 + m
      BY <1>1, <2>2
    <3>2. lm[i] = l[i] /\ l[i] = acts[i]
      BY <1>4, <1>7, <3>1 DEF lm
    <3> QED
      BY <2>1, <2>2, <3>1, <3>2
  <2>3. CASE i >= k /\ i < k + m
    <3>1. i \in 1 .. (k - 1 + m) /\ ~(i <= k - 1) /\ i <= k - 1 + m /\ i - (k - 1) = i - k + 1
          /\ ~(i < k)
      BY <1>1, <2>3
    <3>2. lm[i] = more[i - (k - 1)]
      BY <1>7, <3>1 DEF lm
    <3> QED
      BY <2>1, <2>3, <3>1, <3>2
  <2>4. CASE i >= k + m
    <3>1. /\ ~(i <= k - 1 + m) /\ i - (k - 1 + m) \in 1 .. (n - k + 1) /\ ~(i < k)
          /\ ~(i < k + m) /\ k + (i - (k - 1 + m)) - 1 = i - m
      BY <1>1, <2>4
    <3>2. r[i - (k - 1 + m)] = acts[i - m]
      BY <1>5, <3>1
    <3> QED
      BY <2>1, <3>1, <3>2
  <2> QED
    BY <1>1, <2>2, <2>3, <2>4
<1> QED
  BY <1>6, <1>8, <1>9, <1>10 DEF s

LEMMA MissingAreInstances ==
  ASSUME NEW f \in Families, NEW part
  PROVE  /\ Missing(f, part) \in Seq(InstancesOf(f))
         /\ \A o \in InstancesOf(f) :
              \/ \E i \in DOMAIN Missing(f, part) : Missing(f, part)[i] = o
              \/ o \in part.declared
              \/ \E k \in DOMAIN part.actions :
                   part.actions[k].op = "duplicate" /\ part.actions[k].to = o
<1> DEFINE known == part.declared
             \cup {part.actions[k].to : k \in {j \in DOMAIN part.actions :
                                                 part.actions[j].op = "duplicate"}}
           n == Count[f]
           all == [i \in 1 .. n |-> Instance(f, i)]
           s == Among(all, InstancesOf(f) \ known)
<1>1. n \in Nat
  BY CountAssumption
<1>2. \A i \in 1 .. n : all[i] = Instance(f, i) /\ all[i] \in InstancesOf(f)
  BY DEF InstancesOf
<1>3. Missing(f, part) = s
  BY DEF Missing
<1>4. \A o \in InstancesOf(f) : \E i \in 1 .. n : all[i] = o
  BY DEF InstancesOf
<1>5. all \in Seq(InstancesOf(f)) /\ Len(all) = n
  <2> HIDE DEF n
  <2>1. all \in [1 .. n -> InstancesOf(f)]
    BY <1>2
  <2> QED
    BY <1>1, <2>1
<1>6. s \in Seq(InstancesOf(f)) /\ \E h : Picks(h, s, all, n, InstancesOf(f) \ known)
  <2> HIDE DEF all, known
  <2> QED
    BY <1>5, AmongPicks
<1>7. ASSUME NEW o \in InstancesOf(f), o \notin known
      PROVE  \E i \in DOMAIN s : s[i] = o
  <2> HIDE DEF s, all, known, n
  <2>1. PICK j \in 1 .. n : all[j] = o
    BY <1>4
  <2>2. PICK h : Picks(h, s, all, n, InstancesOf(f) \ known)
    BY <1>6
  <2>3. PICK i \in 1 .. Len(s) : h[i] = j
    BY <1>7, <2>1, <2>2 DEF Picks
  <2>4. s[i] = o
    BY <2>1, <2>2, <2>3 DEF Picks
  <2> QED
    BY <1>6, <2>3, <2>4
<1> QED
  BY <1>3, <1>6, <1>7

LEMMA NormalizedIsActions ==
  ASSUME NEW f \in Families, NEW part \in Parts
  PROVE  Normalized(f, part) \in Seq(BuildAction)
<1>1. part.template \in Objects /\ part.actions \in Seq(BuildAction)
  BY DEF Parts
<1>2. Do("scale", part.template, NoObject) \in BuildAction
      /\ Do("delete", part.template, NoObject) \in BuildAction
  BY <1>1, Actions DEF Simple, BuildOps
<1>3. \A o \in InstancesOf(f) : Do("duplicate", part.template, o) \in BuildAction
  BY <1>1, Actions, InstanceIsObject
<1> DEFINE acts == part.actions
           scaled == WithScale(part)
           names == Missing(f, part)
           copies == [k \in DOMAIN names |-> Do("duplicate", part.template, names[k])]
           full == WithMissing(f, part)
<1> HIDE DEF BuildAction
<1>4. scaled \in Seq(BuildAction)
  <2> DEFINE a == Do("scale", part.template, NoObject)
  <2> HIDE DEF a
  <2>1. <<a>> \in Seq(BuildAction)
    BY <1>2 DEF a
  <2>2. FirstAt(acts, "duplicate") \in 1 .. Len(acts) + 1
    BY <1>1, FirstAtIsPlace
  <2>3. Spliced(acts, FirstAt(acts, "duplicate"), <<a>>) \in Seq(BuildAction)
    BY <1>1, <2>1, <2>2, SplicedList
  <2> QED
    BY <1>1, <2>3 DEF WithScale, a
<1>5. names \in Seq(InstancesOf(f))
  BY MissingAreInstances
<1>6. copies \in Seq(BuildAction)
  <2> HIDE DEF names
  <2>1. DOMAIN names = 1 .. Len(names) /\ Len(names) \in Nat
        /\ \A k \in 1 .. Len(names) : names[k] \in InstancesOf(f)
    BY <1>5
  <2>2. copies \in [1 .. Len(names) -> BuildAction]
    BY <1>3, <2>1
  <2> QED
    BY <2>1, <2>2
<1>7. full \in Seq(BuildAction)
  <2>1. full = Spliced(scaled, FirstAt(scaled, "delete"), copies)
    BY DEF WithMissing
  <2> HIDE DEF full, scaled, copies
  <2>2. FirstAt(scaled, "delete") \in 1 .. Len(scaled) + 1
    BY <1>4, FirstAtIsPlace
  <2> QED
    BY <1>4, <1>6, <2>1, <2>2, SplicedList
<1>8. Append(full, Do("delete", part.template, NoObject)) \in Seq(BuildAction)
  <2> HIDE DEF full
  <2> QED
    BY <1>2, <1>7, AppendProperties
<1> QED
  BY <1>7, <1>8 DEF Normalized
-----------------------------------------------------------------------------
(* What is left of a queue when an action or a part of it is done. *)
LEMMA QueueShrinks ==
  ASSUME NEW S, NEW q \in Seq(Seq(S)), q # <<>>
  PROVE  /\ Tail(q) \in Seq(Seq(S))
         /\ <<<<>>>> \o Tail(q) \in Seq(Seq(S))
         /\ Head(q) # <<>> => /\ Head(Head(q)) \in S
                              /\ <<Tail(Head(q))>> \o Tail(q) \in Seq(Seq(S))
<1>1. Tail(q) \in Seq(Seq(S)) /\ Head(q) \in Seq(S)
  OBVIOUS
<1>2. <<<<>>>> \o Tail(q) \in Seq(Seq(S))
  <2>1. <<>> \in Seq(S)
    OBVIOUS
  <2>2. <<<<>>>> \in Seq(Seq(S))
    BY <2>1
  <2> QED BY <1>1, <2>2
<1>3. ASSUME Head(q) # <<>>
      PROVE  Head(Head(q)) \in S /\ <<Tail(Head(q))>> \o Tail(q) \in Seq(Seq(S))
  <2>1. Head(Head(q)) \in S /\ Tail(Head(q)) \in Seq(S)
    BY <1>1, <1>3
  <2>2. <<Tail(Head(q))>> \in Seq(Seq(S))
    BY <2>1
  <2> QED BY <1>1, <2>1, <2>2
<1> QED BY <1>1, <1>2, <1>3

(* Every instance number is that of an instance. *)
LEMMA ParentIsObject ==
  ASSUME NEW f \in Families
  PROVE  /\ ParentInstance(f) \in Objects \cup {NoObject}
         /\ ParentOfExtracted(f) \in Objects \cup {NoObject}
<1>1. CASE Parent[f] = NoFamily
  BY <1>1 DEF ParentInstance, ParentOfExtracted
<1>2. CASE Parent[f] # NoFamily
  <2>1. Parent[f] \in Families
    BY <1>2, ParentAssumption
  <2>2. 1 \in 1 .. Count[Parent[f]]
    BY <2>1, CountAssumption
  <2>3. Instance(Parent[f], 1) \in InstancesOf(Parent[f])
    BY <2>2 DEF InstancesOf
  <2>4. Instance(Parent[f], 1) \in Objects
    BY <2>1, <2>3 DEF Objects, Instances
  <2>5. Namesake(Parent[f]) \in Objects
    BY <2>1 DEF Objects
  <2> QED BY <1>2, <2>4, <2>5 DEF ParentInstance, ParentOfExtracted
<1> QED BY <1>1, <1>2

LEMMA PlaceActionsArePlacing ==
  ASSUME NEW f \in Families, NEW under \in Objects \cup {NoObject}
  PROVE  <<PlaceActions(f, under)>> \in Seq(Seq(Placing(f)))
<1> DEFINE n == Count[f]
<1>1. n \in Nat
  BY CountAssumption
<1>2. ASSUME NEW k \in 1 .. 3 * n
      PROVE  Instance(f, ((k - 1) \div 3) + 1) \in InstancesOf(f)
  <2>1. ((k - 1) \div 3) + 1 \in 1 .. n
    BY <1>1
  <2> QED BY <2>1 DEF InstancesOf
<1>3. ASSUME NEW k \in 1 .. 3 * n
      PROVE  PlaceActions(f, under)[k] \in Placing(f)
  <2> DEFINE o == Instance(f, ((k - 1) \div 3) + 1)
  <2>1. o \in InstancesOf(f)
    BY <1>2
  <2> HIDE DEF o
  <2>2. k % 3 = 1 \/ k % 3 = 2 \/ (k % 3 # 1 /\ k % 3 # 2)
    OBVIOUS
  <2>3. /\ Do("show", o, NoObject) \in Placing(f)
        /\ Do("place", o, NoObject) \in Placing(f)
        /\ Do("rotate", o, NoObject) \in Placing(f)
        /\ under # NoObject => Do("parent", o, under) \in Placing(f)
    <3>1. o \in Objects
      BY <2>1, InstanceIsObject
    <3>2. /\ Do("show", o, NoObject) \in AnyAction /\ Do("place", o, NoObject) \in AnyAction
          /\ Do("rotate", o, NoObject) \in AnyAction
      BY <3>1, Actions DEF Simple, BuildOps, AssemblyOps
    <3>3. under # NoObject => Do("parent", o, under) \in AnyAction
      BY <3>1, Actions
    <3> QED
      BY <2>1, <3>2, <3>3 DEF Placing, Do
  <2>4. \/ PlaceActions(f, under)[k] \in {Do("show", o, NoObject), Do("place", o, NoObject),
                                          Do("rotate", o, NoObject)}
        \/ under # NoObject /\ PlaceActions(f, under)[k] = Do("parent", o, under)
    <3> HIDE DEF n
    <3> USE DEF o
    <3>1. CASE k % 3 = 1
      BY <3>1 DEF PlaceActions, n
    <3>2. CASE k % 3 = 2
      BY <3>2 DEF PlaceActions, n
    <3>3. CASE k % 3 # 1 /\ k % 3 # 2
      BY <3>3 DEF PlaceActions, n
    <3> QED BY <3>1, <3>2, <3>3
  <2> QED BY <2>3, <2>4
<1>4. PlaceActions(f, under) = [k \in 1 .. 3 * n |-> PlaceActions(f, under)[k]]
  <2> DEFINE act(k) ==
           LET o == Instance(f, ((k - 1) \div 3) + 1) IN
           CASE k % 3 = 1 -> Do("show", o, NoObject)
             [] k % 3 = 2 -> Do("place", o, NoObject)
             [] OTHER     -> IF under = NoObject THEN Do("rotate", o, NoObject)
                                                 ELSE Do("parent", o, under)
  <2>1. PlaceActions(f, under) = [k \in 1 .. 3 * n |-> act(k)]
    BY DEF PlaceActions
  <2> HIDE DEF act, n
  <2> QED BY <2>1
<1>5. 3 * n \in Nat
  BY <1>1
<1>6. PlaceActions(f, under) \in Seq(Placing(f))
  <2> DEFINE m == 3 * n
             s == PlaceActions(f, under)
  <2>1. m \in Nat /\ s = [k \in 1 .. m |-> s[k]] /\ \A k \in 1 .. m : s[k] \in Placing(f)
    BY <1>3, <1>4, <1>5
  <2> HIDE DEF m, s
  <2>2. s \in [1 .. m -> Placing(f)]
    BY <2>1
  <2>3. s \in Seq(Placing(f))
    BY <2>1, <2>2
  <2> QED BY <2>3 DEF s
<1> QED BY <1>6

-----------------------------------------------------------------------------
(* The type invariant.                                                     *)
LEMMA SceneKeepsType ==
  ASSUME TypeOK, NEW a \in AnyAction, Touches(a)
  PROVE  /\ present' \subseteq Objects
         /\ spot' \in [Objects -> {"origin", "planned", "elsewhere"}]
         /\ parent' \in [Objects -> Objects \cup {NoObject}]
<1>1. /\ a.object \in Objects
      /\ a.op \in {"duplicate", "parent"} => a.to \in Objects
      /\ present \subseteq Objects /\ spot \in [Objects -> {"origin", "planned", "elsewhere"}]
      /\ parent \in [Objects -> Objects \cup {NoObject}]
  BY DEF AnyAction, Action, Simple, TypeOK
<1>2. CASE Perform(a)
  <2>1. present' \subseteq Objects
    BY <1>1, <1>2 DEF Perform
  <2>2. spot' \in [Objects -> {"origin", "planned", "elsewhere"}]
    BY <1>1, <1>2 DEF Perform
  <2>3. parent' \in [Objects -> Objects \cup {NoObject}]
    <3>1. \A o : Unlinked(o) \in [Objects -> Objects \cup {NoObject}]
      BY <1>1 DEF Unlinked
    <3>2. CASE a.op \in {"create", "delete"}
      BY <1>2, <3>1, <3>2 DEF Perform
    <3>3. CASE a.op = "duplicate"
      <4>1. parent' = [Unlinked(a.to) EXCEPT ![a.to] = Unlinked(a.to)[a.object]]
        BY <1>2, <3>3 DEF Perform
      <4>2. Unlinked(a.to)[a.object] \in Objects \cup {NoObject}
        BY <1>1, <3>1
      <4> QED
        BY <3>1, <4>1, <4>2
    <3>4. CASE a.op = "parent"
      BY <1>1, <1>2, <3>4 DEF Perform
    <3>5. CASE a.op \notin {"create", "delete", "duplicate", "parent"}
      BY <1>1, <1>2, <3>5 DEF Perform
    <3> QED
      BY <3>2, <3>3, <3>4, <3>5
  <2> QED
    BY <2>1, <2>2, <2>3
<1>3. CASE RemoveAll(Replaced(a))
  BY <1>1, <1>3 DEF RemoveAll
<1>4. CASE UNCHANGED sceneVars
  BY <1>1, <1>4 DEF sceneVars
<1> QED
  BY <1>2, <1>3, <1>4 DEF Touches

(* A step in the middle of a todo.                                         *)
LEMMA InsideKeepsType ==
  ASSUME TypeOK, queue # <<>>,
         \/ Head(queue) # <<>>
            /\ Touches(NextAction)
         \/ UNCHANGED sceneVars,
         \/ queue' = Tail(queue)
         \/ queue' = <<<<>>>> \o Tail(queue)
         \/ Head(queue) # <<>> /\ queue' = <<Tail(Head(queue))>> \o Tail(queue),
         failed' \in BOOLEAN, leading' \in BOOLEAN, faulty' \in BOOLEAN,
         UNCHANGED <<ao, stage, built, verdict, todo, mode, answer>>
  PROVE  TypeOK'
<1>1. queue \in Seq(Seq(AnyAction))
  BY DEF TypeOK
<1> HIDE DEF AnyAction
<1>2. queue' \in Seq(Seq(AnyAction))
  BY <1>1, QueueShrinks
<1>3. Head(queue) # <<>> => NextAction \in AnyAction
  BY <1>1, QueueShrinks DEF NextAction
<1>4. /\ present' \subseteq Objects
      /\ spot' \in [Objects -> {"origin", "planned", "elsewhere"}]
      /\ parent' \in [Objects -> Objects \cup {NoObject}]
  <2>1. CASE UNCHANGED sceneVars
    BY <2>1 DEF TypeOK, sceneVars
  <2>2. CASE ~UNCHANGED sceneVars
    BY <1>3, <2>2, SceneKeepsType
  <2> QED
    BY <2>1, <2>2
<1> QED
  BY <1>2, <1>4 DEF TypeOK

LEMMA BeginKeepsType ==
  ASSUME TypeOK, NEW f \in Families, NEW md \in {"direct", "python", "extracted"},
         NEW parts \in Seq(Seq(AnyAction)), NEW plan \in Seq(Parts), Begin(f, md, parts, plan)
  PROVE  TypeOK'
  BY DEF Begin, TypeOK, sceneVars

LEMMA MoreGeneral ==
  ASSUME NEW S, NEW T, S \subseteq T
  PROVE  Seq(S) \subseteq Seq(T)
<1>1. ASSUME NEW q \in Seq(S) PROVE q \in Seq(T)
  BY <1>1, SeqMonotonic
<1> QED
  BY <1>1

LEMMA ListsAreActions ==
  ASSUME NEW f \in Families
  PROVE  /\ <<CreateActions(f)>> \in Seq(Seq(AnyAction))
         /\ <<PlaceActions(f, ParentInstance(f))>> \in Seq(Seq(AnyAction))
         /\ <<PlaceActions(f, ParentOfExtracted(f))>> \in Seq(Seq(AnyAction))
         /\ \A plan \in Plans[f] :
              /\ plan \in Seq(Parts)
              /\ [k \in DOMAIN plan |-> Normalized(f, plan[k])] \in Seq(Seq(AnyAction))
<1>1. BuildAction \subseteq AnyAction /\ Placing(f) \subseteq AnyAction
  BY Actions, InstanceIsObject DEF Placing
<1> HIDE DEF BuildAction, AnyAction, Placing
<1>2. Seq(BuildAction) \subseteq Seq(AnyAction) /\ Seq(Placing(f)) \subseteq Seq(AnyAction)
  BY <1>1, MoreGeneral
<1>3. Seq(Seq(Placing(f))) \subseteq Seq(Seq(AnyAction))
  BY <1>2, MoreGeneral
<1>4. <<CreateActions(f)>> \in Seq(Seq(AnyAction))
  <2>1. CreateActions(f) \in Seq(AnyAction)
    BY <1>2, CreateActionsAreActions
  <2> QED
    BY <2>1
<1>5. /\ <<PlaceActions(f, ParentInstance(f))>> \in Seq(Seq(AnyAction))
      /\ <<PlaceActions(f, ParentOfExtracted(f))>> \in Seq(Seq(AnyAction))
  BY <1>3, ParentIsObject, PlaceActionsArePlacing
<1>6. ASSUME NEW plan \in Plans[f]
      PROVE  /\ plan \in Seq(Parts)
             /\ [k \in DOMAIN plan |-> Normalized(f, plan[k])] \in Seq(Seq(AnyAction))
  <2>1. plan \in Seq(Parts)
    BY <1>6, PlansAssumption
  <2>2. /\ DOMAIN plan = 1 .. Len(plan) /\ Len(plan) \in Nat
        /\ \A k \in 1 .. Len(plan) : plan[k] \in Parts
    BY <2>1
  <2>3. \A k \in 1 .. Len(plan) : Normalized(f, plan[k]) \in Seq(AnyAction)
    BY <1>2, <2>2, NormalizedIsActions
  <2>4. [k \in 1 .. Len(plan) |-> Normalized(f, plan[k])] \in [1 .. Len(plan) -> Seq(AnyAction)]
    BY <2>3
  <2> QED
    BY <2>1, <2>2, <2>4
<1> QED
  BY <1>4, <1>5, <1>6

LEMMA InitTypes == Init => TypeOK
<1> SUFFICES ASSUME Init PROVE TypeOK
  OBVIOUS
<1>1. ASSUME NEW o \in Objects, o \in Instances
      PROVE  ParentInstance(o[1]) \in Objects \cup {NoObject}
  <2>1. PICK f \in Families : o \in InstancesOf(f)
    BY <1>1 DEF Instances
  <2>2. o[1] = f
    BY <2>1 DEF InstancesOf, Instance
  <2> QED
    BY <2>2, ParentIsObject
<1>2. parent \in [Objects -> Objects \cup {NoObject}]
  BY <1>1 DEF Init
<1>3. present \subseteq Objects /\ queue \in Seq(Seq(AnyAction)) /\ answer \in Seq(Parts)
  BY LeftoversAssumption DEF Init
<1> QED
  BY <1>2, <1>3 DEF Init, TypeOK

LEMMA NextTypes == TypeOK /\ [Next]_vars => TypeOK'
<1> SUFFICES ASSUME TypeOK, [Next]_vars PROVE TypeOK'
  OBVIOUS
<1>1. failed \in BOOLEAN /\ leading \in BOOLEAN /\ faulty \in BOOLEAN
  BY DEF TypeOK
<1>2. CASE Execute
  BY <1>1, <1>2, InsideKeepsType DEF Execute, HasAction, Touches
<1>3. CASE ActionRaises
  BY <1>1, <1>3, InsideKeepsType DEF ActionRaises, AbandonPart, HasAction, Touches
<1>4. CASE CallFails
  BY <1>1, <1>4, InsideKeepsType DEF CallFails, AbandonPart, HasAction, Touches
<1>5. CASE DeletionIsSkipped
  BY <1>1, <1>5, InsideKeepsType DEF DeletionIsSkipped, HasAction
<1>6. CASE NextPart
  BY <1>1, <1>6, InsideKeepsType DEF NextPart
<1>7. <<>> \in Seq(Parts)
  OBVIOUS
<1>8. ASSUME NEW f \in Families, BuildDirectly(f) \/ BuildByPython(f) PROVE TypeOK'
  BY <1>7, <1>8, ListsAreActions, BeginKeepsType DEF BuildDirectly, BuildByPython
<1>9. ASSUME NEW f \in Families, BuildExtracted(f) PROVE TypeOK'
  BY <1>9, ListsAreActions, BeginKeepsType DEF BuildExtracted
<1>10. ASSUME NEW f \in Families, PlaceDirectly(f) \/ PlaceByPython(f) \/ PlaceExtracted(f)
       PROVE  TypeOK'
  BY <1>7, <1>10, ListsAreActions, BeginKeepsType DEF PlaceDirectly, PlaceByPython, PlaceExtracted
<1>11. ASSUME NEW f \in Families, NEW status \in {"failed", "blocked", "needs_revision"},
              RefuseBuild(f, status)
       PROVE  TypeOK'
  BY <1>11 DEF RefuseBuild, TypeOK, sceneVars, todoVars
<1>12. ASSUME NEW f \in Families, FinishBuild(f) PROVE TypeOK'
  <2>1. PICK status \in BuildStatuses(f) :
          /\ built' = [built EXCEPT ![f] = status]
          /\ faulty' = (faulty \/ (mode = "python" /\ status = "failed"))
    BY <1>12 DEF FinishBuild
  <2>2. status \in {"built", "failed"}
    BY DEF BuildStatuses
  <2> QED
    BY <1>12, <2>1, <2>2 DEF FinishBuild, TypeOK, sceneVars
<1>13. ASSUME NEW f \in Families, RefusePlace(f) PROVE TypeOK'
  BY <1>13 DEF RefusePlace, TypeOK, sceneVars, todoVars
<1>14. ASSUME NEW f \in Families, FinishPlace(f) PROVE TypeOK'
  <2>1. PICK v \in Verdicts(f) : verdict' = [verdict EXCEPT ![f] = v]
    BY <1>14 DEF FinishPlace
  <2>2. v \in {"approved", "failed"}
    BY DEF Verdicts
  <2> QED
    BY <1>14, <2>1, <2>2 DEF FinishPlace, TypeOK, sceneVars
<1>15. CASE RejectPlan \/ RejectPlacements \/ BuildPlanUnwritten \/ BuildRaises \/ AssemblyRaises
              \/ EndBuild \/ EndAssembly
  BY <1>15 DEF RejectPlan, RejectPlacements, BuildPlanUnwritten, BuildRaises, AssemblyRaises,
               PhaseRaises, EndBuild, EndAssembly, TypeOK, sceneVars, todoVars
<1>16. CASE UNCHANGED vars
  BY <1>16 DEF vars, sceneVars, todoVars, TypeOK
<1> QED
  BY <1>2, <1>3, <1>4, <1>5, <1>6, <1>8, <1>9, <1>10, <1>11, <1>12, <1>13, <1>14, <1>15,
     <1>16 DEF Next

-----------------------------------------------------------------------------
LEMMA SceneStaysTotal ==
  ASSUME SceneIsTotal, NEW a, Touches(a)
  PROVE  SceneIsTotal'
<1>1. CASE Perform(a)
  <2>1. DOMAIN spot' = Objects
    BY <1>1 DEF Perform, SceneIsTotal
  <2>2. DOMAIN parent' = Objects
    BY <1>1 DEF Perform, SceneIsTotal, Unlinked
  <2> QED BY <2>1, <2>2 DEF SceneIsTotal
<1>2. CASE RemoveAll(Replaced(a))
  BY <1>2 DEF RemoveAll, SceneIsTotal
<1>3. CASE UNCHANGED sceneVars
  BY <1>3 DEF sceneVars, SceneIsTotal
<1> QED BY <1>1, <1>2, <1>3 DEF Touches

(* A call for one part leaves the parts that stand standing. *)
LEMMA PlacingKeepsOthers ==
  ASSUME SceneIsTotal, NEW f \in Families, NEW g \in Families, f # g,
         NEW a \in Placing(g), Touches(a), Stands(f)
  PROVE  Stands(f)'
<1>1. /\ a.op \in {"show", "place", "rotate", "parent"}
      /\ a.object \in InstancesOf(g)
  BY DEF Placing
<1>2. PICK j \in 1 .. Count[g] : a.object = <<g, j>>
  BY <1>1 DEF InstancesOf, Instance
<1>3. SUFFICES ASSUME NEW i \in 1 .. Count[f]
               PROVE  /\ <<f, i>> \in present'
                      /\ spot'[<<f, i>>] = "planned"
                      /\ Parent[f] # NoFamily => parent'[<<f, i>>] = ParentInstance(f)
  BY DEF Stands, Instance, ParentInstance
<1>4. /\ <<f, i>> \in present
      /\ spot[<<f, i>>] = "planned"
      /\ Parent[f] # NoFamily => parent[<<f, i>>] = ParentInstance(f)
  BY DEF Stands, Instance
<1>5. <<f, i>> # a.object
  BY <1>2
<1>6. <<f, i>> \in Objects
  BY DEF Objects, Instances, InstancesOf, Instance
<1>7. CASE Perform(a)
  <2>1. present' = present
    BY <1>1, <1>7 DEF Perform
  <2>2. spot' = spot \/ spot' = [spot EXCEPT ![a.object] = "planned"]
    BY <1>1, <1>7 DEF Perform
  <2>3. parent' = parent \/ parent' = [parent EXCEPT ![a.object] = a.to]
    BY <1>1, <1>7 DEF Perform
  <2> QED BY <1>4, <1>5, <1>6, <2>1, <2>2, <2>3 DEF SceneIsTotal
<1>8. CASE RemoveAll(Replaced(a))
  <2>1. Replaced(a) = {}
    BY <1>1 DEF Replaced
  <2>2. present' = present /\ spot'[<<f, i>>] = spot[<<f, i>>]
    BY <1>6, <1>8, <2>1 DEF RemoveAll
  <2>3. parent'[<<f, i>>] = parent[<<f, i>>]
    BY <1>6, <1>8, <2>1 DEF RemoveAll
  <2> QED BY <1>4, <2>2, <2>3
<1>9. CASE UNCHANGED sceneVars
  BY <1>4, <1>9 DEF sceneVars
<1> QED BY <1>7, <1>8, <1>9 DEF Touches

-----------------------------------------------------------------------------
LEMMA InitInv == Init => Inv
<1> SUFFICES ASSUME Init PROVE Inv
  OBVIOUS
<1>1. SceneIsTotal
  BY DEF Init, SceneIsTotal
<1>2. TodoHasPhase /\ NoEarlyVerdict /\ PlacesOnlyTodo /\ GateMeansApproval
  BY DEF Init, TodoHasPhase, NoEarlyVerdict, PlacesOnlyTodo, GateMeansApproval
<1>3. ApprovedPartsStand
  BY DEF Init, ApprovedPartsStand
<1> QED BY <1>1, <1>2, <1>3 DEF Inv

(* A step in the middle of a todo: a call into Blender, or none, and the   *)
(* queue gets shorter.                                                     *)
LEMMA InsideTodo ==
  ASSUME Inv, queue # <<>>,
         \/ Touches(NextAction) /\ Head(queue) # <<>>
         \/ UNCHANGED sceneVars,
         \/ queue' = Tail(queue)
         \/ queue' = <<<<>>>> \o Tail(queue)
         \/ Head(queue) # <<>> /\ queue' = <<Tail(Head(queue))>> \o Tail(queue),
         UNCHANGED <<ao, stage, verdict, todo>>
  PROVE  Inv'
<1>1. SceneIsTotal'
  BY SceneStaysTotal DEF Inv, Touches
<1>2. todo \in Families
  BY DEF Inv, TodoHasPhase
<1>3. TodoHasPhase' /\ NoEarlyVerdict' /\ GateMeansApproval'
  BY <1>2, FamiliesAssumption
     DEF Inv, TodoHasPhase, NoEarlyVerdict, GateMeansApproval, AllApproved
<1>4. PlacesOnlyTodo'
  <2> SUFFICES ASSUME stage = "assemble"
               PROVE  verdict[todo] = "pending" /\ queue' \in Seq(Seq(Placing(todo)))
    BY DEF PlacesOnlyTodo, Placing, InstancesOf
  <2>1. verdict[todo] = "pending" /\ queue \in Seq(Seq(Placing(todo)))
    BY <1>2, FamiliesAssumption DEF Inv, PlacesOnlyTodo
  <2> QED BY <2>1, QueueShrinks
<1>5. ApprovedPartsStand'
  <2> SUFFICES ASSUME NEW f \in Families, verdict[f] = "approved"
               PROVE  Stands(f)'
    BY DEF ApprovedPartsStand, Stands
  <2>1. Stands(f)
    BY DEF Inv, ApprovedPartsStand
  <2>2. stage = "assemble"
    BY <1>2, FamiliesAssumption DEF Inv, TodoHasPhase, NoEarlyVerdict
  <2>3. verdict[todo] = "pending" /\ queue \in Seq(Seq(Placing(todo)))
    BY <1>2, <2>2, FamiliesAssumption DEF Inv, PlacesOnlyTodo
  <2>4. CASE Touches(NextAction) /\ Head(queue) # <<>>
    <3>1. NextAction \in Placing(todo)
      BY <2>3, <2>4, QueueShrinks DEF NextAction
    <3>2. todo # f
      BY <2>3
    <3> QED BY <1>2, <2>1, <2>4, <3>1, <3>2, PlacingKeepsOthers DEF Inv
  <2>5. CASE UNCHANGED sceneVars
    BY <2>1, <2>5 DEF Stands, sceneVars
  <2> QED BY <2>4, <2>5
<1> QED BY <1>1, <1>3, <1>4, <1>5 DEF Inv

(* A todo begins. *)
LEMMA BeginKeepsInv ==
  ASSUME Inv, NEW f \in Families, NEW m, NEW parts, NEW plan, Begin(f, m, parts, plan),
         \/ stage = "build"
         \/ stage = "assemble" /\ verdict[f] = "pending" /\ parts \in Seq(Seq(Placing(f)))
  PROVE  Inv'
<1>1. SceneIsTotal' /\ NoEarlyVerdict' /\ GateMeansApproval'
  BY DEF Inv, Begin, sceneVars, SceneIsTotal, NoEarlyVerdict, GateMeansApproval, AllApproved
<1>2. TodoHasPhase'
  BY FamiliesAssumption DEF Begin, TodoHasPhase
<1>3. PlacesOnlyTodo'
  <2>1. todo' = f /\ queue' = parts /\ stage' = stage /\ verdict' = verdict
    BY DEF Begin
  <2> SUFFICES ASSUME stage = "assemble"
               PROVE  verdict[f] = "pending" /\ parts \in Seq(Seq(Placing(f)))
    BY <2>1 DEF PlacesOnlyTodo, Placing, InstancesOf
  <2> QED OBVIOUS
<1>4. ApprovedPartsStand'
  BY DEF Inv, Begin, sceneVars, ApprovedPartsStand, Stands
<1> QED BY <1>1, <1>2, <1>3, <1>4 DEF Inv

(* One part gets its verdict: it is approved only if it stands.            *)
LEMMA VerdictKeepsInv ==
  ASSUME Inv, NEW f \in Families, stage = "assemble", queue = <<>>,
         NEW v \in {"approved", "failed"}, verdict' = [verdict EXCEPT ![f] = v],
         v = "approved" => Stands(f),
         todo' = NoFamily, UNCHANGED <<ao, stage, sceneVars, queue>>
  PROVE  Inv'
<1>1. SceneIsTotal' /\ TodoHasPhase' /\ NoEarlyVerdict' /\ GateMeansApproval'
  BY DEF Inv, sceneVars, SceneIsTotal, TodoHasPhase, NoEarlyVerdict, GateMeansApproval
<1>2. PlacesOnlyTodo'
  BY DEF PlacesOnlyTodo
<1>3. ApprovedPartsStand'
  <2> SUFFICES ASSUME NEW g \in Families, verdict'[g] = "approved"
               PROVE  Stands(g)
    BY DEF ApprovedPartsStand, Stands, sceneVars
  <2>1. CASE g = f
    BY <2>1 DEF Inv, NoEarlyVerdict
  <2>2. CASE g # f
    BY <2>2 DEF Inv, NoEarlyVerdict, ApprovedPartsStand
  <2> QED BY <2>1, <2>2
<1> QED BY <1>1, <1>2, <1>3 DEF Inv

(* Every part fails before one was placed.                                 *)
LEMMA RejectionKeepsInv == Inv /\ RejectPlacements => Inv'
<1> SUFFICES ASSUME Inv, RejectPlacements PROVE Inv'
  OBVIOUS
<1> USE DEF RejectPlacements, sceneVars, todoVars
<1>1. SceneIsTotal' /\ TodoHasPhase' /\ NoEarlyVerdict' /\ GateMeansApproval'
  BY DEF Inv, SceneIsTotal, TodoHasPhase, NoEarlyVerdict, GateMeansApproval
<1>2. PlacesOnlyTodo'
  BY DEF PlacesOnlyTodo, Idle
<1>3. ApprovedPartsStand'
  BY DEF ApprovedPartsStand
<1> QED BY <1>1, <1>2, <1>3 DEF Inv

(* The phase ends, or a part gets its build status. *)
LEMMA IdleKeepsInv ==
  ASSUME Inv, todo' = NoFamily, queue = <<>>,
         UNCHANGED <<ao, verdict, sceneVars, queue>>,
         \/ stage' = stage
         \/ stage = "build" /\ stage' = "assemble"
         \/ stage' \in {"stopped", "raised"}
         \/ stage' = "placed" /\ (ao => AllApproved)
  PROVE  Inv'
<1>1. SceneIsTotal' /\ TodoHasPhase' /\ PlacesOnlyTodo'
  BY DEF Inv, sceneVars, SceneIsTotal, TodoHasPhase, PlacesOnlyTodo
<1>2. NoEarlyVerdict'
  BY DEF Inv, NoEarlyVerdict
<1>3. ApprovedPartsStand'
  BY DEF Inv, sceneVars, ApprovedPartsStand, Stands
<1>4. GateMeansApproval'
  BY DEF Inv, GateMeansApproval, AllApproved
<1> QED BY <1>1, <1>2, <1>3, <1>4 DEF Inv

-----------------------------------------------------------------------------
(* A placement without AO, which nothing reads back.                       *)
LEMMA PlaceActionAt ==
  ASSUME NEW f \in Families, NEW under, NEW k \in 1 .. 3 * Count[f]
  PROVE  LET o == Instance(f, ((k - 1) \div 3) + 1)
             a == PlaceActions(f, under)[k]
         IN  /\ o \in Objects
             /\ k % 3 = 1 => a = Do("show", o, NoObject)
             /\ k % 3 = 2 => a = Do("place", o, NoObject)
             /\ k % 3 \notin {1, 2} => a = IF under = NoObject THEN Do("rotate", o, NoObject)
                                           ELSE Do("parent", o, under)
<1> DEFINE o == Instance(f, ((k - 1) \div 3) + 1)
           n == Count[f]
<1>1. n \in Nat /\ ((k - 1) \div 3) + 1 \in 1 .. n
  BY CountAssumption
<1>2. o \in Objects
  BY <1>1, InstanceIsObject DEF InstancesOf
<1> HIDE DEF n
<1>3. CASE k % 3 = 1
  BY <1>2, <1>3 DEF PlaceActions, n
<1>4. CASE k % 3 = 2
  BY <1>2, <1>4 DEF PlaceActions, n
<1>5. CASE k % 3 \notin {1, 2}
  BY <1>2, <1>5 DEF PlaceActions, n
<1> QED
  BY <1>3, <1>4, <1>5

(* One more action has its effect, and those before it keep theirs.        *)
LEMMA OneMoreDone ==
  ASSUME TypeOK, NEW f \in Families, NEW p \in Nat, p < 3 * Count[f],
         \A k \in 1 .. p : Done(f, k),
         NEW a, a = PlaceActions(f, ParentInstance(f))[p + 1], ~Raises(a), Perform(a)
  PROVE  \A k \in 1 .. (p + 1) : Done(f, k)'
<1> DEFINE under == ParentInstance(f)
           obj(k) == Instance(f, ((k - 1) \div 3) + 1)
           n == Count[f]
<1>1. n \in Nat /\ p + 1 \in 1 .. 3 * n
  BY CountAssumption
<1>2. /\ \A k \in 1 .. 3 * n : obj(k) \in Objects
      /\ (p + 1) % 3 = 1 => a = Do("show", obj(p + 1), NoObject)
      /\ (p + 1) % 3 = 2 => a = Do("place", obj(p + 1), NoObject)
      /\ (p + 1) % 3 \notin {1, 2} =>
           a = IF under = NoObject THEN Do("rotate", obj(p + 1), NoObject)
               ELSE Do("parent", obj(p + 1), under)
  BY <1>1, PlaceActionAt
<1>3. DOMAIN spot = Objects /\ DOMAIN parent = Objects
  BY DEF TypeOK
<1>4. Parent[f] # NoFamily => under # NoObject
  <2>1. ASSUME Parent[f] # NoFamily PROVE under \in Objects
    <3>1. Parent[f] \in Families /\ 1 \in 1 .. Count[Parent[f]]
      BY <2>1, ParentAssumption, CountAssumption
    <3> QED
      BY <2>1, <3>1, InstanceIsObject DEF ParentInstance, InstancesOf
  <2> QED
    BY <2>1, NoObjectAssumption
<1> HIDE DEF obj, under, n
<1>5. a.object = obj(p + 1) /\ a.op \in {"show", "place", "rotate", "parent"}
      /\ (a.op = "parent" => a.to = under)
  BY <1>2 DEF Do
<1>6. /\ present' = present
      /\ spot' = IF a.op = "place" THEN [spot EXCEPT ![a.object] = "planned"] ELSE spot
      /\ parent' = IF a.op = "parent" THEN [parent EXCEPT ![a.object] = under] ELSE parent
  BY <1>5 DEF Perform
<1>7. a.object \in present
  BY <1>5 DEF Raises
<1>8. ASSUME NEW k \in 1 .. p
      PROVE  Done(f, k)'
  <2>1. k \in 1 .. 3 * n /\ obj(k) \in Objects /\ Done(f, k)
    BY <1>1, <1>2
  <2>2. CASE k % 3 = 1
    BY <1>6, <2>1, <2>2 DEF Done, obj
  <2>3. CASE k % 3 = 2
    <3>1. spot[obj(k)] = "planned"
      BY <2>1, <2>3 DEF Done, obj
    <3>2. spot'[obj(k)] = "planned"
      BY <1>3, <1>6, <2>1, <3>1
    <3> QED
      BY <2>3, <3>2 DEF Done, obj
  <2>4. CASE k % 3 \notin {1, 2}
    <3>1. Parent[f] # NoFamily => parent[obj(k)] = under
      BY <2>1, <2>4 DEF Done, obj, under
    <3>2. Parent[f] # NoFamily => parent'[obj(k)] = under
      BY <1>3, <1>6, <2>1, <3>1
    <3> QED
      BY <2>4, <3>2 DEF Done, obj, under
  <2> QED
    BY <2>2, <2>3, <2>4
<1>9. Done(f, p + 1)'
  <2> DEFINE k == p + 1
  <2>1. obj(k) \in Objects
    BY <1>1, <1>2
  <2>2. CASE k % 3 = 1
    <3>1. obj(k) \in present'
      BY <1>5, <1>6, <1>7
    <3> QED
      BY <2>2, <3>1 DEF Done, obj
  <2>3. CASE k % 3 = 2
    <3>1. a.op = "place"
      BY <1>2, <2>3 DEF Do
    <3>2. spot'[obj(k)] = "planned"
      BY <1>3, <1>5, <1>6, <2>1, <3>1
    <3> QED
      BY <2>3, <3>2 DEF Done, obj
  <2>4. CASE k % 3 \notin {1, 2}
    <3>1. Parent[f] # NoFamily => a.op = "parent"
      BY <1>2, <1>4, <2>4 DEF Do
    <3>2. Parent[f] # NoFamily => parent'[obj(k)] = under
      BY <1>3, <1>5, <1>6, <2>1, <3>1
    <3> QED
      BY <2>4, <3>2 DEF Done, obj, under
  <2> QED
    BY <2>2, <2>3, <2>4
<1>10. \A k \in 1 .. (p + 1) : k = p + 1 \/ k \in 1 .. p
  OBVIOUS
<1> QED
  BY <1>8, <1>9, <1>10

(* When all have had their effect, the part stands.                        *)
LEMMA AllDoneStands ==
  ASSUME NEW f \in Families, \A k \in 1 .. 3 * Count[f] : Done(f, k)
  PROVE  Stands(f)
<1> SUFFICES ASSUME NEW i \in 1 .. Count[f]
             PROVE  /\ Instance(f, i) \in present
                    /\ spot[Instance(f, i)] = "planned"
                    /\ Parent[f] # NoFamily => parent[Instance(f, i)] = ParentInstance(f)
  BY DEF Stands
<1>1. Count[f] \in Nat /\ i \in Nat /\ i >= 1 /\ i <= Count[f]
  BY CountAssumption
<1>2. /\ 3 * i - 2 \in 1 .. 3 * Count[f] /\ (3 * i - 2) % 3 = 1
      /\ ((3 * i - 2 - 1) \div 3) + 1 = i
  BY <1>1
<1>3. /\ 3 * i - 1 \in 1 .. 3 * Count[f] /\ (3 * i - 1) % 3 = 2
      /\ ((3 * i - 1 - 1) \div 3) + 1 = i
  BY <1>1
<1>4. /\ 3 * i \in 1 .. 3 * Count[f] /\ (3 * i) % 3 = 0
      /\ ((3 * i - 1) \div 3) + 1 = i
  BY <1>1
<1>5. Instance(f, i) \in present
  <2>1. Done(f, 3 * i - 2)
    BY <1>2
  <2> QED
    BY <1>2, <2>1 DEF Done
<1>6. spot[Instance(f, i)] = "planned"
  <2>1. Done(f, 3 * i - 1)
    BY <1>3
  <2> QED
    BY <1>3, <2>1 DEF Done
<1>7. Parent[f] # NoFamily => parent[Instance(f, i)] = ParentInstance(f)
  <2>1. Done(f, 3 * i)
    BY <1>4
  <2> QED
    BY <1>4, <2>1 DEF Done
<1> QED
  BY <1>5, <1>6, <1>7

(* The queue of a direct placement: one part, which is the first.          *)
LEMMA DirectQueue ==
  ASSUME TypeOK, NEW f \in Families, NEW p \in 0 .. 3 * Count[f], Follows(f, p), queue # <<>>
  PROVE  /\ leading /\ Tail(queue) = <<>> /\ Head(queue) = queue[1]
         /\ Head(queue) = <<>> => p = 3 * Count[f]
         /\ Head(queue) # <<>> => /\ p < 3 * Count[f]
                                  /\ NextAction = PlaceActions(f, ParentInstance(f))[p + 1]
<1>1. /\ leading /\ Len(queue) = 1 /\ Len(queue[1]) = 3 * Count[f] - p
      /\ \A j \in 1 .. (3 * Count[f] - p) :
           queue[1][j] = PlaceActions(f, ParentInstance(f))[p + j]
  BY DEF Follows
<1>2. queue \in Seq(Seq(AnyAction))
  BY DEF TypeOK
<1> HIDE DEF AnyAction
<1>3. Head(queue) = queue[1] /\ queue[1] \in Seq(AnyAction) /\ Tail(queue) = <<>>
  <2> DEFINE Q == Seq(AnyAction)
  <2>1. queue \in Seq(Q) /\ Len(queue) = 1
    BY <1>1, <1>2
  <2> HIDE DEF Q
  <2>2. queue[1] \in Q
    BY <2>1, ElementOfSeq
  <2>3. Tail(queue) \in Seq(Q) /\ Len(Tail(queue)) = 0 /\ Head(queue) = queue[1]
    BY <2>1
  <2>4. Tail(queue) = <<>>
    BY <2>3, EmptySeq
  <2> QED
    BY <2>2, <2>3, <2>4 DEF Q
<1>4. Count[f] \in Nat /\ p \in Nat
  BY CountAssumption
<1>5. Head(queue) = <<>> => p = 3 * Count[f]
  BY <1>1, <1>3, <1>4
<1>6. ASSUME Head(queue) # <<>>
      PROVE  /\ p < 3 * Count[f]
             /\ NextAction = PlaceActions(f, ParentInstance(f))[p + 1]
  <2>1. Len(queue[1]) > 0 /\ Head(queue[1]) = queue[1][1]
    BY <1>3, <1>6
  <2>2. 1 \in 1 .. (3 * Count[f] - p)
    BY <1>1, <1>4, <2>1
  <2> QED
    BY <1>1, <1>3, <1>4, <2>1, <2>2 DEF NextAction
<1> QED
  BY <1>1, <1>3, <1>5, <1>6

LEMMA InsideDirect ==
  ASSUME TypeOK, Inv, DirectPlacing, todo \in Families, stage = "assemble", ~ao, ~failed',
         Execute \/ ActionRaises \/ CallFails \/ DeletionIsSkipped \/ NextPart
  PROVE  DirectPlacing'
<1>1. /\ todo # NoFamily /\ queue # <<>> /\ todo' = todo /\ stage' = stage /\ ao' = ao
      /\ queue \in Seq(Seq(Placing(todo)))
  BY FamiliesAssumption DEF Execute, ActionRaises, CallFails, DeletionIsSkipped, NextPart,
     HasAction, AbandonPart, Inv, PlacesOnlyTodo
<1>2. failed \in BOOLEAN /\ ~failed
  BY DEF TypeOK, Execute, ActionRaises, CallFails, DeletionIsSkipped, NextPart, AbandonPart
<1> PICK f \in Families : f = todo
  OBVIOUS
<1> DEFINE n == 3 * Count[f]
<1>3. PICK p \in 0 .. n : Follows(f, p)
  BY <1>1, <1>2 DEF DirectPlacing
<1>4. /\ leading /\ Tail(queue) = <<>> /\ Head(queue) = queue[1]
      /\ Head(queue) = <<>> => p = n
      /\ Head(queue) # <<>> => p < n /\ NextAction = PlaceActions(f, ParentInstance(f))[p + 1]
  BY <1>1, <1>3, DirectQueue
<1>5. n \in Nat /\ p \in Nat
  BY CountAssumption
<1>6. /\ \A k \in 1 .. p : Done(f, k)
      /\ Len(queue[1]) = n - p
      /\ \A j \in 1 .. (n - p) : queue[1][j] = PlaceActions(f, ParentInstance(f))[p + j]
  BY <1>1, <1>3 DEF Follows
<1>7. CASE Execute
  <2>1. /\ Head(queue) # <<>> /\ ~Raises(NextAction) /\ Perform(NextAction)
        /\ queue' = <<Tail(Head(queue))>> \o Tail(queue) /\ leading' = leading
    <3>1. UNCHANGED <<ao, stage, built, verdict, todo, mode, failed, leading, faulty, answer>>
      BY <1>7 DEF Execute
    <3>2. leading' = leading
      BY <3>1
    <3> QED
      BY <1>7, <3>2 DEF Execute, HasAction
  <2>2. \A k \in 1 .. (p + 1) : Done(f, k)'
    <3> DEFINE a == NextAction
    <3>1. a = PlaceActions(f, ParentInstance(f))[p + 1] /\ p < n
      BY <1>4, <2>1
    <3>2. ~Raises(a) /\ Perform(a)
      BY <2>1
    <3>3. \A k \in 1 .. p : Done(f, k)
      BY <1>6
    <3> HIDE DEF a
    <3> QED
      BY <1>5, <3>1, <3>2, <3>3, OneMoreDone
  <2> DEFINE q == queue[1]
  <2>3. q \in Seq(Placing(f)) /\ q # <<>> /\ queue' = <<Tail(q)>>
    <3>1. queue \in Seq(Seq(Placing(f))) /\ Len(queue) > 0
      BY <1>1
    <3>2. q \in Seq(Placing(f))
      <4> DEFINE Q == Seq(Placing(f))
      <4>1. queue \in Seq(Q) /\ 1 \in 1 .. Len(queue)
        BY <3>1
      <4> HIDE DEF Q
      <4>2. queue[1] \in Q
        BY <4>1, ElementOfSeq
      <4> QED
        BY <4>2 DEF Q
    <3>3. Head(queue) = q /\ Tail(queue) = <<>>
      BY <1>4
    <3> HIDE DEF q
    <3>4. q # <<>> /\ queue' = <<Tail(q)>> \o <<>>
      BY <2>1, <3>3
    <3>5. Tail(q) \in Seq(Placing(f))
      BY <3>2, <3>4
    <3> QED
      BY <3>2, <3>4, <3>5
  <2>4. /\ Len(Tail(q)) = n - (p + 1)
        /\ \A j \in 1 .. (n - (p + 1)) : Tail(q)[j] = q[j + 1]
    <3> HIDE DEF q
    <3>1. Len(Tail(q)) = Len(q) - 1 /\ \A j \in 1 .. Len(Tail(q)) : Tail(q)[j] = q[j + 1]
      BY <2>3, HeadTailProperties
    <3>2. Len(q) = n - p
      BY <1>6 DEF q
    <3>3. Len(q) - 1 = n - (p + 1)
      BY <1>5, <3>2
    <3> QED
      BY <3>1, <3>3
  <2>5. \A j \in 1 .. (n - (p + 1)) :
          Tail(q)[j] = PlaceActions(f, ParentInstance(f))[p + 1 + j]
    <3> SUFFICES ASSUME NEW j \in 1 .. (n - (p + 1))
                 PROVE  Tail(q)[j] = PlaceActions(f, ParentInstance(f))[p + 1 + j]
      OBVIOUS
    <3>1. j + 1 \in 1 .. (n - p) /\ p + (j + 1) = p + 1 + j
      BY <1>5
    <3> QED
      BY <1>6, <2>4, <3>1
  <2>6. Len(queue') = 1 /\ queue'[1] = Tail(q)
    BY <2>3
  <2> HIDE DEF q
  <2>7. p + 1 \in 0 .. n
    BY <1>4, <1>5, <2>1
  <2>8. Follows(f, p + 1)'
    BY <1>1, <1>4, <2>1, <2>2, <2>4, <2>5, <2>6 DEF Follows
  <2> QED
    BY <1>1, <2>7, <2>8 DEF DirectPlacing
<1>8. CASE ActionRaises \/ CallFails
  BY <1>2, <1>4, <1>8 DEF ActionRaises, CallFails, AbandonPart
<1>9. CASE DeletionIsSkipped
  <2>1. Head(queue) # <<>> /\ NextAction.op = "delete"
    BY <1>9 DEF DeletionIsSkipped, HasAction
  <2>2. NextAction \in Placing(f)
    BY <1>1, <2>1, QueueShrinks DEF NextAction
  <2> QED
    BY <2>1, <2>2 DEF Placing
<1>10. CASE NextPart
  <2>1. Head(queue) = <<>> /\ queue' = <<>> /\ UNCHANGED sceneVars /\ p = n
    BY <1>4, <1>10 DEF NextPart
  <2>2. \A k \in 1 .. n : Done(f, k)'
    BY <1>6, <2>1 DEF sceneVars, Done
  <2>3. Follows(f, n)'
    BY <1>1, <2>1, <2>2 DEF Follows
  <2>4. n \in 0 .. n
    BY <1>5
  <2> QED
    BY <1>1, <2>3, <2>4 DEF DirectPlacing
<1> QED
  BY <1>7, <1>8, <1>9, <1>10

LEMMA NextDirect ==
  ASSUME TypeOK, Inv, DirectPlacing, [Next]_vars
  PROVE  DirectPlacing'
<1> SUFFICES ASSUME stage' = "assemble", todo' # NoFamily, ~ao', ~failed' PROVE DirectPlacing'
  BY DEF DirectPlacing
<1>1. CASE Execute \/ ActionRaises \/ CallFails \/ DeletionIsSkipped \/ NextPart
  <2>1. /\ stage = "assemble" /\ todo \in Families /\ ~ao
    BY <1>1 DEF Execute, ActionRaises, CallFails, DeletionIsSkipped, NextPart, AbandonPart,
                TypeOK
  <2> QED
    BY <1>1, <2>1, InsideDirect
<1>2. ASSUME NEW f \in Families, BuildDirectly(f) \/ BuildByPython(f) \/ BuildExtracted(f)
      PROVE  FALSE
  BY <1>2 DEF BuildDirectly, BuildByPython, BuildExtracted, MayBuild, Begin
<1>3. ASSUME NEW f \in Families, PlaceByPython(f) \/ PlaceExtracted(f) PROVE FALSE
  BY <1>3 DEF PlaceByPython, PlaceExtracted, Begin
<1>4. ASSUME NEW f \in Families, PlaceDirectly(f) PROVE DirectPlacing'
  <2> DEFINE s == PlaceActions(f, ParentInstance(f))
             n == 3 * Count[f]
  <2>1. todo' = f /\ queue' = <<s>> /\ leading'
    BY <1>4 DEF PlaceDirectly, Begin
  <2>2. n \in Nat /\ 0 \in 0 .. n /\ n - 0 = n
    BY CountAssumption
  <2>3. Len(s) = n
    <3>1. DOMAIN s = 1 .. n
      BY DEF PlaceActions
    <3>2. s \in Seq(Placing(f))
      <4>1. <<s>> \in Seq(Seq(Placing(f))) /\ 1 \in 1 .. Len(<<s>>) /\ <<s>>[1] = s
        BY ParentIsObject, PlaceActionsArePlacing
      <4> HIDE DEF s
      <4> QED
        BY <4>1, ElementOfSeq
    <3> HIDE DEF s, n
    <3> QED
      BY <2>2, <3>1, <3>2
  <2> HIDE DEF s
  <2>4. \A j \in 1 .. n : 0 + j = j
    BY <2>2
  <2>5. Follows(f, 0)'
    BY <2>1, <2>2, <2>3, <2>4 DEF Follows, s
  <2> QED
    BY <2>1, <2>2, <2>5 DEF DirectPlacing
<1>5. ASSUME NEW f \in Families, FinishBuild(f) \/ FinishPlace(f) PROVE FALSE
  BY <1>5 DEF FinishBuild, FinishPlace
<1>6. ASSUME NEW f \in Families, NEW status, RefuseBuild(f, status) \/ RefusePlace(f)
      PROVE  FALSE
  BY <1>6 DEF RefuseBuild, RefusePlace, MayBuild, MayPlace, Idle, todoVars
<1>7. CASE RejectPlan \/ RejectPlacements \/ BuildPlanUnwritten \/ BuildRaises \/ AssemblyRaises
             \/ EndBuild \/ EndAssembly
  BY <1>7 DEF RejectPlan, RejectPlacements, BuildPlanUnwritten, BuildRaises, AssemblyRaises,
     PhaseRaises, EndBuild, EndAssembly, Idle, todoVars
<1>8. CASE UNCHANGED vars
  <2>1. \E p \in 0 .. 3 * Count[todo] : Follows(todo, p)
    BY <1>8 DEF DirectPlacing, vars, todoVars
  <2>2. \A p : Follows(todo, p)' <=> Follows(todo, p)
    BY <1>8 DEF vars, sceneVars, todoVars, Follows, Done
  <2>3. todo' = todo
    BY <1>8 DEF vars, todoVars
  <2> QED
    BY <2>1, <2>2, <2>3 DEF DirectPlacing
<1> QED
  BY <1>1, <1>2, <1>3, <1>4, <1>5, <1>6, <1>7, <1>8 DEF Next

-----------------------------------------------------------------------------
LEMMA NextInv == TypeOK /\ Inv /\ DirectPlacing /\ [Next]_vars => Inv'
<1> SUFFICES ASSUME TypeOK, Inv, DirectPlacing, [Next]_vars PROVE Inv'
  OBVIOUS
<1>1. CASE Execute
  BY <1>1, InsideTodo DEF Execute, HasAction, Touches
<1>2. CASE ActionRaises
  BY <1>2, InsideTodo DEF ActionRaises, AbandonPart, HasAction, Touches
<1>3. CASE CallFails
  BY <1>3, InsideTodo DEF CallFails, AbandonPart, HasAction, Touches
<1>4. CASE DeletionIsSkipped
  BY <1>4, InsideTodo DEF DeletionIsSkipped, HasAction
<1>5. CASE NextPart
  BY <1>5, InsideTodo DEF NextPart
<1>6. ASSUME NEW f \in Families, BuildDirectly(f) \/ BuildByPython(f) PROVE Inv'
  BY <1>6, BeginKeepsInv DEF BuildDirectly, BuildByPython, MayBuild
<1>7. ASSUME NEW f \in Families, BuildExtracted(f) PROVE Inv'
  BY <1>7, BeginKeepsInv DEF BuildExtracted, MayBuild
<1>8. ASSUME NEW f \in Families, NEW status, RefuseBuild(f, status) PROVE Inv'
  BY <1>8, IdleKeepsInv DEF RefuseBuild, MayBuild, Idle, todoVars, Inv, TodoHasPhase
<1>9. ASSUME NEW f \in Families, FinishBuild(f) PROVE Inv'
  BY <1>9, IdleKeepsInv DEF FinishBuild
<1>10. ASSUME NEW f \in Families, PlaceDirectly(f) \/ PlaceByPython(f) PROVE Inv'
  <2>1. <<PlaceActions(f, ParentInstance(f))>> \in Seq(Seq(Placing(f)))
    BY ParentIsObject, PlaceActionsArePlacing
  <2> QED BY <1>10, <2>1, BeginKeepsInv DEF PlaceDirectly, PlaceByPython, MayPlace
<1>11. ASSUME NEW f \in Families, PlaceExtracted(f) PROVE Inv'
  <2>1. <<PlaceActions(f, ParentOfExtracted(f))>> \in Seq(Seq(Placing(f)))
    BY ParentIsObject, PlaceActionsArePlacing
  <2> QED BY <1>11, <2>1, BeginKeepsInv DEF PlaceExtracted, MayPlace
<1>12. ASSUME NEW f \in Families, RefusePlace(f) PROVE Inv'
  BY <1>12, VerdictKeepsInv
     DEF RefusePlace, MayPlace, Idle, todoVars, Inv, TodoHasPhase
<1>13. ASSUME NEW f \in Families, FinishPlace(f) PROVE Inv'
  <2>1. PICK v \in Verdicts(f) : verdict' = [verdict EXCEPT ![f] = v]
    BY <1>13 DEF FinishPlace
  <2>2. v \in {"approved", "failed"} /\ (v = "approved" => ~failed)
        /\ (ao /\ v = "approved" => Stands(f))
    BY DEF Verdicts
  <2>3. ASSUME ~ao, v = "approved" PROVE Stands(f)
    <3>1. stage = "assemble" /\ todo = f /\ f # NoFamily /\ queue = <<>>
      BY <1>13, FamiliesAssumption DEF FinishPlace
    <3>2. PICK p \in 0 .. 3 * Count[f] : Follows(f, p)
      BY <2>2, <2>3, <3>1 DEF DirectPlacing
    <3>3. \A k \in 1 .. 3 * Count[f] : Done(f, k)
      BY <3>1, <3>2 DEF Follows
    <3> QED
      BY <3>3, AllDoneStands
  <2> QED BY <1>13, <2>1, <2>2, <2>3, VerdictKeepsInv DEF FinishPlace
<1>14. CASE BuildRaises \/ AssemblyRaises
  BY <1>14, IdleKeepsInv DEF BuildRaises, AssemblyRaises, PhaseRaises, Idle, todoVars, Inv,
     TodoHasPhase
<1>15. CASE EndBuild
  BY <1>15, IdleKeepsInv DEF EndBuild, Idle, todoVars, Inv, TodoHasPhase
<1>16. CASE EndAssembly
  BY <1>16, IdleKeepsInv DEF EndAssembly, Idle, todoVars, Inv, TodoHasPhase
<1>17. CASE RejectPlan \/ BuildPlanUnwritten
  BY <1>17, IdleKeepsInv DEF RejectPlan, BuildPlanUnwritten, Idle, todoVars, Inv, TodoHasPhase
<1>18. CASE RejectPlacements
  BY <1>18, RejectionKeepsInv
<1>19. CASE UNCHANGED vars
  <2>1. SceneIsTotal' /\ TodoHasPhase' /\ NoEarlyVerdict' /\ GateMeansApproval'
    BY <1>19 DEF vars, sceneVars, todoVars, Inv, SceneIsTotal, TodoHasPhase,
                 NoEarlyVerdict, GateMeansApproval, AllApproved
  <2>2. PlacesOnlyTodo'
    BY <1>19 DEF vars, todoVars, Inv, PlacesOnlyTodo, Placing, InstancesOf
  <2>3. ApprovedPartsStand'
    BY <1>19 DEF vars, sceneVars, Inv, ApprovedPartsStand, Stands
  <2> QED BY <2>1, <2>2, <2>3 DEF Inv
<1> HIDE DEF Inv
<1> QED
  BY <1>1, <1>2, <1>3, <1>4, <1>5, <1>6, <1>7, <1>8, <1>9, <1>10, <1>11, <1>12,
     <1>13, <1>14, <1>15, <1>16, <1>17, <1>18, <1>19 DEF Next

(* The types and both invariants together are inductive.                   *)
Whole == TypeOK /\ Inv /\ DirectPlacing

LEMMA InitWhole == Init => Whole
<1>1. Init => DirectPlacing
  BY DEF Init, DirectPlacing
<1> QED BY <1>1, InitTypes, InitInv DEF Whole

LEMMA NextWhole == Whole /\ [Next]_vars => Whole'
  BY NextTypes, NextInv, NextDirect DEF Whole

LEMMA AlwaysWhole == Spec => []Whole
  BY InitWhole, NextWhole, PTL DEF Spec

(* Every variable of the two phases keeps its type: whatever a language    *)
(* model extracts, Python executes only actions it knows, on objects of    *)
(* the plan (parse_agent_action_plan, _normalize_extracted_build_actions). *)
THEOREM TodosTypeCorrect == Spec => []TypeOK
<1>1. Whole => TypeOK
  BY DEF Whole
<1> QED BY <1>1, AlwaysWhole, PTL

(* A part approved once stands until the end, with AO because every        *)
(* placement is read back, without because every action was executed; the  *)
(* actions of the assembly phase touch the part they are for and no other  *)
(* (_execute_place_intent, _execute_assembly_action_plan, and run of       *)
(* phases/assemble_phase.py).                                              *)
THEOREM ApprovedStand == Spec => []ApprovedPartsStand
<1>1. Whole => ApprovedPartsStand
  BY DEF Whole, Inv
<1> QED BY <1>1, AlwaysWhole, PTL

(* With AO, a run behind the gate of the assembly phase (Pipeline.run) has *)
(* every part of the plan in the scene, where the plan says.               *)
THEOREM PlacedIsComplete == Spec => []PlacedModelIsComplete
<1>1. Whole => PlacedModelIsComplete
  BY DEF Whole, Inv, GateMeansApproval, AllApproved, ApprovedPartsStand,
         PlacedModelIsComplete
<1> QED BY <1>1, AlwaysWhole, PTL

-----------------------------------------------------------------------------
(* The repair of an extracted plan.                                        *)

(* Every entry of q is one of s. *)
Contains(s, q) == \A j \in 1 .. Len(q) : \E i \in 1 .. Len(s) : s[i] = q[j]

(* An action that makes an instance of f from the template, and the one    *)
(* that removes the template.                                              *)
Copies(f, a) == a.op = "duplicate" /\ a.object = Template(f) /\ a.to \in InstancesOf(f)
Removes(f, a) == a.op = "delete" /\ a.object = Template(f)

(* Actions that work on the template of f and its copies only, and remove  *)
(* the template last, if they do.                                          *)
Orderly(f, z) ==
  /\ z # <<>> /\ z[1].op = "create" /\ z[1].object = Template(f)
  /\ \A k \in 2 .. Len(z) :
       \/ z[k].op = "scale" /\ z[k].object = Template(f)
       \/ Copies(f, z[k])
       \/ k = Len(z) /\ Removes(f, z[k])

(* They make every instance that was not declared, and if there is one not *)
(* declared, they remove the template.                                     *)
Repairs(f, declared, z) ==
  /\ Orderly(f, z)
  /\ \A o \in InstancesOf(f) \ declared :
       \E k \in 1 .. Len(z) : z[k].op = "duplicate" /\ z[k].to = o
  /\ InstancesOf(f) \subseteq declared \/ (Len(z) > 1 /\ Removes(f, z[Len(z)]))

(* An instance is missing, or the part declares it, or makes it.           *)
Accounted(part, names, o) ==
  \/ \E i \in DOMAIN names : names[i] = o
  \/ o \in part.declared
  \/ \E k \in DOMAIN part.actions :
       part.actions[k].op = "duplicate" /\ part.actions[k].to = o

(* What the first p of these actions have done.                            *)
Made(f, z, p) ==
  /\ \A k \in 1 .. p : z[k].op = "duplicate" => z[k].to \in present
  /\ p > 0 => (Template(f) \in present <=> ~Removes(f, z[p]))

(* The others are still to be executed.                                    *)
Rests(z, p) ==
  \/ queue = <<>> /\ p = Len(z)
  \/ /\ leading /\ Len(queue) = 1 /\ Len(queue[1]) = Len(z) - p
     /\ \A j \in 1 .. (Len(z) - p) : queue[1][j] = z[p + j]

(* A sound plan is executed to its end unless Blender fails.               *)
RepairGoesOn ==
  stage = "build" /\ todo # NoFamily /\ mode = "extracted" /\ ~faulty /\ Sound(todo, answer) =>
    /\ ~failed
    /\ \E p \in 0 .. Len(Normalized(todo, answer[1])) :
         /\ Made(todo, Normalized(todo, answer[1]), p)
         /\ Rests(Normalized(todo, answer[1]), p)

LEMMA TemplateIsNoInstance ==
  ASSUME NEW f \in Families
  PROVE  Template(f) \notin InstancesOf(f)
  BY CountAssumption DEF Template, InstancesOf, Instance

(* Nothing gets lost where a list is spliced into another.                 *)
LEMMA SplicedKeeps ==
  ASSUME NEW T, NEW acts \in Seq(T), NEW more \in Seq(T), NEW k \in 1 .. Len(acts) + 1
  PROVE  /\ Contains(Spliced(acts, k, more), acts)
         /\ Contains(Spliced(acts, k, more), more)
<1> DEFINE n == Len(acts)
           m == Len(more)
           s == Spliced(acts, k, more)
<1>1. n \in Nat /\ m \in Nat /\ k \in 1 .. n + 1
  OBVIOUS
<1>2. /\ Len(s) = n + m
      /\ \A i \in 1 .. n + m :
           s[i] = IF i < k THEN acts[i] ELSE IF i < k + m THEN more[i - k + 1] ELSE acts[i - m]
  BY SplicedList
<1> HIDE DEF n, m, s
<1>3. ASSUME NEW j \in 1 .. n PROVE \E i \in 1 .. n + m : s[i] = acts[j]
  <2>1. CASE j < k
    <3>1. j \in 1 .. n + m
      BY <1>1
    <3>2. s[j] = acts[j]
      BY <1>2, <2>1, <3>1
    <3> QED
      BY <3>1, <3>2
  <2>2. CASE j >= k
    <3>1. j + m \in 1 .. n + m /\ ~(j + m < k) /\ ~(j + m < k + m) /\ j + m - m = j
      BY <1>1, <2>2
    <3>2. s[j + m] = acts[j + m - m]
      BY <1>1, <1>2, <3>1
    <3> QED
      BY <3>1, <3>2
  <2> QED
    BY <1>1, <2>1, <2>2
<1>4. ASSUME NEW j \in 1 .. m PROVE \E i \in 1 .. n + m : s[i] = more[j]
  <2>1. /\ k + j - 1 \in 1 .. n + m /\ ~(k + j - 1 < k) /\ k + j - 1 < k + m
        /\ k + j - 1 - k + 1 = j
    BY <1>1
  <2>2. s[k + j - 1] = more[k + j - 1 - k + 1]
    BY <1>2, <2>1
  <2> QED
    BY <2>1, <2>2
<1> QED
  BY <1>2, <1>3, <1>4 DEF Contains, n, m, s

(* The scale of the template comes in front of its first copy.             *)
LEMMA ScaledIsOrderly ==
  ASSUME NEW f \in Families, NEW part \in Parts, NEW plan, plan = <<part>>, Sound(f, plan)
  PROVE  /\ WithScale(part) \in Seq(BuildAction)
         /\ Orderly(f, WithScale(part))
         /\ Contains(WithScale(part), part.actions)
<1> DEFINE a == part.actions
           t == Template(f)
           n == Len(a)
           k0 == FirstAt(a, "duplicate")
           sc == Do("scale", t, NoObject)
           one == <<sc>>
           s == Spliced(a, k0, one)
<1>1. /\ part.template = t /\ n > 0 /\ a[1] = Do("create", t, NoObject)
      /\ \A k \in 2 .. n : Copies(f, a[k]) \/ (k = n /\ k > 2 /\ a[k] = Do("delete", t, NoObject))
  BY DEF Sound, Copies
<1>2. a \in Seq(BuildAction) /\ t \in Objects /\ n \in Nat
  BY InstanceIsObject DEF Parts
<1>3. sc \in BuildAction
  BY <1>2, Actions DEF Simple, BuildOps
<1> HIDE DEF sc, BuildAction, a, t
<1>4. \A k \in 1 .. n : a[k].op # "scale"
  BY <1>1, <1>2 DEF Copies, Do
<1>5. WithScale(part) = s
  <2>1. ~Does(a, "scale", t)
    BY <1>2, <1>4 DEF Does
  <2> QED
    BY <1>1, <2>1 DEF WithScale, sc, a, k0
<1>6. /\ k0 \in 1 .. n + 1
      /\ \A j \in 1 .. n : j < k0 => a[j].op # "duplicate"
      /\ k0 <= n => a[k0].op = "duplicate"
  BY <1>2, FirstAtIsPlace
<1>7. one \in Seq(BuildAction) /\ Len(one) = 1 /\ one[1] = sc
  BY <1>3
<1> HIDE DEF n, k0, one
<1>8. k0 > 1
  BY <1>1, <1>2, <1>6 DEF Do
<1>9. /\ s \in Seq(BuildAction) /\ Len(s) = n + 1
      /\ \A i \in 1 .. n + 1 :
           s[i] = IF i < k0 THEN a[i] ELSE IF i < k0 + 1 THEN one[i - k0 + 1] ELSE a[i - 1]
  <2>1. k0 \in 1 .. Len(a) + 1
    BY <1>6 DEF n
  <2>2. /\ s \in Seq(BuildAction) /\ Len(s) = Len(a) + Len(one)
        /\ \A i \in 1 .. Len(a) + Len(one) :
             s[i] = IF i < k0 THEN a[i] ELSE IF i < k0 + Len(one) THEN one[i - k0 + 1]
                    ELSE a[i - Len(one)]
    <3> HIDE DEF s
    <3>1. s = Spliced(a, k0, one)
      BY DEF s
    <3> QED
      BY <1>2, <1>7, <2>1, <3>1, SplicedList
  <2> QED
    BY <1>7, <2>2 DEF n
<1>10. Contains(s, a)
  <2>1. k0 \in 1 .. Len(a) + 1
    BY <1>6 DEF n
  <2> QED
    BY <1>2, <1>7, <2>1, SplicedKeeps DEF s
<1> HIDE DEF s
<1>11. s # <<>> /\ s[1].op = "create" /\ s[1].object = t
  <2>1. s[1] = a[1]
    BY <1>1, <1>2, <1>8, <1>9
  <2>2. s # <<>>
    BY <1>2, <1>9
  <2> QED
    BY <1>1, <2>1, <2>2 DEF Do
<1>12. ASSUME NEW i \in 2 .. n + 1
       PROVE  \/ s[i].op = "scale" /\ s[i].object = t
              \/ Copies(f, s[i])
              \/ i = n + 1 /\ Removes(f, s[i])
  <2>1. CASE i < k0
    <3>1. i \in 2 .. n
      BY <1>2, <1>6, <2>1
    <3>3. s[i] = a[i]
      BY <1>9, <2>1
    <3>2. ~(i = n /\ i > 2)
      <4>1. SUFFICES ASSUME i = n, i > 2 PROVE FALSE
        OBVIOUS
      <4>2. 2 \in 2 .. n /\ 2 < k0 /\ 2 # n
        BY <1>2, <1>6, <2>1, <4>1
      <4>3. Copies(f, a[2])
        BY <1>1, <4>2
      <4> QED
        BY <1>6, <4>2, <4>3 DEF Copies
    <3> QED
      BY <1>1, <3>1, <3>2, <3>3
  <2>2. CASE i = k0
    <3>2. i - k0 + 1 = 1 /\ ~(i < k0) /\ i < k0 + 1
      BY <1>2, <1>6, <2>2
    <3>1. s[i] = one[1]
      BY <1>9, <3>2
    <3> QED
      BY <1>7, <3>1 DEF sc, Do
  <2>3. CASE i > k0
    <3>1. ~(i < k0) /\ ~(i < k0 + 1) /\ i - 1 \in 2 .. n
      BY <1>2, <1>6, <1>8, <2>3
    <3>2. s[i] = a[i - 1] /\ i - 1 \in 2 .. n
      BY <1>9, <3>1
    <3>3. Copies(f, a[i - 1]) \/ (i - 1 = n /\ a[i - 1] = Do("delete", t, NoObject))
      BY <1>1, <3>2
    <3>4. CASE Copies(f, a[i - 1])
      BY <3>2, <3>4
    <3>5. CASE i - 1 = n /\ a[i - 1] = Do("delete", t, NoObject)
      BY <1>2, <3>2, <3>5 DEF Removes, Do, t
    <3> QED
      BY <3>3, <3>4, <3>5
  <2> QED
    BY <1>2, <1>6, <2>1, <2>2, <2>3
<1>13. Orderly(f, s)
  BY <1>9, <1>11, <1>12 DEF Orderly, t
<1> QED
  BY <1>5, <1>9, <1>10, <1>13 DEF a, n

(* The missing copies come in front of the removal of the template.        *)
LEMMA CompletedIsOrderly ==
  ASSUME NEW f \in Families, NEW acts \in Seq(BuildAction), Orderly(f, acts),
         NEW more \in Seq(BuildAction), \A j \in 1 .. Len(more) : Copies(f, more[j]),
         NEW s, s = Spliced(acts, FirstAt(acts, "delete"), more)
  PROVE  /\ s \in Seq(BuildAction) /\ Orderly(f, s)
         /\ Contains(s, acts) /\ Contains(s, more)
<1> DEFINE n == Len(acts)
           m == Len(more)
           k == FirstAt(acts, "delete")
<1>1. n \in Nat /\ m \in Nat /\ n > 0
  BY DEF Orderly
<1>2. /\ k \in 1 .. n + 1
      /\ \A j \in 1 .. n : j < k => acts[j].op # "delete"
      /\ k <= n => acts[k].op = "delete"
  BY FirstAtIsPlace
<1> HIDE DEF k, BuildAction
<1>3. k > 1
  BY <1>1, <1>2 DEF Orderly
<1>4. /\ s \in Seq(BuildAction) /\ Len(s) = n + m
      /\ \A i \in 1 .. n + m :
           s[i] = IF i < k THEN acts[i] ELSE IF i < k + m THEN more[i - k + 1] ELSE acts[i - m]
  BY <1>2, SplicedList DEF k
<1>5. Contains(s, acts) /\ Contains(s, more)
  <2>1. k \in 1 .. Len(acts) + 1
    BY <1>2
  <2>2. s = Spliced(acts, k, more)
    BY DEF k
  <2> QED
    BY <2>1, <2>2, SplicedKeeps
<1> HIDE DEF n, m
<1>6. s # <<>> /\ s[1].op = "create" /\ s[1].object = Template(f)
  <2>1. s[1] = acts[1]
    BY <1>1, <1>3, <1>4
  <2>2. s # <<>>
    BY <1>1, <1>4
  <2> QED
    BY <2>1, <2>2 DEF Orderly
<1>7. \A i \in 2 .. n : \/ acts[i].op = "scale" /\ acts[i].object = Template(f)
                        \/ Copies(f, acts[i])
                        \/ i = n /\ Removes(f, acts[i])
  BY DEF Orderly, n
<1>8. ASSUME NEW i \in 2 .. n + m
      PROVE  \/ s[i].op = "scale" /\ s[i].object = Template(f)
             \/ Copies(f, s[i])
             \/ i = n + m /\ Removes(f, s[i])
  <2>1. CASE i < k
    <3>1. i \in 2 .. n /\ i \in 1 .. n /\ s[i] = acts[i]
      BY <1>1, <1>2, <1>4, <2>1
    <3>2. ~Removes(f, acts[i])
      BY <1>2, <2>1, <3>1 DEF Removes
    <3> QED
      BY <1>7, <3>1, <3>2
  <2>2. CASE i >= k /\ i < k + m
    <3>1. s[i] = more[i - k + 1] /\ i - k + 1 \in 1 .. m
      BY <1>1, <1>2, <1>4, <2>2
    <3> QED
      BY <3>1 DEF m
  <2>3. CASE i >= k + m
    <3>1. s[i] = acts[i - m] /\ i - m \in 2 .. n /\ (i - m = n => i = n + m)
      BY <1>1, <1>2, <1>3, <1>4, <2>3
    <3> QED
      BY <1>7, <3>1
  <2> QED
    BY <1>1, <1>2, <2>1, <2>2, <2>3
<1>9. Orderly(f, s)
  BY <1>4, <1>6, <1>8 DEF Orderly
<1> QED
  BY <1>4, <1>5, <1>9 DEF n, m

LEMMA InstancesAreAccounted ==
  ASSUME NEW f \in Families, NEW part \in Parts, NEW o \in InstancesOf(f)
  PROVE  Accounted(part, Missing(f, part), o)
  BY MissingAreInstances DEF Accounted

(* A sound plan is repaired: what Python makes of its part has every       *)
(* instance that was not declared made, and the template removed.          *)
LEMMA SoundIsNormalized ==
  ASSUME NEW f \in Families, NEW part \in Parts, NEW plan, plan = <<part>>, Sound(f, plan)
  PROVE  Repairs(f, part.declared, Normalized(f, part))
<1> DEFINE t == Template(f)
           acts == WithScale(part)
           names == Missing(f, part)
           more == [k \in DOMAIN names |-> Do("duplicate", part.template, names[k])]
           full == WithMissing(f, part)
           d == Do("delete", part.template, NoObject)
<1>1. part.template = t /\ t \in Objects /\ t \notin InstancesOf(f)
  BY InstanceIsObject, TemplateIsNoInstance DEF Sound
<1>2. /\ acts \in Seq(BuildAction) /\ Orderly(f, acts)
      /\ Contains(acts, part.actions)
  BY ScaledIsOrderly
<1>3. /\ names \in Seq(InstancesOf(f))
      /\ \A o \in InstancesOf(f) : Accounted(part, names, o)
  BY MissingAreInstances, InstancesAreAccounted
<1>4. part.actions \in Seq(BuildAction)
  BY DEF Parts
<1> HIDE DEF BuildAction, t, acts, names
<1>5. /\ DOMAIN names = 1 .. Len(names) /\ Len(names) \in Nat
      /\ \A k \in 1 .. Len(names) : names[k] \in InstancesOf(f)
  BY <1>3
<1>6. /\ more \in Seq(BuildAction) /\ Len(more) = Len(names)
      /\ \A k \in 1 .. Len(names) : more[k] = Do("duplicate", t, names[k])
  <2>1. \A o \in InstancesOf(f) : Do("duplicate", t, o) \in BuildAction
    BY <1>1, Actions, InstanceIsObject
  <2>2. more \in [1 .. Len(names) -> BuildAction]
    BY <1>1, <1>5, <2>1
  <2> QED
    BY <1>1, <1>5, <2>2
<1>7. \A j \in 1 .. Len(more) : Copies(f, more[j]) /\ more[j].to = names[j]
  BY <1>5, <1>6 DEF Copies, Do, t
<1>8. full = Spliced(acts, FirstAt(acts, "delete"), more)
  BY DEF WithMissing, acts, names
<1> HIDE DEF more, full
<1>9. /\ full \in Seq(BuildAction) /\ Orderly(f, full)
      /\ Contains(full, acts) /\ Contains(full, more)
  <2>1. \A j \in 1 .. Len(more) : Copies(f, more[j])
    BY <1>7
  <2> QED
    BY <1>2, <1>6, <1>8, <2>1, CompletedIsOrderly
<1>10. ASSUME NEW o \in InstancesOf(f) \ part.declared
       PROVE  \E k \in 1 .. Len(full) : full[k].op = "duplicate" /\ full[k].to = o
  <2>1. CASE \E i \in DOMAIN names : names[i] = o
    <3>1. PICK i \in DOMAIN names : names[i] = o
      BY <2>1
    <3>2. i \in 1 .. Len(more) /\ more[i].op = "duplicate" /\ more[i].to = o
      BY <1>5, <1>6, <1>7, <3>1 DEF Copies
    <3> QED
      BY <1>9, <3>2 DEF Contains
  <2>2. CASE \E k \in DOMAIN part.actions :
               part.actions[k].op = "duplicate" /\ part.actions[k].to = o
    <3>1. PICK k \in 1 .. Len(part.actions) :
            part.actions[k].op = "duplicate" /\ part.actions[k].to = o
      BY <1>4, <2>2
    <3>2. PICK i \in 1 .. Len(acts) : acts[i] = part.actions[k]
      BY <1>2 DEF Contains
    <3> QED
      BY <1>9, <3>1, <3>2 DEF Contains
  <2> QED
    BY <1>3, <2>1, <2>2 DEF Accounted
<1>11. DOMAIN full = 1 .. Len(full) /\ Len(full) \in Nat /\ Len(full) > 0
  BY <1>9 DEF Orderly
<1>12. CASE Does(full, "duplicate", t) /\ ~Does(full, "delete", t)
  <2> DEFINE z == Append(full, d)
             n == Len(full)
  <2>1. Normalized(f, part) = z
    BY <1>1, <1>12 DEF Normalized, full
  <2>2. d \in BuildAction /\ Removes(f, d)
    <3>1. d \in BuildAction
      BY <1>1, Actions DEF Simple, BuildOps
    <3> QED
      BY <1>1, <3>1 DEF Removes, Do, t
  <2> HIDE DEF d
  <2>3. /\ Len(z) = n + 1 /\ z[n + 1] = d /\ z # <<>>
        /\ \A k \in 1 .. n : z[k] = full[k]
    <3>1. full \in Seq(BuildAction)
      BY <1>9
    <3>2. /\ z \in Seq(BuildAction) /\ Len(z) = Len(full) + 1
          /\ \A k \in 1 .. Len(full) : z[k] = full[k]
          /\ z[Len(full) + 1] = d
      BY <2>2, <3>1, AppendProperties
    <3>3. z # <<>>
      BY <1>11, <3>2
    <3> QED
      BY <3>2, <3>3
  <2> HIDE DEF z, n
  <2>4. ASSUME NEW k \in 1 .. n PROVE ~Removes(f, full[k])
    <3>1. ~(full[k].op = "delete" /\ full[k].object = t)
      BY <1>11, <1>12 DEF Does, n
    <3> QED
      BY <3>1 DEF Removes, t
  <2>5. Orderly(f, z)
    <3>1. z[1].op = "create" /\ z[1].object = Template(f)
      <4>1. 1 \in 1 .. n
        BY <1>11 DEF n
      <4>2. z[1] = full[1]
        BY <2>3, <4>1
      <4> QED
        BY <1>9, <4>2 DEF Orderly
    <3>2. ASSUME NEW k \in 2 .. n + 1
          PROVE  \/ z[k].op = "scale" /\ z[k].object = Template(f)
                 \/ Copies(f, z[k])
                 \/ k = n + 1 /\ Removes(f, z[k])
      <4>1. CASE k = n + 1
        BY <2>2, <2>3, <4>1
      <4>2. CASE k # n + 1
        <5>1. k \in 2 .. n /\ k \in 1 .. n /\ z[k] = full[k]
          BY <1>11, <2>3, <4>2 DEF n
        <5> QED
          BY <1>9, <2>4, <5>1 DEF Orderly, n
      <4> QED
        BY <4>1, <4>2
    <3> QED
      BY <2>3, <3>1, <3>2 DEF Orderly
  <2>6. ASSUME NEW o \in InstancesOf(f) \ part.declared
        PROVE  \E k \in 1 .. Len(z) : z[k].op = "duplicate" /\ z[k].to = o
    <3>1. PICK k \in 1 .. n : full[k].op = "duplicate" /\ full[k].to = o
      BY <1>10 DEF n
    <3>2. k \in 1 .. Len(z) /\ z[k] = full[k]
      BY <1>11, <2>3 DEF n
    <3> QED
      BY <3>1, <3>2
  <2>7. Len(z) > 1 /\ Removes(f, z[Len(z)])
    BY <1>11, <2>2, <2>3 DEF n
  <2> QED
    BY <2>1, <2>5, <2>6, <2>7 DEF Repairs
<1>13. CASE ~(Does(full, "duplicate", t) /\ ~Does(full, "delete", t))
  <2>1. Normalized(f, part) = full
    BY <1>1, <1>13 DEF Normalized, full
  <2>2. InstancesOf(f) \subseteq part.declared \/ (Len(full) > 1 /\ Removes(f, full[Len(full)]))
    <3>1. CASE ~Does(full, "duplicate", t)
      <4>1. \A k \in 1 .. Len(full) : full[k].op # "duplicate"
        <5>1. SUFFICES ASSUME NEW k \in 1 .. Len(full), full[k].op = "duplicate" PROVE FALSE
          OBVIOUS
        <5>2. k # 1
          BY <1>9, <5>1 DEF Orderly
        <5>3. k \in 2 .. Len(full)
          BY <1>11, <5>2
        <5>4. Copies(f, full[k])
          BY <1>9, <5>1, <5>3 DEF Orderly, Removes
        <5> QED
          BY <1>11, <3>1, <5>4 DEF Copies, Does, t
      <4> QED
        BY <1>10, <4>1
    <3>2. CASE Does(full, "delete", t)
      <4>1. PICK k \in 1 .. Len(full) : full[k].op = "delete" /\ full[k].object = t
        BY <1>11, <3>2 DEF Does
      <4>2. k # 1
        BY <1>9, <4>1 DEF Orderly
      <4>3. k \in 2 .. Len(full) /\ Len(full) > 1
        BY <1>11, <4>2
      <4>4. k = Len(full) /\ Removes(f, full[k])
        BY <1>9, <4>1, <4>3 DEF Orderly, Copies
      <4> QED
        BY <4>3, <4>4
    <3> QED
      BY <1>13, <3>1, <3>2
  <2> QED
    BY <1>9, <1>10, <2>1, <2>2 DEF Repairs
<1> QED
  BY <1>12, <1>13

LEMMA SoundPlan ==
  ASSUME NEW f \in Families, NEW plan \in Seq(Parts), Sound(f, plan)
  PROVE  /\ plan[1] \in Parts /\ Len(plan) = 1
         /\ Normalized(f, plan[1]) \in Seq(BuildAction)
         /\ Repairs(f, plan[1].declared, Normalized(f, plan[1]))
<1>1. Len(plan) = 1
  BY DEF Sound
<1>2. PICK part \in Parts : plan[1] = part
  BY <1>1, ElementOfSeq
<1>3. plan = <<part>>
  BY <1>1, <1>2
<1>4. Normalized(f, part) \in Seq(BuildAction)
  BY NormalizedIsActions
<1>5. Repairs(f, part.declared, Normalized(f, part))
  BY <1>3, SoundIsNormalized
<1> QED
  BY <1>1, <1>2, <1>4, <1>5

(* None of these actions fails for want of an object.                      *)
LEMMA OneMoreMade ==
  ASSUME NEW f \in Families, NEW z, Orderly(f, z), NEW n \in Nat, Len(z) = n,
         NEW p \in Nat, p < n, Made(f, z, p), NEW a, a = z[p + 1]
  PROVE  ~Raises(a) /\ (Perform(a) => Made(f, z, p + 1)')
<1> DEFINE t == Template(f)
<1>1. /\ z[1].op = "create" /\ z[1].object = t
      /\ \A k \in 2 .. n : \/ z[k].op = "scale" /\ z[k].object = t
                           \/ Copies(f, z[k])
                           \/ k = n /\ Removes(f, z[k])
  BY DEF Orderly
<1>2. t \notin InstancesOf(f)
  BY TemplateIsNoInstance
<1>3. ASSUME NEW k \in 1 .. n, z[k].op = "duplicate" PROVE z[k].to \in InstancesOf(f)
  BY <1>1, <1>3 DEF Copies, Removes
<1>4. \A k \in 1 .. n - 1 : ~Removes(f, z[k])
  BY <1>1 DEF Copies, Removes
<1>5. /\ \A k \in 1 .. p : z[k].op = "duplicate" => z[k].to \in present
      /\ p > 0 => t \in present
  BY <1>4 DEF Made
<1>6. p + 1 \in 1 .. n /\ (p > 0 => p + 1 \in 2 .. n)
  OBVIOUS
<1>7. \/ a.op = "create" /\ a.object = t
      \/ p > 0 /\ a.op = "scale" /\ a.object = t
      \/ p > 0 /\ Copies(f, a)
      \/ p > 0 /\ Removes(f, a)
  <2>1. CASE p = 0
    BY <1>1, <2>1
  <2>2. CASE p > 0
    BY <1>1, <1>6, <2>2
  <2> QED
    BY <2>1, <2>2
<1>8. ~Raises(a)
  BY <1>2, <1>5, <1>7 DEF Raises, Copies, Removes
<1>9. ASSUME Perform(a) PROVE Made(f, z, p + 1)'
  <2>1. ASSUME NEW k \in 1 .. p, z[k].op = "duplicate"
        PROVE  z[k].to \in present /\ z[k].to # t
    <3>1. k \in 1 .. n
      OBVIOUS
    <3> QED
      BY <1>2, <1>3, <1>5, <2>1, <3>1
  <2> HIDE DEF t
  <2>2. CASE a.op = "create" /\ a.object = t
    BY <1>9, <2>1, <2>2 DEF Perform, Made, Removes, t
  <2>3. CASE p > 0 /\ a.op = "scale"
    BY <1>5, <1>9, <2>1, <2>3 DEF Perform, Made, Removes, t
  <2>4. CASE p > 0 /\ Copies(f, a)
    BY <1>5, <1>9, <2>1, <2>4 DEF Perform, Made, Removes, Copies, t
  <2>5. CASE p > 0 /\ Removes(f, a)
    BY <1>9, <2>1, <2>5 DEF Perform, Made, Removes, t
  <2> QED
    BY <1>7, <2>2, <2>3, <2>4, <2>5
<1> QED
  BY <1>8, <1>9

(* What is done next of the actions that are left.                         *)
LEMMA RestsAreNext ==
  ASSUME TypeOK, NEW z, NEW n \in Nat, Len(z) = n, NEW p \in 0 .. n, Rests(z, p), queue # <<>>
  PROVE  /\ Tail(queue) = <<>>
         /\ Head(queue) = <<>> => p = n
         /\ Head(queue) # <<>> =>
              /\ p < n /\ NextAction = z[p + 1]
              /\ queue' = <<Tail(Head(queue))>> \o Tail(queue) /\ leading' = leading =>
                   Rests(z, p + 1)'
<1>1. /\ leading /\ Len(queue) = 1 /\ Len(queue[1]) = n - p
      /\ \A j \in 1 .. (n - p) : queue[1][j] = z[p + j]
  BY DEF Rests
<1>2. queue \in Seq(Seq(AnyAction))
  BY DEF TypeOK
<1> HIDE DEF AnyAction
<1>3. Head(queue) = queue[1] /\ queue[1] \in Seq(AnyAction) /\ Tail(queue) = <<>>
  <2> DEFINE Q == Seq(AnyAction)
  <2>1. queue \in Seq(Q) /\ Len(queue) = 1
    BY <1>1, <1>2
  <2> HIDE DEF Q
  <2>2. queue[1] \in Q
    BY <2>1, ElementOfSeq
  <2>3. Tail(queue) \in Seq(Q) /\ Len(Tail(queue)) = 0 /\ Head(queue) = queue[1]
    BY <2>1
  <2>4. Tail(queue) = <<>>
    BY <2>3, EmptySeq
  <2> QED
    BY <2>2, <2>3, <2>4 DEF Q
<1> PICK q : q = queue[1]
  OBVIOUS
<1>4. /\ q \in Seq(AnyAction) /\ Head(queue) = q /\ Len(q) = n - p
      /\ \A j \in 1 .. (n - p) : q[j] = z[p + j]
  BY <1>1, <1>3
<1>5. Head(queue) = <<>> => p = n
  BY <1>4
<1>6. ASSUME q # <<>>
      PROVE  /\ p < n /\ NextAction = z[p + 1]
             /\ queue' = <<Tail(q)>> \o <<>> /\ leading' = leading => Rests(z, p + 1)'
  <2>1. Len(q) > 0 /\ Head(q) = q[1] /\ Tail(q) \in Seq(AnyAction) /\ Len(Tail(q)) = Len(q) - 1
        /\ \A j \in 1 .. Len(Tail(q)) : Tail(q)[j] = q[j + 1]
    BY <1>4, <1>6, HeadTailProperties
  <2>2. p < n /\ 1 \in 1 .. (n - p)
    BY <1>4, <2>1
  <2>3. NextAction = z[p + 1]
    BY <1>4, <2>1, <2>2 DEF NextAction
  <2>4. Len(Tail(q)) = n - (p + 1)
    BY <1>4, <2>1
  <2>5. ASSUME NEW j \in 1 .. (n - (p + 1)) PROVE Tail(q)[j] = z[p + 1 + j]
    <3>1. j + 1 \in 1 .. (n - p) /\ p + (j + 1) = p + 1 + j
      OBVIOUS
    <3> QED
      BY <1>4, <2>1, <2>4, <3>1
  <2> PICK r : r = Tail(q)
    OBVIOUS
  <2>6. ASSUME queue' = <<r>> \o <<>>, leading' = leading PROVE Rests(z, p + 1)'
    <3>1. r \in Seq(AnyAction) /\ Len(r) = n - (p + 1)
          /\ \A j \in 1 .. (n - (p + 1)) : r[j] = z[p + 1 + j]
      BY <2>1, <2>4, <2>5
    <3>2. queue' = <<r>>
      BY <2>6, <3>1
    <3>3. Len(queue') = 1 /\ queue'[1] = r
      BY <3>2
    <3> QED
      BY <1>1, <2>6, <3>1, <3>3 DEF Rests
  <2> QED
    BY <2>2, <2>3, <2>6
<1> QED
  BY <1>3, <1>4, <1>5, <1>6

LEMMA InsideRepair ==
  ASSUME TypeOK, RepairGoesOn, todo \in Families, stage = "build", mode = "extracted",
         ~faulty', Sound(todo, answer),
         Execute \/ ActionRaises \/ CallFails \/ DeletionIsSkipped \/ NextPart
  PROVE  RepairGoesOn'
<1> PICK f \in Families : f = todo
  OBVIOUS
<1> PICK part : part = answer[1]
  OBVIOUS
<1> PICK z : z = Normalized(f, part)
  OBVIOUS
<1>1. /\ answer \in Seq(Parts) /\ failed \in BOOLEAN /\ faulty \in BOOLEAN /\ f # NoFamily
  BY FamiliesAssumption DEF TypeOK
<1>2. z \in Seq(BuildAction) /\ Orderly(f, z)
  BY <1>1, SoundPlan DEF Repairs
<1> PICK n \in Nat : n = Len(z)
  BY <1>2
<1>3. /\ ~CallFails /\ ~DeletionIsSkipped /\ ~faulty /\ queue # <<>>
      /\ UNCHANGED <<stage, todo, mode, answer>>
  BY <1>1 DEF Execute, ActionRaises, CallFails, DeletionIsSkipped, NextPart, HasAction, AbandonPart
<1>4. ~failed /\ \E p \in 0 .. n : Made(f, z, p) /\ Rests(z, p)
  BY <1>1, <1>3 DEF RepairGoesOn
<1>5. PICK p \in 0 .. n : Made(f, z, p) /\ Rests(z, p)
  BY <1>4
<1>6. /\ Tail(queue) = <<>>
      /\ Head(queue) = <<>> => p = n
      /\ Head(queue) # <<>> =>
           /\ p < n /\ NextAction = z[p + 1]
           /\ queue' = <<Tail(Head(queue))>> \o Tail(queue) /\ leading' = leading =>
                Rests(z, p + 1)'
  BY <1>3, <1>5, RestsAreNext
<1>7. ASSUME Head(queue) # <<>>
      PROVE  ~Raises(NextAction) /\ (Perform(NextAction) => Made(f, z, p + 1)')
  <2> PICK a : a = NextAction
    OBVIOUS
  <2>1. a = z[p + 1] /\ p < n /\ p \in Nat
    BY <1>6, <1>7
  <2>2. ~Raises(a) /\ (Perform(a) => Made(f, z, p + 1)')
    BY <1>2, <1>5, <2>1, OneMoreMade
  <2> QED
    BY <2>2
<1>8. CASE Execute
  <2>1. /\ Head(queue) # <<>> /\ Perform(NextAction)
        /\ queue' = <<Tail(Head(queue))>> \o Tail(queue)
        /\ leading' = leading /\ failed' = failed
    BY <1>8 DEF Execute, HasAction
  <2>2. p + 1 \in 0 .. n /\ Made(f, z, p + 1)' /\ Rests(z, p + 1)'
    BY <1>6, <1>7, <2>1
  <2> QED
    BY <1>3, <1>4, <2>1, <2>2 DEF RepairGoesOn
<1>9. CASE ActionRaises
  BY <1>7, <1>9 DEF ActionRaises, HasAction
<1>10. CASE NextPart
  <2>1. Head(queue) = <<>> /\ queue' = <<>> /\ UNCHANGED <<sceneVars, failed>> /\ p = n
    BY <1>6, <1>10 DEF NextPart
  <2>2. n \in 0 .. n /\ Made(f, z, n)' /\ Rests(z, n)'
    BY <1>5, <2>1 DEF sceneVars, Made, Rests
  <2> QED
    BY <1>3, <1>4, <2>1, <2>2 DEF RepairGoesOn
<1> QED
  BY <1>3, <1>8, <1>9, <1>10

LEMMA NextRepair ==
  ASSUME TypeOK, RepairGoesOn, [Next]_vars
  PROVE  RepairGoesOn'
<1> SUFFICES ASSUME stage' = "build", todo' # NoFamily, mode' = "extracted", ~faulty',
                    Sound(todo', answer')
             PROVE  RepairGoesOn'
  BY DEF RepairGoesOn
<1>1. CASE Execute \/ ActionRaises \/ CallFails \/ DeletionIsSkipped \/ NextPart
  <2>1. stage = "build" /\ todo \in Families /\ mode = "extracted" /\ Sound(todo, answer)
    BY <1>1 DEF Execute, ActionRaises, CallFails, DeletionIsSkipped, NextPart, AbandonPart, TypeOK
  <2> QED
    BY <1>1, <2>1, InsideRepair
<1>2. ASSUME NEW f \in Families, BuildDirectly(f) \/ BuildByPython(f) \/ PlaceDirectly(f)
                                   \/ PlaceByPython(f)
      PROVE  FALSE
  BY <1>2 DEF BuildDirectly, BuildByPython, PlaceDirectly, PlaceByPython, Begin
<1>3. ASSUME NEW f \in Families, PlaceExtracted(f) PROVE FALSE
  BY <1>3 DEF PlaceExtracted, MayPlace, Begin
<1>4. ASSUME NEW f \in Families, BuildExtracted(f) PROVE RepairGoesOn'
  <2>1. PICK plan \in Plans[f] :
          Begin(f, "extracted", [k \in DOMAIN plan |-> Normalized(f, plan[k])], plan)
    BY <1>4 DEF BuildExtracted
  <2> PICK z : z = Normalized(f, plan[1])
    OBVIOUS
  <2>2. todo' = f /\ answer' = plan /\ failed' = FALSE /\ leading' = TRUE
        /\ queue' = [k \in DOMAIN plan |-> Normalized(f, plan[k])]
    BY <2>1 DEF Begin
  <2>3. plan \in Seq(Parts)
    BY PlansAssumption
  <2>4. z \in Seq(BuildAction) /\ Len(plan) = 1
    BY <2>2, <2>3, SoundPlan
  <2>5. queue' = <<z>>
    <3>1. DOMAIN plan = 1 .. 1
      BY <2>3, <2>4
    <3> QED
      BY <2>2, <3>1
  <2> PICK n \in Nat : n = Len(z)
    BY <2>4
  <2>6. n - 0 = n /\ 0 \in 0 .. n /\ \A j \in 1 .. n : 0 + j = j
    OBVIOUS
  <2>7. Rests(z, 0)'
    <3>1. Len(queue') = 1 /\ queue'[1] = z
      BY <2>5
    <3> QED
      BY <2>2, <2>6, <3>1 DEF Rests
  <2>8. Made(f, z, 0)'
    BY DEF Made
  <2> QED
    BY <2>2, <2>6, <2>7, <2>8 DEF RepairGoesOn
<1>5. ASSUME NEW f \in Families, FinishBuild(f) \/ FinishPlace(f) PROVE FALSE
  BY <1>5 DEF FinishBuild, FinishPlace
<1>6. ASSUME NEW f \in Families, NEW status, RefuseBuild(f, status) \/ RefusePlace(f)
      PROVE  FALSE
  BY <1>6 DEF RefuseBuild, RefusePlace, MayBuild, MayPlace, Idle, todoVars
<1>7. CASE RejectPlan \/ RejectPlacements \/ BuildPlanUnwritten \/ BuildRaises \/ AssemblyRaises
             \/ EndBuild \/ EndAssembly
  BY <1>7 DEF RejectPlan, RejectPlacements, BuildPlanUnwritten, BuildRaises, AssemblyRaises,
     PhaseRaises, EndBuild, EndAssembly, Idle, todoVars
<1>8. CASE UNCHANGED vars
  <2>1. /\ \A f, z, p : Made(f, z, p)' <=> Made(f, z, p)
        /\ \A z, p : Rests(z, p)' <=> Rests(z, p)
        /\ UNCHANGED <<stage, todo, mode, faulty, answer, failed>>
    BY <1>8 DEF vars, sceneVars, todoVars, Made, Rests
  <2> QED
    BY <2>1 DEF RepairGoesOn
<1> QED
  BY <1>1, <1>2, <1>3, <1>4, <1>5, <1>6, <1>7, <1>8 DEF Next

LEMMA InitRepair == Init => RepairGoesOn
  BY DEF Init, RepairGoesOn

(* The end of a repair.                                                    *)
Repaired ==
  \A f \in Families :
    built[f] = "pending" /\ todo = f /\ built'[f] # "pending"
      /\ mode = "extracted" /\ Sound(f, answer) /\ ~faulty =>
        /\ built'[f] = "built"
        /\ InstancesOf(f) \ answer[1].declared \subseteq present
        /\ InstancesOf(f) \subseteq answer[1].declared \/ Template(f) \notin present

LEMMA RepairEnds ==
  ASSUME TypeOK, RepairGoesOn, [Next]_vars
  PROVE  [Repaired]_vars
<1> SUFFICES ASSUME Next, NEW f \in Families, built[f] = "pending", todo = f,
                    built'[f] # "pending", mode = "extracted", Sound(f, answer), ~faulty
             PROVE  /\ built'[f] = "built"
                    /\ InstancesOf(f) \ answer[1].declared \subseteq present
                    /\ InstancesOf(f) \subseteq answer[1].declared \/ Template(f) \notin present
  BY DEF Repaired
<1>1. f # NoFamily
  BY FamiliesAssumption
<1>2. FinishBuild(f)
  <2>1. ASSUME Execute \/ ActionRaises \/ CallFails \/ DeletionIsSkipped \/ NextPart PROVE FALSE
    BY <2>1 DEF Execute, ActionRaises, CallFails, DeletionIsSkipped, NextPart, AbandonPart
  <2>2. ASSUME NEW g \in Families, NEW status,
               BuildDirectly(g) \/ BuildByPython(g) \/ BuildExtracted(g) \/ RefuseBuild(g, status)
                 \/ PlaceDirectly(g) \/ PlaceByPython(g) \/ PlaceExtracted(g) \/ RefusePlace(g)
        PROVE  FALSE
    BY <1>1, <2>2 DEF BuildDirectly, BuildByPython, BuildExtracted, RefuseBuild, PlaceDirectly,
       PlaceByPython, PlaceExtracted, RefusePlace, MayBuild, MayPlace, Idle
  <2>3. ASSUME NEW g \in Families, FinishPlace(g) PROVE FALSE
    BY <2>3 DEF FinishPlace
  <2>4. ASSUME RejectPlan \/ RejectPlacements \/ BuildPlanUnwritten \/ BuildRaises
                 \/ AssemblyRaises \/ EndBuild \/ EndAssembly
        PROVE  FALSE
    BY <1>1, <2>4 DEF RejectPlan, RejectPlacements, BuildPlanUnwritten, BuildRaises, AssemblyRaises,
       PhaseRaises, EndBuild, EndAssembly, Idle
  <2>5. ASSUME NEW g \in Families, FinishBuild(g) PROVE g = f
    BY <2>5 DEF FinishBuild
  <2> QED
    BY <2>1, <2>2, <2>3, <2>4, <2>5 DEF Next
<1> PICK part : part = answer[1]
  OBVIOUS
<1> PICK z : z = Normalized(f, part)
  OBVIOUS
<1>3. stage = "build" /\ queue = <<>>
  BY <1>2 DEF FinishBuild
<1>4. /\ z \in Seq(BuildAction) /\ Repairs(f, part.declared, z)
  BY SoundPlan DEF TypeOK
<1> PICK n \in Nat : n = Len(z)
  BY <1>4
<1>5. ~failed /\ \E p \in 0 .. n : Made(f, z, p) /\ Rests(z, p)
  BY <1>1, <1>3 DEF RepairGoesOn
<1>6. Made(f, z, n)
  BY <1>3, <1>5 DEF Rests
<1>7. built'[f] = "built"
  <2>1. PICK status \in BuildStatuses(f) : built' = [built EXCEPT ![f] = status]
    BY <1>2 DEF FinishBuild
  <2>2. status = "built"
    BY <1>5, <2>1 DEF BuildStatuses
  <2>3. f \in DOMAIN built
    BY DEF TypeOK
  <2> QED
    BY <2>1, <2>2, <2>3
<1>8. InstancesOf(f) \ part.declared \subseteq present
  BY <1>4, <1>6 DEF Repairs, Made
<1>9. InstancesOf(f) \subseteq part.declared \/ Template(f) \notin present
  BY <1>4, <1>6 DEF Repairs, Made
<1> QED
  BY <1>7, <1>8, <1>9

LEMMA AlwaysRepair == Spec => [](TypeOK /\ RepairGoesOn)
<1>1. Init => TypeOK /\ RepairGoesOn
  BY InitTypes, InitRepair
<1>2. TypeOK /\ RepairGoesOn /\ [Next]_vars => (TypeOK /\ RepairGoesOn)'
  BY NextTypes, NextRepair
<1> QED
  BY <1>1, <1>2, PTL DEF Spec

(* A plan of the model that is sound but leaves out instances is repaired  *)
(* (_normalize_extracted_build_part): unless Blender fails, the part is    *)
(* built, every instance the plan does not claim to have made is there, and*)
(* the template is gone unless the plan claims all.                        *)
THEOREM SoundIsRepaired == Spec => SoundPlanIsRepaired
<1>1. TypeOK /\ RepairGoesOn /\ [Next]_vars => [Repaired]_vars
  BY RepairEnds
<1>2. Spec => [][Repaired]_vars
  BY <1>1, AlwaysRepair, PTL DEF Spec
<1> QED
  BY <1>2 DEF SoundPlanIsRepaired, Repaired

-----------------------------------------------------------------------------
(* The inspection of what the phases left, and what the page is told.      *)

(* Every part that is approved, or being placed, was built, and so was the *)
(* part it hangs under.                                                    *)
Judged ==
  \A f \in Families :
    verdict[f] = "approved" \/ (stage = "assemble" /\ todo = f) => Available(f)

EveryVerdictIsIn == stage = "placed" => \A f \in Families : verdict[f] # "pending"

(* Nothing is validated before the phases are through.                     *)
ValidatedLate ==
  step # "closed" =>
    stage = "placed" \/ (stage = "raised" /\ \A f \in Families : built[f] # "pending")

(* The first check of the validation is about all listed instances.        *)
AllThere ==
  step \notin {"closed", "counts", "raised"} /\ "count" \notin errors => Listed \subseteq present

PassedClean == step = "passed" => errors = {} /\ PlanFailures = {}

(* What is shown is what there is to tell, and it does not change.         *)
ShownIsFinal ==
  shown # NotShown =>
    RunOver /\ shown.assembly = AssemblyStatus /\ shown.validation = ValidationStatus

RunInv ==
  /\ RunTypeOK /\ Whole
  /\ Judged /\ EveryVerdictIsIn
  /\ ValidatedLate /\ AllThere /\ PassedClean /\ ShownIsFinal

(* The Builder works in two stages only.                                   *)
LEMMA NextMeansWorking ==
  ASSUME Inv, Next
  PROVE  stage \in {"build", "assemble"}
<1>1. queue # <<>> \/ todo \in Families => stage \in {"build", "assemble"}
  BY FamiliesAssumption DEF Inv, TodoHasPhase
<1>2. CASE Execute \/ ActionRaises \/ CallFails \/ DeletionIsSkipped \/ NextPart
  BY <1>1, <1>2 DEF Execute, ActionRaises, CallFails, DeletionIsSkipped, NextPart, HasAction
<1>3. ASSUME NEW f \in Families, BuildDirectly(f) \/ BuildByPython(f) \/ BuildExtracted(f)
      PROVE  stage \in {"build", "assemble"}
  BY <1>3 DEF BuildDirectly, BuildByPython, BuildExtracted, MayBuild
<1>4. ASSUME NEW f \in Families, PlaceDirectly(f) \/ PlaceByPython(f) \/ PlaceExtracted(f)
      PROVE  stage \in {"build", "assemble"}
  BY <1>4 DEF PlaceDirectly, PlaceByPython, PlaceExtracted, MayPlace
<1>5. ASSUME NEW f \in Families, NEW status,
             RefuseBuild(f, status) \/ RefusePlace(f) \/ FinishBuild(f) \/ FinishPlace(f)
      PROVE  stage \in {"build", "assemble"}
  BY <1>5 DEF RefuseBuild, RefusePlace, FinishBuild, FinishPlace, MayBuild, MayPlace
<1>6. CASE RejectPlan \/ RejectPlacements \/ BuildPlanUnwritten \/ BuildRaises \/ AssemblyRaises
             \/ EndBuild \/ EndAssembly
  BY <1>6 DEF RejectPlan, RejectPlacements, BuildPlanUnwritten, BuildRaises, AssemblyRaises,
     EndBuild, EndAssembly, MayBuild, MayPlace
<1> QED
  BY <1>2, <1>3, <1>4, <1>5, <1>6 DEF Next

(* What a step does to the status of the builds and to the verdicts.       *)
LEMMA NextKeepsJudged ==
  ASSUME TypeOK, Inv, Judged, EveryVerdictIsIn, Next
  PROVE  Judged' /\ EveryVerdictIsIn'
<1>1. CASE Execute \/ ActionRaises \/ CallFails \/ DeletionIsSkipped \/ NextPart
  <2>1. UNCHANGED <<stage, built, verdict, todo>>
    <3>1. CASE Execute
      BY <3>1 DEF Execute
    <3>2. CASE ActionRaises
      BY <3>2 DEF ActionRaises, AbandonPart
    <3>3. CASE CallFails
      BY <3>3 DEF CallFails, AbandonPart
    <3>4. CASE DeletionIsSkipped
      BY <3>4 DEF DeletionIsSkipped
    <3>5. CASE NextPart
      BY <3>5 DEF NextPart
    <3> QED
      BY <1>1, <3>1, <3>2, <3>3, <3>4, <3>5
  <2> QED
    BY <2>1 DEF Judged, EveryVerdictIsIn, Available
<1>2. ASSUME stage = "build", stage' \in {"build", "stopped", "raised"}, verdict' = verdict
      PROVE  Judged' /\ EveryVerdictIsIn'
  BY <1>2 DEF Judged, EveryVerdictIsIn, Inv, NoEarlyVerdict
<1>3. ASSUME NEW f \in Families, BuildDirectly(f) \/ BuildByPython(f) \/ BuildExtracted(f)
      PROVE  Judged' /\ EveryVerdictIsIn'
  BY <1>2, <1>3 DEF BuildDirectly, BuildByPython, BuildExtracted, MayBuild, Begin
<1>4. ASSUME NEW f \in Families, NEW status, RefuseBuild(f, status) \/ FinishBuild(f)
      PROVE  Judged' /\ EveryVerdictIsIn'
  BY <1>2, <1>4 DEF RefuseBuild, FinishBuild, MayBuild
<1>5. CASE RejectPlan \/ BuildPlanUnwritten
  BY <1>2, <1>5 DEF RejectPlan, BuildPlanUnwritten
<1>6. CASE EndBuild
  <2>1. /\ stage = "build" /\ Idle /\ UNCHANGED <<built, verdict, todo>>
        /\ stage' \in {"stopped", "assemble"}
    BY <1>6 DEF EndBuild, todoVars
  <2> QED
    BY <2>1, FamiliesAssumption DEF Judged, EveryVerdictIsIn, Inv, NoEarlyVerdict, Idle
<1>7. CASE BuildRaises
  BY <1>2, <1>7 DEF BuildRaises, PhaseRaises, MayBuild
<1>8. CASE AssemblyRaises \/ EndAssembly
  <2>1. /\ stage' \in {"raised", "stopped", "placed"} /\ UNCHANGED <<built, verdict>>
        /\ stage' = "placed" => \A f \in Families : verdict[f] # "pending"
    BY <1>8 DEF AssemblyRaises, PhaseRaises, EndAssembly
  <2> QED
    BY <2>1 DEF Judged, EveryVerdictIsIn, Available
<1>9. ASSUME NEW f \in Families, PlaceDirectly(f) \/ PlaceByPython(f) \/ PlaceExtracted(f)
      PROVE  Judged' /\ EveryVerdictIsIn'
  <2>1. Available(f) /\ todo' = f /\ UNCHANGED <<stage, built, verdict>>
    BY <1>9 DEF PlaceDirectly, PlaceByPython, PlaceExtracted, Begin
  <2>2. stage = "assemble"
    BY <1>9 DEF PlaceDirectly, PlaceByPython, PlaceExtracted, MayPlace
  <2> QED
    BY <2>1, <2>2 DEF Judged, EveryVerdictIsIn, Available
<1>10. ASSUME NEW f \in Families, RefusePlace(f)
       PROVE  Judged' /\ EveryVerdictIsIn'
  <2>1. /\ stage = "assemble" /\ UNCHANGED <<stage, built, todo>>
        /\ verdict' = [verdict EXCEPT ![f] = "failed"]
    BY <1>10 DEF RefusePlace, MayPlace, todoVars
  <2>2. \A g \in Families : verdict'[g] = "approved" => verdict[g] = "approved"
    BY <2>1 DEF TypeOK
  <2> QED
    BY <2>1, <2>2 DEF Judged, EveryVerdictIsIn, Available
<1>11. ASSUME NEW f \in Families, FinishPlace(f)
       PROVE  Judged' /\ EveryVerdictIsIn'
  <2>1. /\ stage = "assemble" /\ todo = f /\ todo' = NoFamily /\ UNCHANGED <<stage, built>>
    BY <1>11 DEF FinishPlace
  <2>2. \A g \in Families : verdict'[g] = "approved" => verdict[g] = "approved" \/ g = f
    <3>1. PICK v : verdict' = [verdict EXCEPT ![f] = v]
      BY <1>11 DEF FinishPlace
    <3> QED
      BY <3>1 DEF TypeOK
  <2> QED
    BY <2>1, <2>2, FamiliesAssumption DEF Judged, EveryVerdictIsIn, Available
<1>12. CASE RejectPlacements
  <2>1. /\ stage = "assemble" /\ UNCHANGED <<stage, built, todo>> /\ todo = NoFamily
        /\ verdict' = [f \in Families |-> "failed"]
    BY <1>12 DEF RejectPlacements, todoVars, Idle
  <2> QED
    BY <2>1, FamiliesAssumption DEF Judged, EveryVerdictIsIn
<1> QED
  BY <1>1, <1>3, <1>4, <1>5, <1>6, <1>7, <1>8, <1>9, <1>10, <1>11, <1>12 DEF Next

(* A build lists instances of its own family only.                         *)
LEMMA NamesAreInstances ==
  ASSUME named \in [Families -> SUBSET Instances], NEW f \in Families
  PROVE  Named(f) \subseteq Instances
<1>1. Duplicated(f) \subseteq InstancesOf(f)
  BY DEF Duplicated
<1>2. InstancesOf(f) \subseteq Instances
  BY InstanceIsObject
<1> QED
  BY <1>1, <1>2 DEF Named

LEMMA InitRun == RunInit => RunInv
<1> SUFFICES ASSUME RunInit PROVE RunInv
  OBVIOUS
<1>1. Whole /\ TypeOK
  BY InitWhole, InitTypes DEF RunInit
<1>2. RunTypeOK
  BY <1>1 DEF RunInit, RunTypeOK, NotShown
<1>3. Judged /\ EveryVerdictIsIn
  BY FamiliesAssumption DEF RunInit, Init, Judged, EveryVerdictIsIn
<1> QED
  BY <1>1, <1>2, <1>3 DEF RunInit, RunInv, ValidatedLate, AllThere, PassedClean, ShownIsFinal

(* While the phases work the validation has not begun.                     *)
LEMMA PhasesKeepRunInv == RunInv /\ BuildAndPlace => RunInv'
<1> SUFFICES ASSUME RunInv, BuildAndPlace PROVE RunInv'
  OBVIOUS
<1>1. TypeOK /\ Inv /\ Next /\ Whole
  BY DEF RunInv, Whole, BuildAndPlace
<1>2. stage \in {"build", "assemble"}
  BY <1>1, NextMeansWorking
<1>3. Whole' /\ TypeOK'
  BY <1>1, NextWhole DEF Whole
<1>4. Judged' /\ EveryVerdictIsIn'
  BY <1>1, NextKeepsJudged DEF RunInv
<1>5. UNCHANGED <<step, errors, speeches, shown>>
  BY DEF BuildAndPlace, inspectionVars
<1>6. step = "closed" /\ shown = NotShown
  BY <1>2 DEF RunInv, ValidatedLate, ShownIsFinal, RunOver
<1>7. RunTypeOK'
  <2>1. named' \in [Families -> SUBSET Instances]
    BY NamesAreInstances DEF BuildAndPlace, RunInv, RunTypeOK
  <2>2. gaps' \subseteq Families
    BY DEF BuildAndPlace, RunInv, RunTypeOK, Gaps
  <2> QED
    BY <1>3, <1>5, <2>1, <2>2 DEF RunInv, RunTypeOK
<1> QED
  BY <1>3, <1>4, <1>5, <1>6, <1>7
     DEF RunInv, ValidatedLate, AllThere, PassedClean, ShownIsFinal

(* The inspection changes nothing it looks at.                             *)
Looks == UNCHANGED <<vars, named, gaps>>

LEMMA LookingKeeps ==
  ASSUME RunInv, Looks
  PROVE  /\ Whole' /\ TypeOK' /\ Judged' /\ EveryVerdictIsIn'
         /\ named' \in [Families -> SUBSET Instances] /\ gaps' \subseteq Families
         /\ Listed' = Listed /\ PlanFailures' = PlanFailures /\ AssemblyStatus' = AssemblyStatus
         /\ stage' = stage /\ present' = present /\ built' = built
<1>1. UNCHANGED vars /\ named' = named /\ gaps' = gaps
  BY DEF Looks
<1>2. Whole'
  BY <1>1, NextWhole DEF RunInv
<1>3. UNCHANGED <<ao, stage, built, verdict, present, todo>>
  BY <1>1 DEF vars, sceneVars, todoVars
<1>4. Judged' /\ EveryVerdictIsIn'
  BY <1>3 DEF RunInv, Judged, EveryVerdictIsIn, Available
<1>5. Listed' = Listed
  BY <1>1 DEF Listed
<1>6. PlanFailures' = PlanFailures
  BY <1>1, <1>3 DEF PlanFailures, Assembled, Unready
<1>7. AssemblyStatus' = AssemblyStatus
  BY <1>3 DEF AssemblyStatus
<1> QED
  BY <1>1, <1>2, <1>3, <1>4, <1>5, <1>6, <1>7 DEF RunInv, RunTypeOK, Whole

LEMMA ValidationKeepsRunInv ==
  ASSUME RunInv, Looks,
         step \notin {"passed", "failed", "raised"}, shown' = shown, speeches' \in 0 .. 3,
         errors' \subseteq {"count", "dimensions", "position", "parenting", "symmetry", "planning"},
         step' \in {"counts", "dimensions", "positions", "parenting", "symmetry",
                    "inspector", "passed", "failed", "raised"},
         stage = "placed" \/ (stage = "raised" /\ \A f \in Families : built[f] # "pending"),
         step' \notin {"counts", "raised"} /\ "count" \notin errors' => Listed \subseteq present,
         step' = "passed" => errors' = {} /\ PlanFailures = {}
  PROVE  RunInv'
<1>1. shown = NotShown
  BY DEF RunInv, ShownIsFinal, RunOver
<1> QED
  BY <1>1, LookingKeeps
     DEF RunInv, RunTypeOK, ValidatedLate, AllThere, PassedClean, ShownIsFinal


(* One check after the other: what is known of the step before it.         *)
LEMMA ChecksKeepRunInv ==
  ASSUME RunInv, OpenValidation \/ CheckCounts \/ CheckDimensions \/ CheckPositions
                   \/ CheckParenting \/ CheckSymmetry \/ Speak \/ Judge \/ ValidationRaises
  PROVE  RunInv'
<1>1. /\ errors \subseteq {"count", "dimensions", "position", "parenting", "symmetry", "planning"}
      /\ speeches \in 0 .. 3
      /\ step \notin {"closed", "counts", "raised"} /\ "count" \notin errors => Listed \subseteq present
  BY DEF RunInv, RunTypeOK, AllThere
<1>2. ASSUME step # "closed"
      PROVE  stage = "placed" \/ (stage = "raised" /\ \A f \in Families : built[f] # "pending")
  BY <1>2 DEF RunInv, ValidatedLate
<1>3. CASE OpenValidation
  <2>1. /\ step = "closed" /\ step' = "counts" /\ errors' = errors /\ Looks
        /\ shown' = shown /\ speeches' = speeches
    BY <1>3 DEF OpenValidation, At, GoOn, Looks
  <2>2. stage = "placed" \/ (stage = "raised" /\ \A f \in Families : built[f] # "pending")
    BY <1>3 DEF OpenValidation, Assembled
  <2> QED
    BY <1>1, <2>1, <2>2, ValidationKeepsRunInv
<1>4. CASE CheckCounts
  <2>1. /\ step = "counts" /\ step' = "dimensions" /\ Looks
        /\ shown' = shown /\ speeches' = speeches
        /\ errors' = IF \E f \in Families : ~(named[f] \subseteq present)
                       THEN errors \cup {"count"} ELSE errors
    BY <1>4 DEF CheckCounts, At, GoOn, Looks, Found
  <2>2. "count" \notin errors' => Listed \subseteq present
    BY <2>1 DEF Listed
  <2> QED
    BY <1>1, <1>2, <2>1, <2>2, ValidationKeepsRunInv
<1>5. CASE CheckDimensions \/ CheckPositions \/ CheckParenting \/ CheckSymmetry
  <2>1. /\ step \in {"dimensions", "positions", "parenting", "symmetry"}
        /\ step' \in {"positions", "parenting", "symmetry", "inspector"}
        /\ Looks /\ shown' = shown /\ speeches' = speeches
    BY <1>5 DEF CheckDimensions, CheckPositions, CheckParenting, CheckSymmetry, At, GoOn, Looks
  <2>2. errors' \in {errors} \cup
          {errors \cup {kind} : kind \in {"dimensions", "position", "parenting", "symmetry"}}
    <3>1. CASE CheckDimensions
      BY <3>1 DEF CheckDimensions, Found
    <3>2. CASE CheckPositions
      BY <3>2 DEF CheckPositions, Found
    <3>3. CASE CheckParenting
      BY <3>3 DEF CheckParenting, Found
    <3>4. CASE CheckSymmetry
      BY <3>4 DEF CheckSymmetry, Found
    <3> QED
      BY <1>5, <3>1, <3>2, <3>3, <3>4
  <2>3. /\ errors \subseteq errors'
        /\ errors' \subseteq {"count", "dimensions", "position", "parenting", "symmetry", "planning"}
    BY <1>1, <2>2
  <2> QED
    BY <1>1, <1>2, <2>1, <2>3, ValidationKeepsRunInv
<1>6. CASE Speak
  <2>1. /\ step = "inspector" /\ step' = step /\ errors' = errors /\ Looks
        /\ shown' = shown /\ speeches < 3 /\ speeches' = speeches + 1
    BY <1>6 DEF Speak, At, Looks
  <2>2. speeches' \in 0 .. 3
    BY <1>1, <2>1
  <2> QED
    BY <1>1, <1>2, <2>1, <2>2, ValidationKeepsRunInv
<1>7. CASE Judge
  <2>1. PICK more \in SUBSET MayNameParent :
          /\ errors' = IF PlanFailures \cup more # {} THEN errors \cup {"planning"} ELSE errors
          /\ step' = IF errors' = {} THEN "passed" ELSE "failed"
    BY <1>7 DEF Judge, GoOn, Found
  <2>2. step = "inspector" /\ Looks /\ shown' = shown /\ speeches' = speeches
    BY <1>7 DEF Judge, At, GoOn, Looks
  <2>3. step' = "passed" => errors' = {} /\ PlanFailures = {}
    BY <2>1
  <2>4. /\ errors \subseteq errors' /\ step' \in {"passed", "failed"}
        /\ errors' \subseteq {"count", "dimensions", "position", "parenting", "symmetry", "planning"}
    BY <1>1, <2>1
  <2> QED
    BY <1>1, <1>2, <2>2, <2>3, <2>4, ValidationKeepsRunInv
<1>8. CASE ValidationRaises
  <2>1. /\ step \in {"counts", "inspector"} /\ step' = "raised" /\ errors' = errors /\ Looks
        /\ shown' = shown /\ speeches' = speeches
    BY <1>8 DEF ValidationRaises, At, GoOn, Looks
  <2> QED
    BY <1>1, <1>2, <2>1, ValidationKeepsRunInv
<1> QED
  BY <1>3, <1>4, <1>5, <1>6, <1>7, <1>8

LEMMA ReportKeepsRunInv == RunInv /\ Report => RunInv'
<1> SUFFICES ASSUME RunInv, Report PROVE RunInv'
  OBVIOUS
<1>1. RunOver /\ Looks /\ UNCHANGED <<step, errors, speeches>>
  BY DEF Report, Looks
<1>2. shown' = [parts |-> [f \in Families |-> PartStatus(f)],
                assembly |-> AssemblyStatus, validation |-> ValidationStatus]
  BY DEF Report
<1>3. \A f \in Families : PartStatus(f) \in {"pending", "approved", "failed"}
  BY DEF PartStatus, RunInv, RunTypeOK, TypeOK
<1>4. AssemblyStatus \in {"pending", "completed"} /\ ValidationStatus \in {"completed", "failed"}
  BY DEF AssemblyStatus, ValidationStatus
<1>5. shown' \in [parts : [Families -> {"pending", "approved", "failed"}],
                   assembly : {"pending", "completed"},
                   validation : {"pending", "completed", "failed"}]
  BY <1>2, <1>3, <1>4
<1>6. shown'.assembly = AssemblyStatus /\ shown'.validation = ValidationStatus
  BY <1>2
<1>7. RunOver' /\ ValidationStatus' = ValidationStatus
  BY <1>1, LookingKeeps DEF RunOver, ValidationStatus
<1> QED
  BY <1>1, <1>5, <1>6, <1>7, LookingKeeps
     DEF RunInv, RunTypeOK, ValidatedLate, AllThere, PassedClean, ShownIsFinal

LEMMA NextRun == RunInv /\ [RunNext]_allVars => RunInv'
<1> SUFFICES ASSUME RunInv, [RunNext]_allVars PROVE RunInv'
  OBVIOUS
<1>1. ASSUME UNCHANGED allVars PROVE RunInv'
  <2>1. Looks /\ UNCHANGED <<step, errors, speeches, shown>>
    BY <1>1 DEF Looks, allVars, inspectionVars
  <2>2. ValidationStatus' = ValidationStatus /\ RunOver' = RunOver
    BY <2>1, LookingKeeps DEF ValidationStatus, RunOver
  <2> QED
    BY <2>1, <2>2, LookingKeeps
       DEF RunInv, RunTypeOK, ValidatedLate, AllThere, PassedClean, ShownIsFinal
<1> QED
  BY <1>1, PhasesKeepRunInv, ChecksKeepRunInv, ReportKeepsRunInv DEF RunNext

LEMMA AlwaysRunInv == RunSpec => []RunInv
  BY InitRun, NextRun, PTL DEF RunSpec

(* Every variable of a run keeps its type to the final snapshot: names of  *)
(* instances only are listed, and the inspector speaks three times and no  *)
(* more (run of phases/build_phase.py and of phases/validate_phase.py).    *)
THEOREM RunTypeCorrect == RunSpec => []RunTypeOK
<1>1. RunInv => RunTypeOK
  BY DEF RunInv
<1> QED
  BY <1>1, AlwaysRunInv, PTL

(* What approved parts and the gate promise holds in whole runs too, the   *)
(* validation included: it only looks (Pipeline.run).                      *)
THEOREM RunKeepsApproved == RunSpec => []ApprovedPartsStand
<1>1. RunInv => ApprovedPartsStand
  BY DEF RunInv, Whole, Inv
<1> QED
  BY <1>1, AlwaysRunInv, PTL

THEOREM RunPlacesAll == RunSpec => []PlacedModelIsComplete
<1>1. RunInv => PlacedModelIsComplete
  BY DEF RunInv, Whole, Inv, GateMeansApproval, AllApproved, ApprovedPartsStand,
         PlacedModelIsComplete
<1> QED
  BY <1>1, AlwaysRunInv, PTL

(* The snapshot the page gets at the end of a run (final_artifact_to_...)  *)
(* tells no more than the scene holds: a completed assembly stands, and a  *)
(* validation that passed found every listed instance, no orphan, and no   *)
(* part missing that was not reported as failed.                           *)
THEOREM SnapshotTellsNoMore == RunSpec => []SnapshotIsCovered
<1> SUFFICES ASSUME RunInv PROVE SnapshotIsCovered
  BY AlwaysRunInv, PTL
<1>1. ApprovedPartsStand /\ GateMeansApproval /\ Judged /\ EveryVerdictIsIn /\ TypeOK
  BY DEF RunInv, Whole, Inv
<1>2. ASSUME shown.assembly = "completed" PROVE \A f \in Families : Stands(f)
  <2>1. AssemblyStatus = "completed"
    BY <1>2 DEF RunInv, ShownIsFinal, NotShown
  <2> QED
    BY <1>1, <2>1 DEF AssemblyStatus, ApprovedPartsStand
<1>3. ASSUME shown.validation = "completed"
      PROVE  /\ Listed \subseteq present
             /\ Assembled => Orphaned = {}
             /\ Assembled => \A f \in Families : Stands(f) \/ verdict[f] = "failed"
  <2>1. step = "passed"
    BY <1>3 DEF RunInv, ShownIsFinal, NotShown, ValidationStatus
  <2>2. errors = {} /\ PlanFailures = {}
    BY <2>1 DEF RunInv, PassedClean
  <2>3. Listed \subseteq present
    BY <2>1, <2>2 DEF RunInv, AllThere
  <2>4. ASSUME Assembled PROVE Orphaned = {}
    <3>1. CASE ao
      BY <1>1, <2>4, <3>1 DEF Assembled, GateMeansApproval, AllApproved, Judged, Available,
         Orphaned, Unready
    <3>2. CASE ~ao
      BY <2>2, <2>4, <3>2 DEF PlanFailures, Orphaned
    <3> QED
      BY <3>1, <3>2
  <2>5. ASSUME Assembled, NEW f \in Families PROVE Stands(f) \/ verdict[f] = "failed"
    BY <1>1, <2>5 DEF Assembled, EveryVerdictIsIn, ApprovedPartsStand, TypeOK
  <2> QED
    BY <2>3, <2>4, <2>5
<1> QED
  BY <1>2, <1>3 DEF SnapshotIsCovered

(* So it is in whole runs: the validation does not touch the parts.        *)
THEOREM RunRepairsSound == RunSpec => SoundPlanIsRepaired
<1>1. RunInit => RepairGoesOn
  BY InitRepair DEF RunInit
<1>2. ASSUME RunInv, [RunNext]_allVars PROVE TypeOK /\ [Next]_vars
  <2>1. CASE BuildAndPlace
    BY <1>2, <2>1 DEF BuildAndPlace, RunInv, Whole
  <2>2. CASE UNCHANGED vars
    BY <1>2, <2>2 DEF RunInv, Whole
  <2> QED
    BY <1>2, <2>1, <2>2
       DEF RunNext, allVars, OpenValidation, CheckCounts, CheckDimensions, CheckPositions,
           CheckParenting, CheckSymmetry, Speak, Judge, ValidationRaises, Report, GoOn
<1>3. RunInv /\ RepairGoesOn /\ [RunNext]_allVars => RepairGoesOn' /\ [Repaired]_vars
  BY <1>2, NextRepair, RepairEnds
<1>4. RunSpec => [][Repaired]_vars
  BY <1>1, <1>3, AlwaysRunInv, PTL DEF RunSpec
<1> QED
  BY <1>4 DEF SoundPlanIsRepaired, Repaired
=============================================================================
