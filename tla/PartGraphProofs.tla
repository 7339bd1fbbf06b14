-------------------------- MODULE PartGraphProofs --------------------------
(***************************************************************************)
(* Proofs about the operators of PartGraph, for every job with finitely    *)
(* many families: a family has one layer, the one after its parent's, and  *)
(* the layers leave out exactly the families that are orphans or hang      *)
(* under one.                                                              *)
(***************************************************************************)
EXTENDS PartGraph, SublistProofs

-----------------------------------------------------------------------------
(* The recursive definitions have the solutions their equations describe.  *)

NextLayer(job, set) == UNION {Children(job, p) : p \in set}

LayersOf(job, k, g) ==
  g = [n \in 1 .. k |-> IF n = 1 THEN Children(job, NoFamily)
                        ELSE UNION {Children(job, p) : p \in g[n - 1]}]

LEMMA LayersExist ==
  ASSUME NEW job, NEW k \in Nat
  PROVE  \E g : LayersOf(job, k, g)
<1> DEFINE Solves(g, j) ==
      g = [n \in 1 .. j |-> IF n = 1 THEN Children(job, NoFamily) ELSE NextLayer(job, g[n - 1])]
    S == {j \in Nat : \E g : Solves(g, j)}
<1>1. 0 \in S
  <2>1. Solves([n \in 1 .. 0 |-> {}], 0)
    OBVIOUS
  <2> QED
    BY <2>1
<1>2. ASSUME NEW j \in Nat, j \in S PROVE j + 1 \in S
  <2>1. PICK g : Solves(g, j)
    BY <1>2
  <2> DEFINE h == [n \in 1 .. (j + 1) |->
                     IF n = 1 THEN Children(job, NoFamily) ELSE NextLayer(job, g[n - 1])]
  <2>2. \A n \in 1 .. j : h[n] = g[n]
    BY <2>1
  <2>3. \A n \in 1 .. (j + 1) : n # 1 => n - 1 \in 1 .. j
    OBVIOUS
  <2>4. \A n \in 1 .. (j + 1) :
          h[n] = IF n = 1 THEN Children(job, NoFamily) ELSE NextLayer(job, h[n - 1])
    <3> TAKE n \in 1 .. (j + 1)
    <3>1. CASE n = 1
      BY <3>1
    <3>2. CASE n # 1
      <4>1. h[n - 1] = g[n - 1]
        BY <2>2, <2>3, <3>2
      <4>2. h[n] = NextLayer(job, g[n - 1])
        BY <3>2
      <4> QED
        BY <3>2, <4>1, <4>2
    <3> QED
      BY <3>1, <3>2
  <2>5. DOMAIN h = 1 .. (j + 1) /\ h = [n \in DOMAIN h |-> h[n]]
    OBVIOUS
  <2> HIDE DEF h
  <2>6. Solves(h, j + 1)
    BY <2>4, <2>5
  <2> QED
    BY <2>6
<1> HIDE DEF S
<1>3. k \in S
  BY <1>1, <1>2, Induction
<1> QED
  BY <1>3 DEF S, NextLayer, LayersOf

(* Layer 1 are the roots, layer n the children of those of layer n - 1.    *)
LEMMA Layers ==
  ASSUME NEW job, IsFiniteSet(job.families)
  PROVE  LET K == Cardinality(job.families)
         IN  /\ K \in Nat /\ DOMAIN Layer(job) = 1 .. K
             /\ 1 \in 1 .. K => Layer(job)[1] = Children(job, NoFamily)
             /\ \A n \in 1 .. K : n # 1 =>
                  Layer(job)[n] = NextLayer(job, Layer(job)[n - 1])
<1> DEFINE K == Cardinality(job.families)
<1>1. K \in Nat
  BY FS_CardinalityType
<1>2. \E g : LayersOf(job, K, g)
  BY <1>1, LayersExist
<1>3. Layer(job) = CHOOSE g : LayersOf(job, K, g)
  BY DEF Layer, LayersOf
<1>4. LayersOf(job, K, Layer(job))
  BY <1>2, <1>3
<1> HIDE DEF K
<1>5. DOMAIN Layer(job) = 1 .. K
  BY <1>4 DEF LayersOf
<1>6. \A n \in 1 .. K : Layer(job)[n] = IF n = 1 THEN Children(job, NoFamily)
                                        ELSE NextLayer(job, Layer(job)[n - 1])
  BY <1>4 DEF LayersOf, NextLayer
<1> QED
  BY <1>1, <1>5, <1>6 DEF K

(* The parents of a set of families, as far as they are families, and the  *)
(* equation of the sets of which Ancestors takes the union.                *)
ParentsOf(job, set) == {job.parent[g] : g \in set} \cap job.families

GenerationsOf(job, f, k, g) ==
  g = [n \in 0 .. k |-> IF n = 0 THEN {f} \cap job.families
                        ELSE {job.parent[h] : h \in g[n - 1]} \cap job.families]

LEMMA GenerationsExist ==
  ASSUME NEW job, NEW f, NEW k \in Nat
  PROVE  \E g : GenerationsOf(job, f, k, g)
<1> DEFINE first == {f} \cap job.families
           Solves(g, j) ==
             g = [n \in 0 .. j |-> IF n = 0 THEN first ELSE ParentsOf(job, g[n - 1])]
           S == {j \in Nat : \E g : Solves(g, j)}
<1>1. 0 \in S
  <2>1. Solves([n \in 0 .. 0 |-> first], 0)
    OBVIOUS
  <2> QED
    BY <2>1
<1>2. ASSUME NEW j \in Nat, j \in S PROVE j + 1 \in S
  <2>1. PICK g : Solves(g, j)
    BY <1>2
  <2> DEFINE h == [n \in 0 .. (j + 1) |-> IF n = 0 THEN first ELSE ParentsOf(job, g[n - 1])]
  <2> HIDE DEF first
  <2>2. \A n \in 0 .. j : h[n] = g[n]
    BY <2>1
  <2>3. \A n \in 0 .. (j + 1) : n # 0 => n - 1 \in 0 .. j
    OBVIOUS
  <2>4. \A n \in 0 .. (j + 1) : h[n] = IF n = 0 THEN first ELSE ParentsOf(job, h[n - 1])
    <3> TAKE n \in 0 .. (j + 1)
    <3>1. CASE n = 0
      BY <3>1
    <3>2. CASE n # 0
      <4>1. h[n - 1] = g[n - 1]
        BY <2>2, <2>3, <3>2
      <4>2. h[n] = ParentsOf(job, g[n - 1])
        BY <3>2
      <4> QED
        BY <3>2, <4>1, <4>2
    <3> QED
      BY <3>1, <3>2
  <2>5. DOMAIN h = 0 .. (j + 1) /\ h = [n \in DOMAIN h |-> h[n]]
    OBVIOUS
  <2> HIDE DEF h
  <2>6. Solves(h, j + 1)
    BY <2>4, <2>5
  <2> QED
    BY <2>6
<1> HIDE DEF S
<1>3. k \in S
  BY <1>1, <1>2, Induction
<1> QED
  BY <1>3 DEF S, ParentsOf, GenerationsOf

Generations(job, f) ==
  CHOOSE g : GenerationsOf(job, f, Cardinality(job.families), g)

LEMMA AncestorGenerations ==
  ASSUME NEW job, IsFiniteSet(job.families), NEW f
  PROVE  LET K == Cardinality(job.families)
             up == Generations(job, f)
         IN  /\ up[0] = {f} \cap job.families
             /\ \A n \in 0 .. K : n # 0 => up[n] = ParentsOf(job, up[n - 1])
             /\ Ancestors(job, f) = UNION {up[n] : n \in 1 .. K}
<1> DEFINE K == Cardinality(job.families)
<1>1. K \in Nat
  BY FS_CardinalityType
<1>2. \E g : GenerationsOf(job, f, K, g)
  BY <1>1, GenerationsExist
<1>3. GenerationsOf(job, f, K, Generations(job, f))
  BY <1>2 DEF Generations
<1>4. Ancestors(job, f) = UNION {Generations(job, f)[n] : n \in 1 .. K}
  BY DEF Ancestors, Generations, GenerationsOf
<1> HIDE DEF K
<1>5. 0 \in 0 .. K
  BY <1>1
<1>6. \A n \in 0 .. K :
        Generations(job, f)[n] = IF n = 0 THEN {f} \cap job.families
                                 ELSE ParentsOf(job, Generations(job, f)[n - 1])
  BY <1>3 DEF GenerationsOf, ParentsOf
<1> QED
  BY <1>4, <1>5, <1>6 DEF K

-----------------------------------------------------------------------------
Sane(job) == IsFiniteSet(job.families) /\ NoFamily \notin job.families

(* Who is in a layer: in the first one the roots, in every other one those *)
(* whose parent is in the layer before.                                    *)
LEMMA LayerMembers ==
  ASSUME NEW job, Sane(job), NEW n \in 1 .. Cardinality(job.families), NEW f
  PROVE  f \in Layer(job)[n] <=>
           /\ f \in job.families
           /\ n = 1 => job.parent[f] = NoFamily
           /\ n # 1 => job.parent[f] \in Layer(job)[n - 1]
<1> DEFINE K == Cardinality(job.families)
<1> HIDE DEF K
<1>1. /\ K \in Nat /\ n \in 1 .. K
      /\ 1 \in 1 .. K => Layer(job)[1] = Children(job, NoFamily)
      /\ \A i \in 1 .. K : i # 1 => Layer(job)[i] = NextLayer(job, Layer(job)[i - 1])
  BY Layers DEF Sane, K
<1>2. CASE n = 1
  BY <1>1, <1>2 DEF Children
<1>3. CASE n # 1
  BY <1>1, <1>3 DEF NextLayer, Children
<1> QED
  BY <1>2, <1>3

LEMMA PlannedMembers ==
  ASSUME NEW job, Sane(job)
  PROVE  /\ \A f : f \in Planned(job) <=>
                     \E n \in 1 .. Cardinality(job.families) : f \in Layer(job)[n]
         /\ Planned(job) \subseteq job.families
<1>1. DOMAIN Layer(job) = 1 .. Cardinality(job.families)
  BY Layers DEF Sane
<1>2. \A f : f \in Planned(job) <=>
               \E n \in 1 .. Cardinality(job.families) : f \in Layer(job)[n]
  BY <1>1 DEF Planned
<1> QED
  BY <1>2, LayerMembers

(* A family has one layer.                                                 *)
LEMMA OneLayer ==
  ASSUME NEW job, Sane(job),
         NEW n \in 1 .. Cardinality(job.families), NEW k \in 1 .. Cardinality(job.families),
         NEW f, f \in Layer(job)[n], f \in Layer(job)[k]
  PROVE  n = k
<1> DEFINE K == Cardinality(job.families)
           Only(i) == \A j \in 1 .. K : \A g \in job.families :
                        i \in 1 .. K /\ g \in Layer(job)[i] /\ g \in Layer(job)[j] => i = j
           S == {i \in Nat : Only(i)}
<1>1. K \in Nat
  BY FS_CardinalityType DEF Sane
<1>2. NoFamily \notin job.families
  BY DEF Sane
<1>3. \A i \in 1 .. K : \A g : g \in Layer(job)[i] =>
        /\ g \in job.families
        /\ i = 1 => job.parent[g] = NoFamily
        /\ i # 1 => job.parent[g] \in Layer(job)[i - 1]
  BY LayerMembers
<1> HIDE DEF K
<1>4. 0 \in S
  BY <1>1
<1>5. ASSUME NEW i \in Nat, i \in S PROVE i + 1 \in S
  <2>1. SUFFICES ASSUME NEW j \in 1 .. K, NEW g \in job.families, i + 1 \in 1 .. K,
                        g \in Layer(job)[i + 1], g \in Layer(job)[j]
                 PROVE  i + 1 = j
    OBVIOUS
  <2>2. CASE i = 0
    <3>1. job.parent[g] = NoFamily
      BY <1>3, <2>1, <2>2
    <3>2. ASSUME j # 1 PROVE FALSE
      <4>1. job.parent[g] \in Layer(job)[j - 1] /\ j - 1 \in 1 .. K
        BY <1>1, <1>3, <2>1, <3>2
      <4> QED
        BY <1>2, <1>3, <3>1, <4>1
    <3> QED
      BY <2>2, <3>2
  <2>3. CASE i # 0
    <3>1. i + 1 # 1 /\ i \in 1 .. K /\ i + 1 - 1 = i
      BY <1>1, <2>1, <2>3
    <3>2. job.parent[g] \in Layer(job)[i]
      BY <1>3, <2>1, <3>1
    <3>3. job.parent[g] \in job.families
      BY <1>3, <3>1, <3>2
    <3>4. j # 1
      BY <1>2, <1>3, <2>1, <3>3
    <3>5. job.parent[g] \in Layer(job)[j - 1] /\ j - 1 \in 1 .. K
      BY <1>1, <1>3, <2>1, <3>4
    <3>6. i = j - 1
      BY <1>5, <3>1, <3>2, <3>3, <3>5
    <3> QED
      BY <1>1, <3>6
  <2> QED
    BY <2>2, <2>3
<1> HIDE DEF S
<1>6. Nat \subseteq S
  BY <1>4, <1>5, Induction
<1>7. n \in S /\ n \in 1 .. K /\ k \in 1 .. K
  BY <1>1, <1>6 DEF K
<1>8. f \in job.families
  BY <1>3, <1>7
<1> QED
  BY <1>7, <1>8 DEF S

(* The parent of a family that has one and is planned is planned for the   *)
(* layer before.                                                           *)
LEMMA ParentIsEarlier ==
  ASSUME NEW job, Sane(job), NEW f \in Planned(job), job.parent[f] # NoFamily
  PROVE  /\ job.parent[f] \in Planned(job)
         /\ LayerOf(job, job.parent[f]) < LayerOf(job, f)
<1> DEFINE K == Cardinality(job.families)
           p == job.parent[f]
<1>1. K \in Nat /\ DOMAIN Layer(job) = 1 .. K
  BY Layers DEF Sane
<1>2. \A n, k \in 1 .. K : \A g : g \in Layer(job)[n] /\ g \in Layer(job)[k] => n = k
  BY OneLayer
<1>3. \A g \in Planned(job) :
        LayerOf(job, g) \in 1 .. K /\ g \in Layer(job)[LayerOf(job, g)]
  BY <1>1, PlannedMembers DEF LayerOf
<1>4. PICK n \in 1 .. K : n = LayerOf(job, f) /\ f \in Layer(job)[n]
  BY <1>3
<1>5. n # 1 /\ p \in Layer(job)[n - 1]
  BY <1>4, LayerMembers
<1> HIDE DEF K, p
<1>6. n - 1 \in 1 .. K /\ n \in Nat
  BY <1>1, <1>5
<1>7. p \in Planned(job)
  BY <1>5, <1>6, PlannedMembers DEF K
<1>8. LayerOf(job, p) = n - 1
  BY <1>2, <1>3, <1>5, <1>6, <1>7
<1>9. LayerOf(job, p) < LayerOf(job, f)
  BY <1>4, <1>6, <1>8
<1> QED
  BY <1>7, <1>9 DEF p

(* There are enough layers: the child of a planned family is planned.  If  *)
(* the last layer had children, one member of every layer and the child    *)
(* would be more families than there are.                                  *)
LEMMA ChildIsPlanned ==
  ASSUME NEW job, Sane(job), NEW g \in job.families, job.parent[g] \in Planned(job)
  PROVE  g \in Planned(job)
<1> DEFINE K == Cardinality(job.families)
<1>1. K \in Nat /\ IsFiniteSet(job.families)
  BY FS_CardinalityType DEF Sane
<1>2. \A f : f \in Planned(job) <=> \E n \in 1 .. K : f \in Layer(job)[n]
  BY PlannedMembers
<1>3. PICK n \in 1 .. K : job.parent[g] \in Layer(job)[n]
  BY <1>2
<1>4. \A i \in 1 .. K : \A f : f \in Layer(job)[i] <=>
        /\ f \in job.families
        /\ i = 1 => job.parent[f] = NoFamily
        /\ i # 1 => job.parent[f] \in Layer(job)[i - 1]
  BY LayerMembers
<1>5. \A i, j \in 1 .. K : \A f : f \in Layer(job)[i] /\ f \in Layer(job)[j] => i = j
  BY OneLayer
<1>6. CASE n + 1 \in 1 .. K
  <2>1. n + 1 # 1 /\ n + 1 - 1 = n
    BY <1>3
  <2>2. g \in Layer(job)[n + 1]
    BY <1>3, <1>4, <1>6, <2>1
  <2> QED
    BY <1>2, <1>6, <2>2
<1>7. CASE n + 1 \notin 1 .. K
  <2> HIDE DEF K
  <2>1. n = K
    BY <1>1, <1>3, <1>7
  <2> DEFINE S == {i \in Nat : i < K => Layer(job)[K - i] # {}}
  <2>2. 0 \in S
    BY <1>1, <1>3, <2>1
  <2>3. ASSUME NEW i \in Nat, i \in S PROVE i + 1 \in S
    <3>1. SUFFICES ASSUME i + 1 < K PROVE Layer(job)[K - (i + 1)] # {}
      BY <2>3
    <3>2. K - i \in 1 .. K /\ K - i # 1 /\ (K - i) - 1 = K - (i + 1) /\ i < K
      BY <1>1, <3>1
    <3>3. PICK f : f \in Layer(job)[K - i]
      BY <2>3, <3>2
    <3>4. job.parent[f] \in Layer(job)[(K - i) - 1]
      BY <1>4, <3>2, <3>3
    <3> QED
      BY <3>2, <3>4
  <2>4. Nat \subseteq S
    <3> HIDE DEF S
    <3> QED
      BY <2>2, <2>3, Induction
  <2>5. \A i \in 1 .. K : Layer(job)[i] # {}
    <3> TAKE i \in 1 .. K
    <3>1. K - i \in Nat /\ K - i < K /\ K - (K - i) = i
      BY <1>1
    <3> QED
      BY <2>4, <3>1
  <2>6. SUFFICES ASSUME g \notin Planned(job) PROVE FALSE
    OBVIOUS
  <2> DEFINE c == [i \in 1 .. (K + 1) |-> IF i \in 1 .. K THEN CHOOSE f : f \in Layer(job)[i]
                                         ELSE g]
  <2>7. \A i \in 1 .. K : c[i] \in Layer(job)[i]
    BY <1>1, <2>5
  <2>8. c[K + 1] = g
    BY <1>1
  <2>9. c \in [1 .. (K + 1) -> job.families]
    BY <1>1, <1>4, <2>5
  <2>10. IsFiniteSet(1 .. (K + 1)) /\ Cardinality(1 .. (K + 1)) = K + 1
    BY <1>1, FS_Interval
  <2> HIDE DEF c
  <2>11. PICK i, j \in 1 .. (K + 1) : i # j /\ c[i] = c[j]
    <3>1. Cardinality(job.families) < Cardinality(1 .. (K + 1))
      BY <1>1, <2>10 DEF K
    <3> QED
      BY <1>1, <2>9, <2>10, <3>1, FS_PigeonHole
  <2>12. CASE i \in 1 .. K /\ j \in 1 .. K
    BY <1>5, <2>7, <2>11, <2>12
  <2>13. CASE ~(i \in 1 .. K /\ j \in 1 .. K)
    <3>1. (i = K + 1 /\ j \in 1 .. K) \/ (j = K + 1 /\ i \in 1 .. K)
      BY <1>1, <2>11, <2>13
    <3>2. \E k \in 1 .. K : g \in Layer(job)[k]
      BY <2>7, <2>8, <2>11, <3>1
    <3> QED
      BY <1>2, <2>6, <3>2
  <2> QED
    BY <2>12, <2>13
<1> QED
  BY <1>6, <1>7

(* What the plan leaves out: without a cycle, exactly the families that    *)
(* have an orphan among themselves and their ancestors.                    *)
LEMMA LeftOut ==
  ASSUME NEW job, Sane(job), ~Cyclic(job), NEW f \in job.families
  PROVE  f \notin Planned(job) <=> ({f} \cup Ancestors(job, f)) \cap Orphans(job) # {}
<1> DEFINE K == Cardinality(job.families)
           Up(g) == Generations(job, g)
<1>1. K \in Nat /\ IsFiniteSet(job.families)
  BY FS_CardinalityType DEF Sane
<1>2. \A g : /\ Up(g)[0] = {g} \cap job.families
             /\ \A n \in 0 .. K : n # 0 => Up(g)[n] = ParentsOf(job, Up(g)[n - 1])
             /\ Ancestors(job, g) = UNION {Up(g)[n] : n \in 1 .. K}
  BY <1>1, AncestorGenerations
<1>3. Planned(job) \subseteq job.families
  BY PlannedMembers
<1>4. \A g \in Planned(job) : job.parent[g] # NoFamily => job.parent[g] \in Planned(job)
  BY ParentIsEarlier
<1>5. \A g \in job.families : job.parent[g] \in Planned(job) => g \in Planned(job)
  BY ChildIsPlanned
<1>6. \A g \in job.families : job.parent[g] = NoFamily => g \in Planned(job)
  <2> TAKE g \in job.families
  <2>1. 1 \in 1 .. K
    <3>1. K # 0
      BY <1>1, FS_EmptySet
    <3> QED
      BY <1>1, <3>1
  <2>2. job.parent[g] = NoFamily => g \in Layer(job)[1]
    BY <2>1, LayerMembers
  <2> QED
    BY <2>1, <2>2, PlannedMembers
<1>7. Planned(job) \cap Orphans(job) = {}
  BY <1>3, <1>4 DEF Orphans
<1> HIDE DEF K, Up
<1>8. ASSUME f \in Planned(job)
      PROVE  ({f} \cup Ancestors(job, f)) \cap Orphans(job) = {}
  <2> DEFINE S == {n \in Nat : n \in 0 .. K => Up(f)[n] \subseteq Planned(job)}
  <2>1. 0 \in S
    BY <1>2, <1>8
  <2>2. ASSUME NEW n \in Nat, n \in S PROVE n + 1 \in S
    <3>1. SUFFICES ASSUME n + 1 \in 0 .. K PROVE Up(f)[n + 1] \subseteq Planned(job)
      OBVIOUS
    <3>2. n \in 0 .. K /\ n + 1 # 0 /\ n + 1 - 1 = n
      BY <1>1, <3>1
    <3>3. Up(f)[n + 1] = ParentsOf(job, Up(f)[n])
      BY <1>2, <3>1, <3>2
    <3>4. Up(f)[n] \subseteq Planned(job)
      BY <2>2, <3>2
    <3> QED
      BY <1>3, <1>4, <3>3, <3>4 DEF ParentsOf, Sane
  <2> HIDE DEF S
  <2>3. Nat \subseteq S
    BY <2>1, <2>2, Induction
  <2>4. \A n \in 1 .. K : Up(f)[n] \subseteq Planned(job)
    BY <1>1, <2>3 DEF S
  <2>5. Ancestors(job, f) \subseteq Planned(job)
    BY <1>2, <2>4
  <2> QED
    BY <1>7, <1>8, <2>5
<1>9. ASSUME f \notin Planned(job), ({f} \cup Ancestors(job, f)) \cap Orphans(job) = {}
      PROVE  FALSE
  <2> DEFINE S == {n \in Nat : n \in 0 .. K =>
                     \E x \in job.families \ Planned(job) : Up(f)[n] = {x}}
  <2>1. 0 \in S
    BY <1>2, <1>9
  <2>2. ASSUME NEW n \in Nat, n \in S PROVE n + 1 \in S
    <3>1. SUFFICES ASSUME n + 1 \in 0 .. K
                   PROVE  \E x \in job.families \ Planned(job) : Up(f)[n + 1] = {x}
      OBVIOUS
    <3>2. n \in 0 .. K /\ n + 1 # 0 /\ n + 1 - 1 = n /\ (n # 0 => n \in 1 .. K)
      BY <1>1, <3>1
    <3>3. Up(f)[n + 1] = ParentsOf(job, Up(f)[n])
      BY <1>2, <3>1, <3>2
    <3>4. PICK x \in job.families \ Planned(job) : Up(f)[n] = {x}
      BY <2>2, <3>2
    <3>5. x \in {f} \cup Ancestors(job, f)
      <4>1. CASE n = 0
        BY <1>2, <3>4, <4>1
      <4>2. CASE n # 0
        BY <1>2, <3>2, <3>4, <4>2
      <4> QED
        BY <4>1, <4>2
    <3>6. x \notin Orphans(job)
      BY <1>9, <3>5
    <3>7. job.parent[x] # NoFamily /\ job.parent[x] \notin Planned(job)
      BY <1>5, <1>6, <3>4
    <3>8. job.parent[x] \in job.families
      BY <3>4, <3>6, <3>7 DEF Orphans
    <3> QED
      BY <3>3, <3>4, <3>7, <3>8 DEF ParentsOf
  <2> HIDE DEF S
  <2>3. Nat \subseteq S
    BY <2>1, <2>2, Induction
  <2>4. \A n \in 0 .. K : \E x \in job.families : Up(f)[n] = {x}
    BY <1>1, <2>3 DEF S
  <2> DEFINE a == [n \in 0 .. K |-> CHOOSE x : x \in Up(f)[n]]
  <2>5. \A n \in 0 .. K : Up(f)[n] = {a[n]} /\ a[n] \in job.families
    <3> TAKE n \in 0 .. K
    <3>1. PICK x \in job.families : Up(f)[n] = {x}
      BY <2>4
    <3>2. a[n] \in Up(f)[n]
      BY <3>1
    <3> QED
      BY <3>1, <3>2
  <2>6. a \in [0 .. K -> job.families]
    BY <2>5
  <2>7. IsFiniteSet(0 .. K) /\ Cardinality(0 .. K) = K + 1
    BY <1>1, FS_Interval
  <2> HIDE DEF a
  <2>8. PICK i, j \in 0 .. K : i # j /\ a[i] = a[j]
    <3>1. Cardinality(job.families) < Cardinality(0 .. K)
      BY <1>1, <2>7 DEF K
    <3> QED
      BY <1>1, <2>6, <2>7, <3>1, FS_PigeonHole
  <2>9. PICK u, v \in 0 .. K : u < v /\ a[u] = a[v]
    <3>1. (i < j) \/ (j < i)
      BY <1>1, <2>8
    <3> QED
      BY <2>8, <3>1
  <2> DEFINE T == {d \in Nat : u + d \in 0 .. K => Up(a[u])[d] = Up(f)[u + d]}
  <2>10. 0 \in T
    <3>1. Up(a[u])[0] = {a[u]}
      BY <1>2, <2>5, <2>9
    <3>2. Up(f)[u + 0] = {a[u]}
      <4>1. u + 0 = u
        BY <2>9
      <4> QED
        BY <2>5, <2>9, <4>1
    <3> QED
      BY <3>1, <3>2
  <2>11. ASSUME NEW d \in Nat, d \in T PROVE d + 1 \in T
    <3>1. SUFFICES ASSUME u + (d + 1) \in 0 .. K
                   PROVE  Up(a[u])[d + 1] = Up(f)[u + (d + 1)]
      OBVIOUS
    <3>2. /\ u + d \in 0 .. K /\ d + 1 \in 0 .. K /\ d + 1 # 0 /\ u + (d + 1) # 0
          /\ d + 1 - 1 = d /\ u + (d + 1) - 1 = u + d
      BY <1>1, <2>9, <3>1
    <3>3. Up(a[u])[d] = Up(f)[u + d]
      BY <2>11, <3>2
    <3>4. Up(a[u])[d + 1] = ParentsOf(job, Up(a[u])[d])
      BY <1>2, <3>2
    <3>5. Up(f)[u + (d + 1)] = ParentsOf(job, Up(f)[u + d])
      BY <1>2, <3>1, <3>2
    <3> QED
      BY <3>3, <3>4, <3>5
  <2> HIDE DEF T
  <2>12. Nat \subseteq T
    BY <2>10, <2>11, Induction
  <2>13. v - u \in Nat /\ v - u \in 1 .. K /\ u + (v - u) = v
    BY <1>1, <2>9
  <2>14. Up(a[u])[v - u] = Up(f)[v]
    BY <2>12, <2>13, <2>9 DEF T
  <2>15. a[u] \in Up(a[u])[v - u]
    BY <2>5, <2>9, <2>14
  <2>16. a[u] \in Ancestors(job, a[u]) /\ a[u] \in job.families
    BY <1>2, <2>5, <2>9, <2>13, <2>15
  <2> QED
    BY <2>16 DEF Cyclic
<1> QED
  BY <1>8, <1>9
=============================================================================
