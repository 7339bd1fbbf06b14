--------------------------- MODULE SublistProofs ---------------------------
(***************************************************************************)
(* Lemmas that several proofs need.                                        *)
(*                                                                         *)
(* The library's induction theorems cannot be instantiated by the provers  *)
(* at hand, since they are about an operator; that the order of the        *)
(* natural numbers is well-founded is a theorem about sets, and what is    *)
(* proved by induction is stated as a set of numbers.                      *)
(***************************************************************************)
EXTENDS Sublists, TLAPS, FiniteSetTheorems, WellFoundedInduction

LEMMA Smallest ==
  ASSUME NEW T \in SUBSET Nat, T # {}
  PROVE  \E x \in T : \A y \in T : x <= y
<1> DEFINE R == {p \in Nat \X Nat : p[1] < p[2]}
<1>1. IsWellFoundedOn(R, Nat)
  BY NatLessThanWellFounded DEF OpToRel
<1> HIDE DEF R
<1>2. PICK x \in T : \A y \in T : ~ (<<y, x>> \in R)
  BY <1>1, WFMin
<1>3. ASSUME NEW y \in T, ~(x <= y) PROVE FALSE
  <2>1. <<y, x>> \in R
    BY <1>3 DEF R
  <2> QED
    BY <1>2, <2>1
<1> QED
  BY <1>2, <1>3

LEMMA Induction ==
  ASSUME NEW S, 0 \in S, \A n \in Nat : n \in S => n + 1 \in S
  PROVE  Nat \subseteq S
<1> SUFFICES ASSUME ~(Nat \subseteq S) PROVE FALSE
  OBVIOUS
<1>1. PICK x \in Nat \ S : \A y \in Nat \ S : x <= y
  <2>1. Nat \ S \in SUBSET Nat /\ Nat \ S # {}
    OBVIOUS
  <2> QED
    BY <2>1, Smallest
<1>2. x # 0
  BY <1>1
<1>3. x - 1 \in Nat /\ x - 1 + 1 = x /\ x - 1 < x
  BY <1>1, <1>2
<1>4. x - 1 \in S
  BY <1>1, <1>3
<1> QED
  BY <1>1, <1>3, <1>4

-----------------------------------------------------------------------------
(* The recursive definition of Among has the solution its equation         *)
(* describes.                                                              *)
AmongOf(q, S, k, g) ==
  g = [n \in 0 .. k |->
         IF n = 0 THEN <<>>
         ELSE IF q[n] \in S THEN Append(g[n - 1], q[n]) ELSE g[n - 1]]

LEMMA AmongExists ==
  ASSUME NEW q, NEW S, NEW k \in Nat
  PROVE  \E g : AmongOf(q, S, k, g)
<1> DEFINE More(s, n) == IF q[n] \in S THEN Append(s, q[n]) ELSE s
           Solves(g, j) == g = [n \in 0 .. j |-> IF n = 0 THEN <<>> ELSE More(g[n - 1], n)]
           N == {j \in Nat : \E g : Solves(g, j)}
<1>1. 0 \in N
  <2>1. Solves([n \in 0 .. 0 |-> <<>>], 0)
    OBVIOUS
  <2> QED
    BY <2>1
<1>2. ASSUME NEW j \in Nat, j \in N PROVE j + 1 \in N
  <2> HIDE DEF More
  <2>1. PICK g : Solves(g, j)
    BY <1>2
  <2> DEFINE h == [n \in 0 .. (j + 1) |-> IF n = 0 THEN <<>> ELSE More(g[n - 1], n)]
  <2>2. \A n \in 0 .. j : h[n] = g[n]
    BY <2>1
  <2>3. \A n \in 0 .. (j + 1) : n # 0 => n - 1 \in 0 .. j
    OBVIOUS
  <2>4. \A n \in 0 .. (j + 1) : h[n] = IF n = 0 THEN <<>> ELSE More(h[n - 1], n)
    <3> TAKE n \in 0 .. (j + 1)
    <3>1. CASE n = 0
      BY <3>1
    <3>2. CASE n # 0
      <4>1. h[n - 1] = g[n - 1]
        BY <2>2, <2>3, <3>2
      <4>2. h[n] = More(g[n - 1], n)
        BY <3>2
      <4> QED
        BY <3>2, <4>1, <4>2
    <3> QED
      BY <3>1, <3>2
  <2>5. DOMAIN h = 0 .. (j + 1) /\ h = [n \in DOMAIN h |-> h[n]]
    OBVIOUS
  <2> HIDE DEF h
  <2>6. Solves(h, j + 1)
    BY <2>4, <2>5
  <2> QED
    BY <2>6
<1> HIDE DEF N
<1>3. k \in N
  BY <1>1, <1>2, Induction
<1> QED
  BY <1>3 DEF N, AmongOf

(* Where the elements of a sublist s come from: h is increasing, and every *)
(* element of q that is in S has its place.                                *)
Picks(h, s, q, k, S) ==
  /\ h \in [1 .. Len(s) -> 1 .. k]
  /\ \A i \in 1 .. Len(s) : s[i] = q[h[i]] /\ s[i] \in S
  /\ \A i, j \in 1 .. Len(s) : i < j => h[i] < h[j]
  /\ \A n \in 1 .. k : q[n] \in S => \E i \in 1 .. Len(s) : h[i] = n

LEMMA PickOneMore ==
  ASSUME NEW T, NEW s \in Seq(T), NEW q \in Seq(T), NEW S, NEW k \in Nat, k < Len(q),
         NEW h, Picks(h, s, q, k, S), Len(s) <= k, q[k + 1] \in S
  PROVE  /\ Append(s, q[k + 1]) \in Seq(T) /\ Len(Append(s, q[k + 1])) <= k + 1
         /\ \E g : Picks(g, Append(s, q[k + 1]), q, k + 1, S)
<1> DEFINE t == Append(s, q[k + 1])
           l == Len(s)
           g == [i \in 1 .. (l + 1) |-> IF i = l + 1 THEN k + 1 ELSE h[i]]
<1>1. k + 1 \in 1 .. Len(q) /\ q[k + 1] \in T /\ l \in Nat
  OBVIOUS
<1>2. /\ t \in Seq(T) /\ Len(t) = l + 1 /\ t[l + 1] = q[k + 1]
      /\ \A i \in 1 .. l : t[i] = s[i]
  BY <1>1
<1>3. /\ h \in [1 .. l -> 1 .. k]
      /\ \A i \in 1 .. l : s[i] = q[h[i]] /\ s[i] \in S
      /\ \A i, j \in 1 .. l : i < j => h[i] < h[j]
      /\ \A n \in 1 .. k : q[n] \in S => \E i \in 1 .. l : h[i] = n
  BY DEF Picks
<1> HIDE DEF t, l
<1>4. g \in [1 .. (l + 1) -> 1 .. (k + 1)]
  BY <1>1, <1>3
<1>5. g[l + 1] = k + 1 /\ \A i \in 1 .. l : g[i] = h[i] /\ h[i] \in 1 .. k
  BY <1>1, <1>3
<1> HIDE DEF g
<1>6. \A i \in 1 .. (l + 1) : i = l + 1 \/ i \in 1 .. l
  BY <1>1
<1>7. \A i \in 1 .. (l + 1) : t[i] = q[g[i]] /\ t[i] \in S
  BY <1>2, <1>3, <1>5, <1>6
<1>8. \A i, j \in 1 .. (l + 1) : i < j => g[i] < g[j]
  <2> SUFFICES ASSUME NEW i \in 1 .. (l + 1), NEW j \in 1 .. (l + 1), i < j
               PROVE  g[i] < g[j]
    OBVIOUS
  <2>1. i \in 1 .. l
    BY <1>1
  <2>2. CASE j = l + 1
    BY <1>5, <2>1, <2>2
  <2>3. CASE j \in 1 .. l
    BY <1>3, <1>5, <2>1, <2>3
  <2> QED
    BY <1>6, <2>2, <2>3
<1>9. \A n \in 1 .. (k + 1) : q[n] \in S => \E i \in 1 .. (l + 1) : g[i] = n
  <2> TAKE n \in 1 .. (k + 1)
  <2>1. CASE n = k + 1
    <3>1. l + 1 \in 1 .. (l + 1)
      BY <1>1
    <3> QED
      BY <1>5, <2>1, <3>1
  <2>2. CASE n # k + 1
    <3>1. n \in 1 .. k /\ \A i \in 1 .. l : i \in 1 .. (l + 1)
      BY <1>1, <2>2
    <3> QED
      BY <1>3, <1>5, <3>1
  <2> QED
    BY <2>1, <2>2
<1>10. Picks(g, t, q, k + 1, S)
  BY <1>2, <1>4, <1>7, <1>8, <1>9 DEF Picks
<1>11. Len(t) <= k + 1
  BY <1>1, <1>2 DEF l
<1> QED
  BY <1>2, <1>10, <1>11 DEF t

LEMMA AmongPicks ==
  ASSUME NEW T, NEW q \in Seq(T), NEW S
  PROVE  /\ Among(q, S) \in Seq(T) /\ Len(Among(q, S)) <= Len(q)
         /\ \E h : Picks(h, Among(q, S), q, Len(q), S)
<1> DEFINE L == Len(q)
           g == CHOOSE f : AmongOf(q, S, L, f)
<1>1. L \in Nat
  OBVIOUS
<1>2. AmongOf(q, S, L, g)
  BY <1>1, AmongExists
<1>3. Among(q, S) = g[L]
  BY DEF Among, AmongOf
<1> HIDE DEF g, L
<1>4. /\ g[0] = <<>>
      /\ \A n \in 0 .. L : n # 0 =>
           g[n] = IF q[n] \in S THEN Append(g[n - 1], q[n]) ELSE g[n - 1]
  <2>1. 0 \in 0 .. L
    BY <1>1
  <2>2. \A n \in 0 .. L :
          g[n] = IF n = 0 THEN <<>>
                 ELSE IF q[n] \in S THEN Append(g[n - 1], q[n]) ELSE g[n - 1]
    BY <1>2 DEF AmongOf
  <2>3. g[0] = <<>>
    BY <2>1, <2>2
  <2> QED
    BY <2>2, <2>3
<1> DEFINE Good(n) == /\ g[n] \in Seq(T) /\ Len(g[n]) <= n
                      /\ \E h : Picks(h, g[n], q, n, S)
           N == {n \in Nat : n \in 0 .. L => Good(n)}
<1>5. 0 \in N
  <2>1. g[0] \in Seq(T) /\ Len(g[0]) = 0
    BY <1>4
  <2>2. Picks([i \in 1 .. 0 |-> 0], g[0], q, 0, S)
    BY <2>1 DEF Picks
  <2> QED
    BY <2>1, <2>2
<1>6. ASSUME NEW n \in Nat, n \in N PROVE n + 1 \in N
  <2> SUFFICES ASSUME n + 1 \in 0 .. L PROVE Good(n + 1)
    OBVIOUS
  <2>1. n \in 0 .. L /\ n + 1 # 0 /\ n + 1 - 1 = n /\ n < L
    BY <1>1
  <2>2. g[n + 1] = IF q[n + 1] \in S THEN Append(g[n], q[n + 1]) ELSE g[n]
    BY <1>4, <2>1
  <2>3. Good(n)
    BY <1>6, <2>1
  <2>4. PICK h : Picks(h, g[n], q, n, S)
    BY <2>3
  <2>5. CASE q[n + 1] \in S
    <3>1. g[n + 1] = Append(g[n], q[n + 1])
      BY <2>2, <2>5
    <3>2. /\ Append(g[n], q[n + 1]) \in Seq(T) /\ Len(Append(g[n], q[n + 1])) <= n + 1
          /\ \E f : Picks(f, Append(g[n], q[n + 1]), q, n + 1, S)
      BY <2>1, <2>3, <2>4, <2>5, PickOneMore DEF L
    <3> QED
      BY <3>1, <3>2
  <2>6. CASE q[n + 1] \notin S
    <3>1. g[n + 1] = g[n]
      BY <2>2, <2>6
    <3>2. h \in [1 .. Len(g[n]) -> 1 .. (n + 1)]
      <4>1. 1 .. n \subseteq 1 .. (n + 1)
        OBVIOUS
      <4> QED
        BY <2>4, <4>1 DEF Picks
    <3>3. \A i \in 1 .. (n + 1) : q[i] \in S => i \in 1 .. n
      BY <2>6
    <3>4. Picks(h, g[n], q, n + 1, S)
      BY <2>4, <3>2, <3>3 DEF Picks
    <3>5. Len(g[n]) <= n + 1
      BY <2>3
    <3> QED
      BY <2>3, <3>1, <3>4, <3>5
  <2> QED
    BY <2>5, <2>6
<1> HIDE DEF N
<1>7. L \in N
  BY <1>1, <1>5, <1>6, Induction
<1>8. Good(L)
  BY <1>1, <1>7 DEF N
<1> QED
  BY <1>3, <1>8 DEF L
=============================================================================
