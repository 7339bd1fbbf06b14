------------------------------ MODULE Sublists ------------------------------
(* What a list comprehension with a condition or sorted() keeps of a list. *)
EXTENDS Integers, Sequences

(* The elements of q that are in S, in their order in q.                   *)
Among(q, S) ==
  LET among[n \in 0 .. Len(q)] ==
        IF n = 0 THEN <<>>
        ELSE IF q[n] \in S THEN Append(among[n - 1], q[n]) ELSE among[n - 1]
  IN  among[Len(q)]
=============================================================================
