------------------------------ MODULE Selection ------------------------------
(***************************************************************************)
(* What is kept of a sequence: the list comprehensions of the code.  A     *)
(* recursive function and a set, where SelectSeq has an operator.          *)
(***************************************************************************)
EXTENDS Integers, Sequences

\* The elements of s that are in S, in their order.
Kept(s, S) ==
  LET kept[i \in 0..Len(s)] == IF i = 0 THEN <<>>
                               ELSE IF s[i] \in S THEN Append(kept[i - 1], s[i])
                               ELSE kept[i - 1]
  IN kept[Len(s)]

=============================================================================
