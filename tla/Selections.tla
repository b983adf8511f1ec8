------------------------------- MODULE Selections -------------------------------
(***************************************************************************)
(* What is left of a sequence when some of its positions are selected.     *)
(***************************************************************************)
EXTENDS Integers, Sequences, FiniteSets

\* The place of i among the members of I, a finite set of positions.
Place(I, i) == Cardinality({j \in I : j <= i})

\* The member of I that has place n.
Nth(I, n) == CHOOSE i \in I : Place(I, i) = n

\* The elements of s at the positions in I, in their order.
Selection(s, I) == [n \in 1 .. Cardinality(I) |-> s[Nth(I, n)]]

\* The last n elements of s, or all of them.
Newest(s, n) == IF Len(s) <= n THEN s ELSE SubSeq(s, Len(s) - n + 1, Len(s))
=============================================================================
