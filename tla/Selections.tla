------------------------------ MODULE Selections ------------------------------
(* What a comprehension, a filter or a sort by position makes of a list.     *)
EXTENDS Integers, Sequences, FiniteSets, SequencesExt

\* [x for x in s if Test(x)]
Select(s, Test(_)) == FlattenSeq([i \in 1..Len(s) |-> IF Test(s[i]) THEN <<s[i]>> ELSE <<>>])

\* sorted(S), for a set of numbers.
InOrder(S) == [k \in 1..Cardinality(S) |-> CHOOSE i \in S : Cardinality({j \in S : j < i}) = k - 1]
=============================================================================
