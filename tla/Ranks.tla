------------------------------- MODULE Ranks --------------------------------
(* Places of an array in the order in which a loop meets them. *)
EXTENDS Integers, FiniteSets

\* The number of the places of S up to i, and the k-th place of S.
Rank(S, i) == Cardinality({j \in S : j <= i})
Nth(S, k) == CHOOSE i \in S : Rank(S, i) = k
=============================================================================
