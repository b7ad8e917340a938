----------------------------- MODULE Subsequences -----------------------------
(***************************************************************************)
(* Parts of a sequence, said by the indices that are kept and by counting: *)
(* SelectSeq and SortSeq have no definition the provers could use.         *)
(***************************************************************************)
EXTENDS Naturals, FiniteSets

\* The n-th of these indices.
Nth(indices, n) ==
  CHOOSE i \in indices : Cardinality({j \in indices : j < i}) = n - 1

\* The elements of s at these indices, in their order.
At(s, indices) == [n \in 1..Cardinality(indices) |-> s[Nth(indices, n)]]
=============================================================================
