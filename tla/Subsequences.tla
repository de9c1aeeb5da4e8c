---------------------------- MODULE Subsequences ----------------------------
(***************************************************************************)
(* The part of a sequence that a filter, retain or truncation of a vector  *)
(* keeps, by the set of the indexes kept rather than by recursion, so that *)
(* it can be reasoned about.                                               *)
(***************************************************************************)
EXTENDS Naturals, Sequences, FiniteSets

\* The n-th number of a finite set of positive numbers.
Nth(kept, n) == CHOOSE i \in kept : Cardinality({k \in kept : k <= i}) = n

\* The elements of seq at the indexes of kept, in their order.
AtIndexes(seq, kept) == [n \in 1..Cardinality(kept) |-> seq[Nth(kept, n)]]
=============================================================================
