-------------------------------- MODULE Ordering -------------------------------
(***************************************************************************)
(* The members of a finite set of natural numbers in increasing order:     *)
(* the vocabulary of properties about the order in which things arrived.   *)
(***************************************************************************)
EXTENDS Integers, FiniteSets

\* i is the Rank(I, i)-th member of I; Nth(I, n) is the n-th.
Rank(I, i) == Cardinality({j \in I : j <= i})
Nth(I, n) == CHOOSE i \in I : Rank(I, i) = n

\* The n largest members of I, or all of them.
Newest(I, n) == {i \in I : Cardinality({j \in I : j > i}) < n}
=============================================================================
