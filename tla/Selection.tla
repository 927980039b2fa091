------------------------------ MODULE Selection ------------------------------
(***************************************************************************)
(* Sorted sequences and subsequences, defined without recursion so that     *)
(* what they hold can be proved.                                            *)
(***************************************************************************)
EXTENDS Integers, Sequences, FiniteSets

\* The elements of a finite set of integers, in ascending order.
InOrder(I) ==
  [k \in 1 .. Cardinality(I) |-> CHOOSE i \in I : Cardinality({j \in I : j < i}) = k - 1]

\* The elements of s at the places of I, in their order.
ElementsAt(s, I) == LET places == InOrder(I) IN [k \in DOMAIN places |-> s[places[k]]]

\* The elements of s that T holds of, in their order.
Select(s, T(_)) == ElementsAt(s, {i \in DOMAIN s : T(s[i])})
=============================================================================
