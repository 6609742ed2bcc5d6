------------------------------- MODULE Filter -------------------------------
(***************************************************************************)
(* `iter().filter(..).collect()`: some of the elements of a sequence, in   *)
(* their order.                                                            *)
(***************************************************************************)
EXTENDS Integers, Sequences, FiniteSets

\* The i-th smallest of a set of positions.
Nth(positions, i) == CHOOSE j \in positions : Cardinality({k \in positions : k <= j}) = i

\* The elements at these positions.
ElementsAt(list, positions) == [i \in 1..Cardinality(positions) |-> list[Nth(positions, i)]]

=============================================================================
