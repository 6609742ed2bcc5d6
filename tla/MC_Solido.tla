------------------------------ MODULE MC_Solido ------------------------------
(* A small instance of Solido for TLC. *)
EXTENDS Solido

\* One part for the treasury, one for the developers, the rest appreciates.
Even == [treasury |-> 1, developer |-> 1, appreciation |-> 1]
\* A distribution without parts, which the manager can set.
Zero == [treasury |-> 0, developer |-> 0, appreciation |-> 0]

TwoDistributions == {Even, Zero}
=============================================================================
