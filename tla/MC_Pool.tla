------------------------------- MODULE MC_Pool -------------------------------
(* A small instance of Pool for TLC. *)
EXTENDS Pool

\* A distribution with fees, one that pays everything out, and one without parts.
SomeDistributions ==
    {[treasury |-> 1, developer |-> 1, appreciation |-> 1],
     [treasury |-> 2, developer |-> 1, appreciation |-> 0],
     [treasury |-> 0, developer |-> 0, appreciation |-> 0]}
=============================================================================
