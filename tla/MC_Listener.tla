----------------------------- MODULE MC_Listener -----------------------------
(* A small instance of Listener for TLC. *)
EXTENDS Listener

SomePrices == {[numerator |-> 1, denominator |-> 1], [numerator |-> 7, denominator |-> 6]}
=============================================================================
