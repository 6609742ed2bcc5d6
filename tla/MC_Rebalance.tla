----------------------------- MODULE MC_Rebalance -----------------------------
(* A small instance of Rebalance for TLC. *)
EXTENDS Rebalance

OneQuarter == [numerator |-> 1, denominator |-> 4]
=============================================================================
