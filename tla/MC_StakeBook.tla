----------------------------- MODULE MC_StakeBook -----------------------------
(* A small instance of StakeBook for TLC. *)
EXTENDS StakeBook
=============================================================================
