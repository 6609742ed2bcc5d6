----------------------------- MODULE MC_Curation -----------------------------
(* Small instances of Curation for TLC. *)
EXTENDS Curation, TLC

Lenient == [max_commission |-> 1, min_block_production_rate |-> 0, min_vote_success_rate |-> 0]
Strict  == [max_commission |-> 1, min_block_production_rate |-> 1, min_vote_success_rate |-> 1]

OnlyLenient == {Lenient}
LenientAndStrict == {Lenient, Strict}

\* Addresses do not begin with what could be two rates.
Heads == [v \in Votes |-> <<9, 9>>]

\* Vote accounts are interchangeable.
Symmetry == Permutations(Votes)
=============================================================================
