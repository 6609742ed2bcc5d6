---------------------------- MODULE MC_Governance ----------------------------
(* A small instance of Governance for TLC. *)
EXTENDS Governance

SmallMints == <<[authority |-> "mint_authority", supply |-> 0],
                [authority |-> "other", supply |-> 0]>>
\* Allowed, and too high.
SomeCriteria == {[max_commission |-> 5], [max_commission |-> 101]}
TwoMaintainers == <<"m1", "m2">>
SmallRunning == [validators |-> <<[pubkey |-> "v1", status |-> "PendingRemoval"],
                                  [pubkey |-> "v2", status |-> "AcceptingStakes"]>>,
                 maintainers |-> <<[pubkey |-> "m1"]>>,
                 fees |-> "f0"]
SmallBudget == [new |-> 2, legacy |-> 2, running |-> 2]
\* As printed by the command that creates them, and swapped.
SomeArguments == {<<1, 3, 2, 5>>, <<2, 3, 1, 5>>}
TwoFounders == <<"A", "B">>
=============================================================================
