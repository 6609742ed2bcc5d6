----------------------------- MODULE MC_Daemon -----------------------------
(* A small instance of Daemon for TLC: two maintainers and two validators. *)
EXTENDS Daemon

TwoMaintainers == <<"m1", "m2">>

NewValidator(key, stake) ==
    [pubkey |-> key, status |-> "AcceptingStakes", vote |-> "low", commission |-> "low",
     commission_is_new |-> FALSE, rest_is_new |-> FALSE, stakes |-> <<stake>>, begin |-> 0,
     fresh |-> FALSE, unstakes |-> <<>>, unstake_begin |-> 0, cooled |-> 0, tracked |-> stake]

\* Unbalanced, so that active validators are unstaked from.
UnbalancedPool ==
    [reserve |-> 0, rate |-> TRUE, list |-> <<NewValidator("v1", 5), NewValidator("v2", 1)>>]

\* One validator is leaving, with two stake accounts, and the other is new.
LeavingPool ==
    [reserve |-> 1, rate |-> TRUE,
     list |-> <<[NewValidator("v1", 1) EXCEPT !.status = "PendingRemoval", !.stakes = <<1, 1>>,
                                              !.tracked = 2],
                [NewValidator("v2", 1) EXCEPT !.commission = "none"]>>]

TwoPools == {UnbalancedPool, LeavingPool}

OneTenth == [numerator |-> 1, denominator |-> 10]
=============================================================================
