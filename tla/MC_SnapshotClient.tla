-------------------------- MODULE MC_SnapshotClient --------------------------
(* A small instance of SnapshotClient for TLC. *)
EXTENDS SnapshotClient

\* A stake account is merged into another one, and that one is withdrawn.
StakeAccountsComeAndGo == << <<"stake_0", "stake_1">>, <<"stake_1">>, <<>> >>

\* The validator moves its info to another account, and removes it in between.
InfoMoves == << "info_a", "none", "info_b" >>

=============================================================================
