---------------------------- MODULE StakeProgram ----------------------------
(***************************************************************************)
(* The part of Solana's stake program that Solido relies on, together with *)
(* Solido's own view of a stake account (`stake_account.rs`).  A stake     *)
(* account is a record                                                     *)
(*                                                                         *)
(*    lamports : all the SOL in the account                                *)
(*    stake    : the part that is delegated                                *)
(*    phase    : "none" (an address without data, perhaps funded),         *)
(*               "activating" (delegated in the current epoch), "active",  *)
(*               "deactivating" or "inactive" (deactivated)                *)
(*                                                                         *)
(* Warming up takes one epoch.  Cooling down takes one epoch, or longer    *)
(* when the cluster is slow to release stake.                              *)
(***************************************************************************)
EXTENDS Integers

CONSTANT Rent   \* the rent-exempt reserve of a stake account

ASSUME RentAssumption == Rent \in Nat \ {0}

Phases == {"none", "activating", "active", "deactivating", "inactive"}

StakeAccounts == [lamports : Nat, stake : Nat, phase : Phases]

\* An address that holds no data; anybody can transfer SOL to it.
Undelegated(lamports) == [lamports |-> lamports, stake |-> 0, phase |-> "none"]
EmptyAccount == Undelegated(0)

IsDelegated(a) == a.phase # "none"

\* Delegating a fresh account stakes all of it except the rent.
Delegate(a) == [a EXCEPT !.stake = a.lamports - Rent, !.phase = "activating"]

(***************************************************************************)
(* Splitting `amount` off `src` into `dst`, an address that is created     *)
(* for it and may already be funded.  A full split moves the delegation as *)
(* it is, so it fails when the account holds more than stake and rent.     *)
(***************************************************************************)
IsFullSplit(src, amount) == amount = src.lamports

RentMissing(dst) == IF dst.lamports >= Rent THEN 0 ELSE Rent - dst.lamports

CanSplit(src, dst, amount) ==
    /\ amount > 0
    /\ amount <= src.lamports
    /\ amount >= RentMissing(dst) + 1
    /\ IF IsFullSplit(src, amount)
       THEN amount - Rent <= src.stake
       ELSE amount <= src.stake /\ src.lamports - amount > Rent

SplitSource(src, amount) ==
    IF IsFullSplit(src, amount)
    THEN EmptyAccount
    ELSE [src EXCEPT !.lamports = @ - amount, !.stake = @ - amount]

SplitDestination(src, dst, amount) ==
    [lamports |-> dst.lamports + amount,
     stake    |-> IF IsFullSplit(src, amount) THEN amount - Rent
                                              ELSE amount - RentMissing(dst),
     phase    |-> src.phase]

\* Stake that never became active is inactive at once.
Deactivate(a) ==
    [a EXCEPT !.phase = IF a.phase = "activating" THEN "inactive"
                                                  ELSE "deactivating"]

(***************************************************************************)
(* Merging.  Two accounts merge when both are activating or both are       *)
(* active.  Two active accounts keep their delegations, so the rent of the *)
(* source becomes withdrawable; two activating ones stake it.              *)
(***************************************************************************)
CanMerge(dst, src) == /\ dst.phase = src.phase
                      /\ dst.phase \in {"activating", "active"}

MergeResult(dst, src) ==
    [dst EXCEPT !.lamports = @ + src.lamports,
                !.stake = @ + src.stake + (IF dst.phase = "activating" THEN Rent ELSE 0)]

\* Merging an initialized, undelegated account stakes all it holds.
CanMergeUndelegated(dst) == dst.phase = "activating"

MergeUndelegated(dst, lamports) ==
    [dst EXCEPT !.lamports = @ + lamports, !.stake = @ + lamports]

(***************************************************************************)
(* `StakeAccount::from_delegated_account`: the lamports that are neither   *)
(* activating, active nor deactivating.                                    *)
(***************************************************************************)
InactiveLamports(a) == IF a.phase = "inactive" THEN a.lamports
                                               ELSE a.lamports - a.stake

IsFullyInactive(a) == InactiveLamports(a) = a.lamports

\* Withdrawing takes lamports that are not delegated.
WithdrawFrom(a, amount) == [a EXCEPT !.lamports = @ - amount]

(***************************************************************************)
(* An epoch boundary.  Stake that was effective earns a reward, which is   *)
(* added to the delegation; a deactivating account may stay `late`.        *)
(***************************************************************************)
IsEffective(a) == a.phase \in {"active", "deactivating"}

Reward(a, r) == IF IsEffective(a)
                THEN [a EXCEPT !.lamports = @ + r, !.stake = @ + r]
                ELSE a

AgePhase(a, late) ==
    [a EXCEPT !.phase = CASE a.phase = "activating" -> "active"
                          [] a.phase = "deactivating" /\ ~late -> "inactive"
                          [] OTHER -> a.phase]

=============================================================================
