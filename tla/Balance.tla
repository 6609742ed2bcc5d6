------------------------------- MODULE Balance -------------------------------
(***************************************************************************)
(* The arithmetic that keeps the pool balanced (balance.rs): how much stake*)
(* every validator should have, which one to stake with, and which one to  *)
(* unstake from.  A validator is a record with the fields `active`, `stake`*)
(* (stake_accounts_balance) and `unstake` (unstake_accounts_balance, which *)
(* is a part of it); `list` is a sequence of validators.                   *)
(*                                                                         *)
(* An operator whose name ends in _Bug is a mutation of the operator that  *)
(* follows it; no specification uses it.                                   *)
(***************************************************************************)
EXTENDS Integers, Sequences, FiniteSets

CONSTANTS
    MINIMUM_STAKE_ACCOUNT_BALANCE,
    MAXIMUM_UNSTAKE_ACCOUNTS,
    UNBALANCE_THRESHOLD             \* a rational

ASSUME BalanceAssumption ==
    /\ MINIMUM_STAKE_ACCOUNT_BALANCE \in Nat \ {0}
    /\ MAXIMUM_UNSTAKE_ACCOUNTS \in Nat \ {0}
    /\ UNBALANCE_THRESHOLD \in [numerator : Nat, denominator : Nat \ {0}]
    /\ UNBALANCE_THRESHOLD.numerator <= UNBALANCE_THRESHOLD.denominator

Sum(numbers) ==
    LET Upto[n \in 0..Len(numbers)] == IF n = 0 THEN 0 ELSE Upto[n - 1] + numbers[n]
    IN  Upto[Len(numbers)]

\* More in the last of some accounts.
AddToLast(accounts, amount) == [accounts EXCEPT ![Len(accounts)] = @ + amount]

SaturatingSub(a, b) == IF a > b THEN a - b ELSE 0

compute_effective_stake_balance(validator) == validator.stake - validator.unstake

Effective(list, i) == compute_effective_stake_balance(list[i])

ActiveIn(list) == {i \in DOMAIN list : list[i].active}

Total(undelegated, list) == undelegated + Sum([i \in DOMAIN list |-> list[i].stake])

-----------------------------------------------------------------------------
\* The first active validators get one Lamport of the remainder each.
Extra(list, i, remainder) ==
    IF Cardinality({j \in ActiveIn(list) : j < i}) < remainder THEN 1 ELSE 0

\* Requires an active validator.
get_target_balance(undelegated, list) ==
    LET total == Total(undelegated, list)
        active == Cardinality(ActiveIn(list))
        each == total \div active
        remainder == total - each * active
    IN  [i \in DOMAIN list |->
            IF list[i].active THEN each + Extra(list, i, remainder) ELSE 0]

-----------------------------------------------------------------------------
\* Mutation: the last active validator, whatever its balance.
MinimumStakeIndex_Bug(list) ==
    CHOOSE i \in ActiveIn(list) : \A j \in ActiveIn(list) : j <= i

\* The first active validator with the lowest balance.
MinimumStakeIndex(list) ==
    CHOOSE i \in ActiveIn(list) :
        \A j \in ActiveIn(list) : /\ Effective(list, i) <= Effective(list, j)
                                  /\ j < i => Effective(list, i) < Effective(list, j)

\* Requires an active validator.
get_minimum_stake_validator_index_amount(list, target) ==
    LET i == MinimumStakeIndex(list)
    IN  [index |-> i, amount |-> SaturatingSub(target[i], Effective(list, i))]

-----------------------------------------------------------------------------
\* numerator/denominator >= threshold; rationals without a value are not comparable.
AtLeast(numerator, denominator, threshold) ==
    /\ denominator # 0
    /\ numerator * threshold.denominator >= threshold.numerator * denominator

\* Some validator is too far below its target.
NeedsUnstake(list, target, threshold) ==
    \E i \in DOMAIN list :
        /\ target[i] # 0
        /\ AtLeast(SaturatingSub(target[i], Effective(list, i)), target[i], threshold)

\* Mutation: the validator that is least above its target.
MaximumExcessIndex_Bug(list, target) ==
    LET Excess(i) == SaturatingSub(Effective(list, i), target[i])
    IN  CHOOSE i \in DOMAIN list : \A j \in DOMAIN list : Excess(i) <= Excess(j)

\* The last validator that is furthest above its target.
MaximumExcessIndex(list, target) ==
    LET Excess(i) == SaturatingSub(Effective(list, i), target[i])
    IN  CHOOSE i \in DOMAIN list :
            \A j \in DOMAIN list : /\ Excess(j) <= Excess(i)
                                   /\ j > i => Excess(j) < Excess(i)

\* At most one validator to unstake from, with the amount.
get_unstake_validator_index(list, target, threshold) ==
    LET i == MaximumExcessIndex(list, target)
        amount == SaturatingSub(Effective(list, i), target[i])
    IN  IF list # <<>> /\ (AtLeast(amount, target[i], threshold)
                             \/ NeedsUnstake(list, target, threshold))
        THEN {[index |-> i, amount |-> amount]}
        ELSE {}

=============================================================================
