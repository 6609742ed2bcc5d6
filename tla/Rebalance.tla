------------------------------ MODULE Rebalance ------------------------------
(***************************************************************************)
(* Rounds of maintenance: in every round a maintainer takes a snapshot and *)
(* sends the first instruction that is due, as try_perform_maintenance     *)
(* orders them.  The question is whether the rounds come to rest with a    *)
(* balanced pool, or move stake around for ever.                           *)
(*                                                                         *)
(* Only the instructions that move stake are kept; amounts are in units in *)
(* which the minimum of a stake account is a small number, without rent and*)
(* rewards.  Snapshots are fresh, and staking is possible at any time of an*)
(* epoch (`StakeTime::Anytime`).                                           *)
(*                                                                         *)
(* An operator whose name ends in _Bug is a mutation of the operator that  *)
(* follows it; no specification uses it.                                   *)
(***************************************************************************)
EXTENDS Balance

CONSTANTS
    N,                              \* number of validators
    WithdrawFraction,               \* 10: one tenth of the stake account ...
    WithdrawConstant,               \* ... plus 10 SOL may be withdrawn at once
    Amounts,                        \* amounts of deposits and withdrawals
    MaxInputs                       \* bound: deposits, withdrawals and status changes

Validators == 1..N

ASSUME RebalanceAssumption ==
    /\ N \in Nat \ {0}
    /\ WithdrawFraction \in Nat \ {0}
    /\ WithdrawConstant \in Nat
    /\ Amounts \subseteq Nat
    /\ MaxInputs \in Nat

VARIABLES
    reserve,    \* SOL in the reserve, above rent
    validators, \* the validator list, as the program records it
    stakes,     \* stakes[v]: balances of the stake accounts
    fresh,      \* fresh[v]: the last stake account was activated in this epoch
    unstakes,   \* unstakes[v]: balances of the unstake accounts
    cooled,     \* cooled[v]: how many of the first unstake accounts are inactive
    inputs      \* number of inputs so far

roundVars == <<reserve, validators, stakes, fresh, unstakes, cooled, inputs>>

\* The types of the state.
RoundTypeOK ==
    /\ reserve \in Nat
    /\ validators \in [Validators -> [active : BOOLEAN, stake : Nat, unstake : Nat]]
    /\ stakes \in [Validators -> Seq(Nat \ {0})]
    /\ fresh \in [Validators -> BOOLEAN]
    /\ unstakes \in [Validators -> Seq(Nat \ {0})]
    /\ cooled \in [Validators -> Nat]
    /\ \A v \in Validators : /\ cooled[v] \in 0..Len(unstakes[v])
                             /\ Len(unstakes[v]) <= MAXIMUM_UNSTAKE_ACCOUNTS
                             /\ fresh[v] => stakes[v] # <<>>
                             /\ validators[v].unstake = Sum(unstakes[v])
                             /\ validators[v].stake = Sum(stakes[v]) + Sum(unstakes[v])
    /\ inputs \in 0..MaxInputs

-----------------------------------------------------------------------------
(* The snapshot *)

AcceptsStake(v) == validators[v].active

EffectiveOf(v) == compute_effective_stake_balance(validators[v])

HasActive == \E v \in Validators : AcceptsStake(v)

Target == get_target_balance(reserve, validators)

\* At most one validator: the first that satisfies a condition.
First(set) == {v \in set : \A w \in set : v <= w}

MaxOf(a, b) == IF a > b THEN a ELSE b
MinOf(a, b) == IF a < b THEN a ELSE b

-----------------------------------------------------------------------------
(* Which instruction is due; every set has at most one element *)

DueMerge == First({v \in Validators : Len(stakes[v]) > 1 /\ ~(fresh[v] /\ Len(stakes[v]) = 2)})

DueUnstakeInactive ==
    First({v \in Validators : /\ ~AcceptsStake(v)
                              /\ Len(unstakes[v]) < MAXIMUM_UNSTAKE_ACCOUNTS
                              /\ stakes[v] # <<>>})

DueUpdate == First({v \in Validators : cooled[v] > 0})

\* Mutation: the minimum is forgotten.
AmountToDeposit_Bug(below) == MinOf(below, reserve)

\* To the target if the reserve suffices, but not less than the minimum.
AmountToDeposit(below) == MaxOf(MinOf(below, reserve), MINIMUM_STAKE_ACCOUNT_BALANCE)

DueStake ==
    {d \in (IF HasActive
            THEN LET min == get_minimum_stake_validator_index_amount(validators, Target)
                 IN  {[index |-> min.index, amount |-> AmountToDeposit(min.amount)]}
            ELSE {}) : d.amount <= reserve}

MaximumUnstake(account) == account - MINIMUM_STAKE_ACCOUNT_BALANCE

DueUnstakeActive ==
    {d \in {[index |-> u.index,
             amount |-> MinOf(u.amount, MaximumUnstake(stakes[u.index][1]))] :
               u \in {w \in (IF HasActive
                             THEN get_unstake_validator_index(validators, Target, UNBALANCE_THRESHOLD)
                             ELSE {}) : stakes[w.index] # <<>>}} :
        d.amount >= MINIMUM_STAKE_ACCOUNT_BALANCE}

-----------------------------------------------------------------------------
(* The instructions *)

MergeStake(v) ==
    /\ stakes' = [stakes EXCEPT ![v] = <<@[1] + @[2]>> \o SubSeq(@, 3, Len(@))]
    /\ UNCHANGED <<reserve, validators, fresh, unstakes, cooled, inputs>>

\* Checks of process_unstake that depend on balances.
UnstakeIsAccepted(v, amount) ==
    /\ stakes[v] # <<>>
    /\ Len(unstakes[v]) < MAXIMUM_UNSTAKE_ACCOUNTS
    /\ IF AcceptsStake(v) THEN stakes[v][1] - amount >= MINIMUM_STAKE_ACCOUNT_BALANCE
                    ELSE stakes[v][1] = amount

Unstake(v, amount) ==
    /\ UnstakeIsAccepted(v, amount)
    /\ stakes' = [stakes EXCEPT ![v] = IF AcceptsStake(v) THEN <<@[1] - amount>> \o Tail(@)
                                                    ELSE Tail(@)]
    /\ fresh' = [fresh EXCEPT ![v] = @ /\ stakes'[v] # <<>>]
    /\ unstakes' = [unstakes EXCEPT ![v] = Append(@, amount)]
    /\ validators' = [validators EXCEPT ![v].unstake = @ + amount]
    /\ UNCHANGED <<reserve, cooled, inputs>>

\* The inactive unstake accounts go to the reserve.
UpdateStakeAccountBalance(v) ==
    LET removed == Sum(SubSeq(unstakes[v], 1, cooled[v]))
    IN  /\ reserve' = reserve + removed
        /\ unstakes' = [unstakes EXCEPT ![v] = SubSeq(@, cooled[v] + 1, Len(@))]
        /\ cooled' = [cooled EXCEPT ![v] = 0]
        /\ validators' = [validators EXCEPT ![v].unstake = @ - removed, ![v].stake = @ - removed]
        /\ UNCHANGED <<stakes, fresh, inputs>>

\* Checks of process_stake_deposit that depend on balances.
StakeIsAccepted(v, amount) ==
    /\ amount >= MINIMUM_STAKE_ACCOUNT_BALANCE
    /\ amount <= reserve
    /\ AcceptsStake(v)
    /\ \A w \in Validators : AcceptsStake(w) => EffectiveOf(v) <= EffectiveOf(w)

StakeDeposit(v, amount) ==
    /\ StakeIsAccepted(v, amount)
    /\ reserve' = reserve - amount
    /\ stakes' = [stakes EXCEPT ![v] =
                    IF fresh[v] THEN AddToLast(@, amount) ELSE Append(@, amount)]
    /\ fresh' = [fresh EXCEPT ![v] = TRUE]
    /\ validators' = [validators EXCEPT ![v].stake = @ + amount]
    /\ UNCHANGED <<unstakes, cooled, inputs>>

\* try_perform_maintenance sends the first instruction that is due.
PerformMaintenance ==
    \/ \E v \in DueMerge : MergeStake(v)
    \/ /\ DueMerge = {}
       /\ \/ \E v \in DueUnstakeInactive : Unstake(v, stakes[v][1])
          \/ /\ DueUnstakeInactive = {}
             /\ \/ \E v \in DueUpdate : UpdateStakeAccountBalance(v)
                \/ /\ DueUpdate = {}
                   /\ \/ \E d \in DueStake : StakeDeposit(d.index, d.amount)
                      \/ /\ DueStake = {}
                         /\ \E d \in DueUnstakeActive : Unstake(d.index, d.amount)

-----------------------------------------------------------------------------
(* The environment *)

IsInput == inputs < MaxInputs /\ inputs' = inputs + 1

UserDeposit(amount) ==
    /\ IsInput
    /\ reserve' = reserve + amount
    /\ UNCHANGED <<validators, stakes, fresh, unstakes, cooled>>

\* A user withdraws from the validator with the highest balance.
Withdraw(v, amount) ==
    /\ IsInput
    /\ \A w \in Validators : EffectiveOf(w) <= EffectiveOf(v)
    /\ stakes[v] # <<>>
    /\ amount <= stakes[v][1] \div WithdrawFraction + WithdrawConstant
    /\ stakes[v][1] - amount >= MINIMUM_STAKE_ACCOUNT_BALANCE
    /\ stakes' = [stakes EXCEPT ![v][1] = @ - amount]
    /\ validators' = [validators EXCEPT ![v].stake = @ - amount]
    /\ UNCHANGED <<reserve, fresh, unstakes, cooled>>

\* A validator violates the criteria, or complies again.
SwitchStatus(v) ==
    /\ IsInput
    /\ validators' = [validators EXCEPT ![v].active = ~@]
    /\ UNCHANGED <<reserve, stakes, fresh, unstakes, cooled>>

\* Stake is active and unstaked SOL is free after an epoch.
NextEpoch ==
    /\ fresh' = [v \in Validators |-> FALSE]
    /\ cooled' = [v \in Validators |-> Len(unstakes[v])]
    /\ UNCHANGED <<reserve, validators, stakes, unstakes, inputs>>

-----------------------------------------------------------------------------
RoundInit ==
    /\ reserve = 0
    /\ validators = [v \in Validators |-> [active |-> TRUE, stake |-> 0, unstake |-> 0]]
    /\ stakes = [v \in Validators |-> <<>>]
    /\ fresh = [v \in Validators |-> FALSE]
    /\ unstakes = [v \in Validators |-> <<>>]
    /\ cooled = [v \in Validators |-> 0]
    /\ inputs = 0

RoundNext ==
    \/ PerformMaintenance
    \/ NextEpoch
    \/ \E amount \in Amounts : UserDeposit(amount)
    \/ \E v \in Validators : SwitchStatus(v) \/ \E amount \in Amounts : Withdraw(v, amount)

\* Maintainers keep running, and epochs pass.
RoundSpec ==
    RoundInit /\ [][RoundNext]_roundVars /\ WF_roundVars(PerformMaintenance) /\ WF_roundVars(NextEpoch)

-----------------------------------------------------------------------------
(* Properties *)

(***************************************************************************)
(* What get_target_balance asserts of its result, and what "an uniform     *)
(* distribution" means: all SOL is distributed, over active validators     *)
(* only, and no two of them differ by more than a Lamport.                 *)
(***************************************************************************)
TargetIsUniform ==
    HasActive =>
        LET target == Target
        IN  /\ Sum(target) = Total(reserve, validators)
            /\ \A v, w \in Validators :
                  AcceptsStake(v) /\ AcceptsStake(w) => target[v] - target[w] \in {-1, 0, 1}
            /\ \A v \in Validators : ~AcceptsStake(v) => target[v] = 0

(***************************************************************************)
(* The program accepts what a maintainer sends from a fresh snapshot:      *)
(* the choice that balance.rs makes off-chain and the checks that          *)
(* process_stake_deposit and process_unstake make on-chain agree.  Else the*)
(* same instruction would be sent and rejected in every round, and the     *)
(* instructions behind it would never be tried.  The exception is a        *)
(* validator that has the maximum of unstake accounts: rebalancing does not*)
(* look at it, and has to wait for the next epoch.                         *)
(***************************************************************************)
HasRoom(v) == Len(unstakes[v]) < MAXIMUM_UNSTAKE_ACCOUNTS

InstructionsAreAccepted ==
    DueMerge = {} /\ DueUnstakeInactive = {} /\ DueUpdate = {} =>
        /\ \A d \in DueStake : StakeIsAccepted(d.index, d.amount)
        /\ DueStake = {} => \A d \in DueUnstakeActive :
                               HasRoom(d.index) => UnstakeIsAccepted(d.index, d.amount)

(***************************************************************************)
(* What a maintainer sends is sound: it is computed from amounts that are  *)
(* natural numbers and from targets that are a uniform distribution, and   *)
(* the program accepts it.                                                 *)
(***************************************************************************)
InstructionsAreSound == RoundTypeOK /\ TargetIsUniform /\ InstructionsAreAccepted

(***************************************************************************)
(* Maintenance comes to rest: when there are no more deposits, withdrawals *)
(* and status changes, stake is not moved around for ever, although        *)
(* staking overshoots the target when the minimum requires it and unstaking*)
(* takes an epoch.                                                         *)
(***************************************************************************)
Idle == /\ DueMerge = {} /\ DueUnstakeInactive = {} /\ DueUpdate = {}
        /\ DueStake = {} /\ DueUnstakeActive = {}

ComesToRest == <>[]Idle

(***************************************************************************)
(* At rest, with an active validator and nothing left to cool down, the    *)
(* reserve is below the minimum of a stake account, inactive validators    *)
(* have no stake, and an active validator is above its target by less than *)
(* the threshold, or by less than twice the minimum, which is what the     *)
(* minimum of both accounts leaves undecided.                              *)
(***************************************************************************)
Rests == Idle /\ HasActive /\ \A v \in Validators : unstakes[v] = <<>> /\ ~fresh[v]

BalancedAtRest ==
    Rests =>
        /\ reserve < MINIMUM_STAKE_ACCOUNT_BALANCE
        /\ \A v \in Validators : ~AcceptsStake(v) => stakes[v] = <<>>
        /\ \A v \in Validators :
              LET target == Target[v]
                  above == EffectiveOf(v) - target
              IN  \/ ~AtLeast(MaxOf(above, 0), target, UNBALANCE_THRESHOLD)
                  \/ above < 2 * MINIMUM_STAKE_ACCOUNT_BALANCE

=============================================================================
