------------------------------- MODULE Solido -------------------------------
(***************************************************************************)
(* The on-chain Solido program: the reserve, the stSOL supply, the         *)
(* recorded exchange rate, the validators with their tracked balances and  *)
(* seed ranges, and the stake accounts that these refer to.  One action    *)
(* per instruction; a transaction is atomic, and one that the program      *)
(* rejects (an early return, a failed call of the stake program or a panic)*)
(* changes nothing, so it is no step.  The environment moves the epoch,    *)
(* pays rewards, and lets anybody transfer SOL to any address.             *)
(*                                                                         *)
(* Who signs an instruction, the validator list's order, the measured      *)
(* performance of validators and the metrics, which the program only ever  *)
(* adds to, are not part of this module.                                   *)
(*                                                                         *)
(* An operator whose name ends in _Bug is a mutation of the operator that  *)
(* follows it; no specification uses it.                                   *)
(***************************************************************************)
EXTENDS Integers, FiniteSets, Functions, StakeProgram, ExchangeRate

CONSTANTS
    Votes,                          \* vote accounts that can be validators
    MINIMUM_STAKE_ACCOUNT_BALANCE,
    MAXIMUM_UNSTAKE_ACCOUNTS,
    WithdrawFraction,               \* 10: one tenth of the stake account ...
    WithdrawConstant,               \* ... plus 10 SOL may be withdrawn at once
    Distributions,                  \* reward distributions the manager may set
    DepositAmounts,                 \* what a user deposits at once
    StSolAmounts,                   \* stSOL that a user withdraws or burns at once
    StakeAmounts,                   \* what a maintainer stakes or unstakes at once
    Rewards,                        \* reward of a stake account in an epoch
    DonationAmounts,                \* what a donor transfers at once
    MaxLate,                        \* accounts that may be late to cool down
    TotalSol,                       \* bound: lamports in the world
    MaxEpoch,                       \* bound: last epoch
    MaxSeed                         \* bound: last seed of a seed range

ASSUME SolidoAssumption ==
    /\ MINIMUM_STAKE_ACCOUNT_BALANCE \in Nat
    /\ MINIMUM_STAKE_ACCOUNT_BALANCE > Rent
    /\ MAXIMUM_UNSTAKE_ACCOUNTS \in Nat \ {0}
    /\ WithdrawFraction \in Nat \ {0}
    /\ WithdrawConstant \in Nat
    /\ Distributions \subseteq [treasury : Nat, developer : Nat, appreciation : Nat]
    /\ Distributions # {}
    /\ DepositAmounts \subseteq Nat
    /\ StSolAmounts \subseteq Nat
    /\ StakeAmounts \subseteq Nat
    /\ Rewards \subseteq Nat
    /\ DonationAmounts \subseteq Nat \ {0}
    /\ MaxLate \in Nat
    /\ TotalSol \in Nat
    /\ MaxEpoch \in Nat
    /\ MaxSeed \in Nat \ {0}
    /\ IsFiniteSet(Votes)

VARIABLES
    epoch,               \* the clock
    reserve,             \* lamports of the reserve above its rent
    supply,              \* stSOL in existence
    exchange_rate,       \* as recorded by the last UpdateExchangeRate
    reward_distribution,
    validators,          \* the entries of the validator list
    stake_accounts,      \* stake_accounts[v][seed]: the account at that address
    unstake_accounts,    \* unstake_accounts[v][seed]: likewise
    outside              \* lamports that are not in the pool

vars == <<epoch, reserve, supply, exchange_rate, reward_distribution,
          validators, stake_accounts, unstake_accounts, outside>>

Seeds == 0..MaxSeed
SeedRanges == [begin : Nat, end : Nat]
ValidatorStatus == {"AcceptingStakes", "StakesSuspended", "PendingRemoval"}

\* A vote account that is not in the list has the status "NotListed".
Validators ==
    [status                   : ValidatorStatus \cup {"NotListed"},
     stake_seeds              : SeedRanges,
     unstake_seeds            : SeedRanges,
     stake_accounts_balance   : Nat,
     unstake_accounts_balance : Nat,
     effective_stake_balance  : Nat]

\* The types of the state.
TypeOK ==
    /\ epoch \in Nat
    /\ reserve \in Nat
    /\ supply \in Nat
    /\ exchange_rate \in [computed_in_epoch : Nat, st_sol_supply : Nat, sol_balance : Nat]
    /\ reward_distribution \in Distributions
    /\ validators \in [Votes -> Validators]
    /\ stake_accounts \in [Votes -> [Seeds -> StakeAccounts]]
    /\ unstake_accounts \in [Votes -> [Seeds -> StakeAccounts]]
    /\ outside \in Nat

-----------------------------------------------------------------------------
(* Validators *)

NewValidator(status) ==
    [status                   |-> status,
     stake_seeds              |-> [begin |-> 0, end |-> 0],
     unstake_seeds            |-> [begin |-> 0, end |-> 0],
     stake_accounts_balance   |-> 0,
     unstake_accounts_balance |-> 0,
     effective_stake_balance  |-> 0]

Listed == {v \in Votes : validators[v].status # "NotListed"}

is_active(val) == val.status = "AcceptingStakes"
has_stake_accounts(val) == val.stake_seeds.begin # val.stake_seeds.end
has_unstake_accounts(val) == val.unstake_seeds.begin # val.unstake_seeds.end

SeedsOf(range) == range.begin .. (range.end - 1)

\* `compute_effective_stake_balance` panics when the difference is negative.
CanComputeEffective(val) == val.unstake_accounts_balance <= val.stake_accounts_balance

\* Mutation: the unstake accounts count as effective.
WithEffective_Bug(val) == [val EXCEPT !.effective_stake_balance = val.stake_accounts_balance]

WithEffective(val) ==
    [val EXCEPT !.effective_stake_balance =
                   val.stake_accounts_balance - val.unstake_accounts_balance]

SumLamports(account, seeds) == SumFunctionOnSet([s \in seeds |-> account[s].lamports], seeds)

\* All SOL that the pool manages according to its own books.
get_sol_balance ==
    reserve + SumFunctionOnSet([v \in Listed |-> validators[v].stake_accounts_balance], Listed)

-----------------------------------------------------------------------------
(* Instructions of users *)

Deposit(amount) ==
    /\ amount # 0
    /\ amount <= outside
    /\ outside' = outside - amount
    /\ reserve' = reserve + amount
    /\ supply' = supply + exchange_sol(exchange_rate, amount)
    /\ UNCHANGED <<epoch, exchange_rate, reward_distribution, validators,
                   stake_accounts, unstake_accounts>>

\* The user receives a stake account that was split off the validator's first.
Withdraw(v, amount) ==
    LET val    == validators[v]
        seed   == val.stake_seeds.begin
        source == stake_accounts[v][seed]
        sol    == exchange_st_sol(exchange_rate, amount)
        new    == [val EXCEPT !.stake_accounts_balance = @ - sol]
    IN  /\ exchange_rate.computed_in_epoch >= epoch
        /\ v \in Listed
        /\ val.effective_stake_balance # 0
        /\ \A w \in Listed :
              val.effective_stake_balance >= validators[w].effective_stake_balance
        /\ CanExchangeStSol(exchange_rate)
        /\ sol <= source.lamports \div WithdrawFraction + WithdrawConstant
        /\ source.lamports - sol >= MINIMUM_STAKE_ACCOUNT_BALANCE
        /\ sol <= val.stake_accounts_balance
        /\ CanComputeEffective(new)
        /\ amount <= supply
        /\ CanSplit(source, EmptyAccount, sol)
        /\ validators' = [validators EXCEPT ![v] = WithEffective(new)]
        /\ supply' = supply - amount
        /\ stake_accounts' = [stake_accounts EXCEPT ![v][seed] = SplitSource(source, sol)]
        /\ outside' = outside + sol
        /\ UNCHANGED <<epoch, reserve, exchange_rate, reward_distribution, unstake_accounts>>

\* A holder of stSOL can burn it with the token program, without Solido.
HolderBurns(amount) ==
    /\ amount \in 1..supply
    /\ supply' = supply - amount
    /\ UNCHANGED <<epoch, reserve, exchange_rate, reward_distribution, validators,
                   stake_accounts, unstake_accounts, outside>>

-----------------------------------------------------------------------------
(* Instructions of maintainers *)

\* What StakeDeposit checks before it looks at the stake accounts.
CanStake(v, amount) ==
    /\ amount >= MINIMUM_STAKE_ACCOUNT_BALANCE
    /\ amount <= reserve
    /\ v \in Listed
    /\ is_active(validators[v])
    /\ \A w \in Listed : is_active(validators[w]) =>
          validators[v].effective_stake_balance <= validators[w].effective_stake_balance

WithStake(val, amount) == WithEffective([val EXCEPT !.stake_accounts_balance = @ + amount])

\* Create an account at the end of the seed range and delegate it.
StakeDepositAppend(v, amount) ==
    LET val  == validators[v]
        seed == val.stake_seeds.end
        end  == stake_accounts[v][seed]
    IN  /\ CanStake(v, amount)
        /\ ~IsDelegated(end)
        /\ seed < MaxSeed
        /\ validators' = [validators EXCEPT ![v] =
                            [WithStake(val, amount) EXCEPT !.stake_seeds.end = @ + 1]]
        /\ stake_accounts' = [stake_accounts EXCEPT ![v][seed] =
                                Delegate(Undelegated(end.lamports + amount))]
        /\ reserve' = reserve - amount
        /\ UNCHANGED <<epoch, supply, exchange_rate, reward_distribution,
                       unstake_accounts, outside>>

\* Create a temporary account and merge it into the last stake account.  The
\* address of the temporary account may hold `prefund` lamports of a donor.
StakeDepositMerge(v, amount, prefund) ==
    LET val  == validators[v]
        seed == val.stake_seeds.end - 1
        into == stake_accounts[v][seed]
    IN  /\ CanStake(v, amount)
        /\ prefund <= outside
        /\ val.stake_seeds.end > val.stake_seeds.begin
        /\ CanMergeUndelegated(into)
        /\ validators' = [validators EXCEPT ![v] = WithStake(val, amount)]
        /\ stake_accounts' = [stake_accounts EXCEPT ![v][seed] =
                                MergeUndelegated(into, amount + prefund)]
        /\ reserve' = reserve - amount
        /\ outside' = outside - prefund
        /\ UNCHANGED <<epoch, supply, exchange_rate, reward_distribution, unstake_accounts>>

\* What Unstake checks before it computes the new balances.
CanUnstake(v, amount) ==
    LET val    == validators[v]
        source == stake_accounts[v][val.stake_seeds.begin]
        dest   == unstake_accounts[v][val.unstake_seeds.end]
    IN  /\ v \in Listed
        /\ has_stake_accounts(val)
        /\ val.unstake_seeds.end - val.unstake_seeds.begin < MAXIMUM_UNSTAKE_ACCOUNTS
        /\ CanSplit(source, dest, amount)
        /\ IF is_active(val)
           THEN source.lamports - amount >= MINIMUM_STAKE_ACCOUNT_BALANCE
           ELSE amount = source.lamports

\* Mutation: the emptied stake account stays in the seed range.
WithUnstake_Bug(val, amount) ==
    [val EXCEPT !.unstake_accounts_balance = @ + amount, !.unstake_seeds.end = @ + 1]

WithUnstake(val, amount) ==
    [val EXCEPT !.unstake_accounts_balance = @ + amount,
                !.unstake_seeds.end = @ + 1,
                !.stake_seeds.begin = IF is_active(val) THEN @ ELSE @ + 1]

\* Split the amount off the first stake account and deactivate it.
Unstake(v, amount) ==
    LET val    == validators[v]
        from   == val.stake_seeds.begin
        to     == val.unstake_seeds.end
        source == stake_accounts[v][from]
        dest   == unstake_accounts[v][to]
    IN  /\ CanUnstake(v, amount)
        /\ to < MaxSeed
        /\ CanComputeEffective(WithUnstake(val, amount))
        /\ validators' = [validators EXCEPT ![v] = WithEffective(WithUnstake(val, amount))]
        /\ stake_accounts' = [stake_accounts EXCEPT ![v][from] = SplitSource(source, amount)]
        /\ unstake_accounts' = [unstake_accounts EXCEPT ![v][to] =
                                  Deactivate(SplitDestination(source, dest, amount))]
        /\ UNCHANGED <<epoch, reserve, supply, exchange_rate, reward_distribution, outside>>

-----------------------------------------------------------------------------
(* Instructions that anybody may send *)

\* Mutation: the rate can be updated again in the same epoch.
UpdateExchangeRate_Bug ==
    /\ exchange_rate' = [computed_in_epoch |-> epoch,
                         st_sol_supply     |-> supply,
                         sol_balance       |-> get_sol_balance]
    /\ UNCHANGED <<epoch, reserve, supply, reward_distribution, validators,
                   stake_accounts, unstake_accounts, outside>>

UpdateExchangeRate ==
    /\ exchange_rate.computed_in_epoch < epoch
    /\ exchange_rate' = [computed_in_epoch |-> epoch,
                         st_sol_supply     |-> supply,
                         sol_balance       |-> get_sol_balance]
    /\ UNCHANGED <<epoch, reserve, supply, reward_distribution, validators,
                   stake_accounts, unstake_accounts, outside>>

\* Mutation: an inactive account behind one that is not makes a hole.
WithdrawableUnstake_Bug(v) ==
    {s \in SeedsOf(validators[v].unstake_seeds) : IsFullyInactive(unstake_accounts[v][s])}

\* The leading unstake accounts that are inactive; holes are not made.
WithdrawableUnstake(v) ==
    LET range == validators[v].unstake_seeds
    IN  {s \in SeedsOf(range) :
            \A t \in range.begin .. s : IsFullyInactive(unstake_accounts[v][t])}

\* What can be withdrawn from a stake account that stays in use.
Excess(a) == InactiveLamports(a) - Rent

\* The balances after `removed` was withdrawn from the unstake accounts.
WithObserved(val, stakeLeft, unstaking, removed) ==
    [val EXCEPT !.unstake_accounts_balance = unstaking - removed,
                !.stake_accounts_balance = stakeLeft + (unstaking - removed)]

\* Withdraw inactive stake to the reserve, record the balances that are
\* observed, and pay the fees on what was not recorded before.
UpdateStakeAccountBalance(v) ==
    LET val        == validators[v]
        stakes     == SeedsOf(val.stake_seeds)
        unstakes   == SeedsOf(val.unstake_seeds)
        withdrawn  == WithdrawableUnstake(v)
        excess     == SumFunctionOnSet([s \in stakes |-> Excess(stake_accounts[v][s])], stakes)
        staked     == SumLamports(stake_accounts[v], stakes)
        unstaking  == SumLamports(unstake_accounts[v], unstakes)
        removed    == SumLamports(unstake_accounts[v], withdrawn)
        rewards    == staked + unstaking - val.stake_accounts_balance
        new        == WithObserved([val EXCEPT !.unstake_seeds.begin = @ + Cardinality(withdrawn)],
                                   staked - excess, unstaking, removed)
    IN  /\ v \in Listed
        /\ \A s \in stakes : Excess(stake_accounts[v][s]) >= 0
        /\ staked >= val.effective_stake_balance
        /\ unstaking >= val.unstake_accounts_balance
        /\ rewards >= 0
        /\ CanComputeEffective(new)
        /\ rewards = 0 \/ ( /\ exchange_rate.computed_in_epoch >= epoch
                            /\ DistributionSum(reward_distribution) # 0 )
        /\ validators' = [validators EXCEPT ![v] = WithEffective(new)]
        /\ stake_accounts' = [stake_accounts EXCEPT ![v] =
              [s \in Seeds |-> IF s \in stakes THEN WithdrawFrom(@[s], Excess(@[s]))
                                               ELSE @[s]]]
        /\ unstake_accounts' = [unstake_accounts EXCEPT ![v] =
              [s \in Seeds |-> IF s \in withdrawn THEN EmptyAccount ELSE @[s]]]
        /\ reserve' = reserve + excess + removed
        /\ supply' = IF rewards = 0 THEN supply
                     ELSE supply + FeesMinted(exchange_rate, reward_distribution, rewards)
        /\ UNCHANGED <<epoch, exchange_rate, reward_distribution, outside>>

\* Merge the first stake account of a validator into the second.
MergeStake(v) ==
    LET val  == validators[v]
        from == val.stake_seeds.begin
        to   == val.stake_seeds.begin + 1
    IN  /\ v \in Listed
        /\ to < val.stake_seeds.end
        /\ CanMerge(stake_accounts[v][to], stake_accounts[v][from])
        /\ validators' = [validators EXCEPT ![v].stake_seeds.begin = @ + 1]
        /\ stake_accounts' = [stake_accounts EXCEPT
              ![v][to] = MergeResult(@, stake_accounts[v][from]),
              ![v][from] = EmptyAccount]
        /\ UNCHANGED <<epoch, reserve, supply, exchange_rate, reward_distribution,
                       unstake_accounts, outside>>

\* `check_can_be_removed`; it asserts that no balance is left.
RemoveValidator(v) ==
    /\ validators[v].status = "PendingRemoval"
    /\ ~has_stake_accounts(validators[v])
    /\ ~has_unstake_accounts(validators[v])
    /\ validators[v].stake_accounts_balance = 0
    /\ validators' = [validators EXCEPT ![v] = NewValidator("NotListed")]
    /\ UNCHANGED <<epoch, reserve, supply, exchange_rate, reward_distribution,
                   stake_accounts, unstake_accounts, outside>>

-----------------------------------------------------------------------------
(* Instructions of the manager, and the curation that depends on criteria *)

SetStatus(v, status) ==
    /\ validators' = [validators EXCEPT ![v].status = status]
    /\ UNCHANGED <<epoch, reserve, supply, exchange_rate, reward_distribution,
                   stake_accounts, unstake_accounts, outside>>

AddValidator(v) ==
    /\ v \notin Listed
    /\ validators' = [validators EXCEPT ![v] = NewValidator("AcceptingStakes")]
    /\ UNCHANGED <<epoch, reserve, supply, exchange_rate, reward_distribution,
                   stake_accounts, unstake_accounts, outside>>

EnqueueValidatorForRemoval(v) ==
    /\ v \in Listed
    /\ SetStatus(v, "PendingRemoval")

\* DeactivateValidator, or DeactivateIfViolates when the validator does.
DeactivateValidator(v) ==
    /\ validators[v].status = "AcceptingStakes"
    /\ SetStatus(v, "StakesSuspended")

\* ReactivateIfComplies when the validator complies.
ReactivateIfComplies(v) ==
    /\ validators[v].status = "StakesSuspended"
    /\ SetStatus(v, "AcceptingStakes")

ChangeRewardDistribution(dist) ==
    /\ reward_distribution' = dist
    /\ UNCHANGED <<epoch, reserve, supply, exchange_rate, validators,
                   stake_accounts, unstake_accounts, outside>>

-----------------------------------------------------------------------------
(* The environment *)

DonateToReserve(amount) ==
    /\ amount <= outside
    /\ outside' = outside - amount
    /\ reserve' = reserve + amount
    /\ UNCHANGED <<epoch, supply, exchange_rate, reward_distribution, validators,
                   stake_accounts, unstake_accounts>>

\* Anybody can fund a stake account, also before the program creates it.
DonateToStake(v, seed, amount) ==
    /\ amount <= outside
    /\ seed \in validators[v].stake_seeds.begin .. validators[v].stake_seeds.end
    /\ outside' = outside - amount
    /\ stake_accounts' = [stake_accounts EXCEPT ![v][seed].lamports = @ + amount]
    /\ UNCHANGED <<epoch, reserve, supply, exchange_rate, reward_distribution,
                   validators, unstake_accounts>>

DonateToUnstake(v, seed, amount) ==
    /\ amount <= outside
    /\ seed \in validators[v].unstake_seeds.begin .. validators[v].unstake_seeds.end
    /\ outside' = outside - amount
    /\ unstake_accounts' = [unstake_accounts EXCEPT ![v][seed].lamports = @ + amount]
    /\ UNCHANGED <<epoch, reserve, supply, exchange_rate, reward_distribution,
                   validators, stake_accounts>>

\* What the accounts of a validator earn, when each that is effective earns `r`.
Earned(account, r) ==
    SumFunctionOnSet([s \in Seeds |-> IF IsEffective(account[s]) THEN r ELSE 0], Seeds)

\* The next epoch starts: stake warms up and cools down, rewards are paid.
NextEpoch(reward, late) ==
    LET earned(v) == Earned(stake_accounts[v], reward[v]) + Earned(unstake_accounts[v], reward[v])
        total     == SumFunctionOnSet([v \in Votes |-> earned(v)], Votes)
    IN  /\ epoch < MaxEpoch
        /\ total <= outside
        /\ epoch' = epoch + 1
        /\ outside' = outside - total
        /\ stake_accounts' = [v \in Votes |-> [s \in Seeds |->
              AgePhase(Reward(stake_accounts[v][s], reward[v]), FALSE)]]
        /\ unstake_accounts' = [v \in Votes |-> [s \in Seeds |->
              AgePhase(Reward(unstake_accounts[v][s], reward[v]), <<v, s>> \in late)]]
        /\ UNCHANGED <<reserve, supply, exchange_rate, reward_distribution, validators>>

Deactivating == {x \in Votes \X Seeds : unstake_accounts[x[1]][x[2]].phase = "deactivating"}

LateSets == {late \in SUBSET Deactivating : Cardinality(late) <= MaxLate}

-----------------------------------------------------------------------------
Init ==
    /\ epoch = 0
    /\ reserve = 0
    /\ supply = 0
    /\ exchange_rate = [computed_in_epoch |-> 0, st_sol_supply |-> 0, sol_balance |-> 0]
    /\ reward_distribution \in Distributions
    /\ validators = [v \in Votes |-> NewValidator("NotListed")]
    /\ stake_accounts = [v \in Votes |-> [s \in Seeds |-> EmptyAccount]]
    /\ unstake_accounts = [v \in Votes |-> [s \in Seeds |-> EmptyAccount]]
    /\ outside = TotalSol

Users ==
    \/ \E amount \in DepositAmounts : Deposit(amount)
    \/ \E amount \in StSolAmounts : \/ HolderBurns(amount)
                                   \/ \E v \in Votes : Withdraw(v, amount)

Maintenance ==
    \E v \in Votes :
        \/ \E amount \in StakeAmounts :
              \/ StakeDepositAppend(v, amount)
              \/ \E prefund \in DonationAmounts \cup {0} : StakeDepositMerge(v, amount, prefund)
              \/ Unstake(v, amount)
        \/ UpdateStakeAccountBalance(v)
        \/ MergeStake(v)
        \/ RemoveValidator(v)

Curation ==
    \/ \E v \in Votes : \/ AddValidator(v)
                        \/ EnqueueValidatorForRemoval(v)
                        \/ DeactivateValidator(v)
                        \/ ReactivateIfComplies(v)
    \/ \E dist \in Distributions : ChangeRewardDistribution(dist)

Environment ==
    \/ \E amount \in DonationAmounts :
          \/ DonateToReserve(amount)
          \/ \E v \in Votes, seed \in Seeds :
                DonateToStake(v, seed, amount) \/ DonateToUnstake(v, seed, amount)
    \/ \E reward \in [Votes -> Rewards], late \in LateSets : NextEpoch(reward, late)

Next == Users \/ Maintenance \/ UpdateExchangeRate \/ Curation \/ Environment

Spec == Init /\ [][Next]_vars

-----------------------------------------------------------------------------
(* Properties *)

(***************************************************************************)
(* The program never tracks more SOL than the stake accounts hold, so      *)
(* `observe_balance` ("This should not happen, aborting") never rejects    *)
(* UpdateStakeAccountBalance, whatever transfers and rewards happened.     *)
(***************************************************************************)
TrackedIsBacked ==
    \A v \in Listed :
        LET val == validators[v]
        IN  /\ val.effective_stake_balance
                  <= SumLamports(stake_accounts[v], SeedsOf(val.stake_seeds))
            /\ val.unstake_accounts_balance
                  <= SumLamports(unstake_accounts[v], SeedsOf(val.unstake_seeds))

(***************************************************************************)
(* Every stake account in use keeps at least the rent outside of its       *)
(* delegation, so that UpdateStakeAccountBalance never panics with "Should *)
(* have at least the payed rent", and every account in a seed range is in a*)
(* phase that the range is for.                                            *)
(***************************************************************************)
AccountsInRangeAreUsable ==
    \A v \in Listed :
        /\ \A s \in SeedsOf(validators[v].stake_seeds) :
              /\ stake_accounts[v][s].phase \in {"activating", "active"}
              /\ Excess(stake_accounts[v][s]) >= 0
        /\ \A s \in SeedsOf(validators[v].unstake_seeds) :
              unstake_accounts[v][s].phase \in {"deactivating", "inactive"}

(***************************************************************************)
(* Once a validator has no stake and no unstake accounts, nothing is       *)
(* recorded for it: the assertion in `check_can_be_removed` ("If not, this *)
(* is a bug") cannot fail.                                                 *)
(***************************************************************************)
NothingTrackedWithoutAccounts ==
    \A v \in Listed :
        /\ ~has_stake_accounts(validators[v])
        /\ ~has_unstake_accounts(validators[v])
        => validators[v].stake_accounts_balance = 0

(***************************************************************************)
(* What the handlers that read balances and accounts rely on: numbers are  *)
(* natural, what is tracked is there, and nothing is tracked that is not.  *)
(***************************************************************************)
BalancesAreSound == TypeOK /\ TrackedIsBacked /\ NothingTrackedWithoutAccounts

(***************************************************************************)
(* The seeds that the program has moved past refer to empty accounts: no   *)
(* SOL is left behind when `begin` is bumped by Unstake, MergeStake or     *)
(* UpdateStakeAccountBalance, nor when a validator is removed.             *)
(***************************************************************************)
NothingIsStranded ==
    \A v \in Votes :
        /\ \A s \in 0 .. (validators[v].stake_seeds.begin - 1) :
              stake_accounts[v][s] = EmptyAccount
        /\ \A s \in 0 .. (validators[v].unstake_seeds.begin - 1) :
              unstake_accounts[v][s] = EmptyAccount
        /\ v \notin Listed => \A s \in Seeds : /\ ~IsDelegated(stake_accounts[v][s])
                                               /\ ~IsDelegated(unstake_accounts[v][s])

(***************************************************************************)
(* "Unstake balance cannot exceed the validator's total stake balance."    *)
(* (the message of the panic in compute_effective_stake_balance): an       *)
(* unstake that passed every check up to there panics only while a reward  *)
(* or a donation of the validator is unrecorded, so that observing the     *)
(* balances unblocks it.                                                   *)
(***************************************************************************)
UnstakeBalanceFits ==
    \A v \in Votes, amount \in StakeAmounts :
        CanUnstake(v, amount) /\ ~CanComputeEffective(WithUnstake(validators[v], amount))
          => SumLamports(stake_accounts[v], SeedsOf(validators[v].stake_seeds))
               + SumLamports(unstake_accounts[v], SeedsOf(validators[v].unstake_seeds))
             > validators[v].stake_accounts_balance

-----------------------------------------------------------------------------
(* What the program implements *)

Pool == INSTANCE Pool WITH managed <- get_sol_balance,
                           Amounts <- 0..TotalSol,
                           MaxManaged <- TotalSol

\* The lamports in the stake accounts and in the unstake accounts in use.
Staked ==
    [v \in Votes |-> SumLamports(stake_accounts[v], SeedsOf(validators[v].stake_seeds))]
Unstaking ==
    [v \in Votes |-> SumLamports(unstake_accounts[v], SeedsOf(validators[v].unstake_seeds))]

Books == INSTANCE StakeBook WITH book      <- validators,
                                 staked    <- Staked,
                                 unstaking <- Unstaking,
                                 Amounts   <- 0..TotalSol

(***************************************************************************)
(* The program is a Pool: each instruction either leaves the managed SOL   *)
(* and the stSOL supply alone, however it moves SOL between the reserve and*)
(* the stake accounts, or is one of the operations of Pool.                *)
(***************************************************************************)
ImplementsPool == Pool!Spec

(***************************************************************************)
(* The program keeps its books as StakeBook says: every change of tracked  *)
(* balances and seed ranges goes with the right change of the lamports that*)
(* are in the accounts of the seed ranges.                                 *)
(***************************************************************************)
ImplementsBooks == Books!Spec

=============================================================================
