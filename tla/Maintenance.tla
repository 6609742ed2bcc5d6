----------------------------- MODULE Maintenance -----------------------------
(***************************************************************************)
(* What a maintainer does with a snapshot: which instruction is due, in the*)
(* order of try_perform_maintenance, and what becomes of an instruction    *)
(* when the program executes it, perhaps on a chain that has moved on.     *)
(*                                                                         *)
(* Time is counted in slots of the current epoch: what happened in an      *)
(* earlier epoch is only known to be old.  Amounts are in units of which   *)
(* MINIMUM_STAKE_ACCOUNT_BALANCE are the minimum of a stake account; rent  *)
(* is left out.  A commission is low or high, as the criteria see it, and  *)
(* the measured rates meet the criteria.  The perf list has room, and its  *)
(* entries are kept apart, which they are not in memory: Curation has the  *)
(* list as it is.  Unstaked SOL is inactive from the next epoch on.        *)
(*                                                                         *)
(* An operator whose name ends in _Bug is a mutation of the operator that  *)
(* follows it; no specification uses it.                                   *)
(***************************************************************************)
EXTENDS AccountList, Balance, Filter

CONSTANTS
    SLICE_LENGTH,                   \* slots of a duty slice ...
    PAUSE_LENGTH,                   \* ... in the last of which nobody is on duty
    EpochLength,                    \* slots of an epoch
    end_of_epoch_threshold,         \* per cent of an epoch
    stake_time                      \* "Anytime" or "OnlyNearEpochEnd"

ASSUME MaintenanceAssumption ==
    /\ SLICE_LENGTH \in Nat
    /\ PAUSE_LENGTH \in 0 .. (SLICE_LENGTH - 1)
    /\ EpochLength \in Nat \ {0}
    /\ end_of_epoch_threshold \in 0 .. 100
    /\ stake_time \in {"Anytime", "OnlyNearEpochEnd"}

VARIABLES
    slot,         \* slots since the start of the epoch
    maintainers,  \* the maintainer list
    pool          \* reserve, whether the exchange rate is of this epoch, validator list

-----------------------------------------------------------------------------
(* The pool *)

\* A validator: status, the state of its vote account, the recorded commission, whether it
\* and the rates were recorded in this epoch, and its stake and unstake accounts with the
\* seed of the first.  `fresh`: the last stake account was activated in this epoch;
\* `cooled`: so many unstake accounts are inactive; `tracked`: stake_accounts_balance,
\* which lags behind the accounts by unrecorded rewards.
ValidatorState ==
    [pubkey : STRING, status : {"AcceptingStakes", "StakesSuspended", "PendingRemoval"},
     vote : {"low", "high", "closed"}, commission : {"none", "low", "high"},
     commission_is_new : BOOLEAN, rest_is_new : BOOLEAN,
     stakes : Seq(Nat), begin : Nat, fresh : BOOLEAN,
     unstakes : Seq(Nat), unstake_begin : Nat, cooled : Nat, tracked : Nat]

\* No stake account is below the minimum, and a recorded commission has a value.
IsSound(v) ==
    /\ \A k \in DOMAIN v.stakes : v.stakes[k] >= MINIMUM_STAKE_ACCOUNT_BALANCE
    /\ v.cooled <= Len(v.unstakes)
    /\ v.commission_is_new => v.commission # "none"

IsPool(p) ==
    /\ p \in [reserve : Nat, rate : BOOLEAN, list : Seq(ValidatorState)]
    /\ HasUniqueKeys(p.list)
    /\ \A i \in DOMAIN p.list : IsSound(p.list[i])

IsActive(v) == v.status = "AcceptingStakes"
IsInactive(v) == v.status = "StakesSuspended"
IsOpen(v) == v.vote # "closed"

End(v) == v.begin + Len(v.stakes)
UnstakeEnd(v) == v.unstake_begin + Len(v.unstakes)

\* The validator list as the arithmetic of balance.rs sees it.
Book == [i \in DOMAIN pool.list |->
            [active |-> IsActive(pool.list[i]), stake |-> pool.list[i].tracked,
             unstake |-> Sum(pool.list[i].unstakes)]]

\* Rewards and donations that UpdateStakeAccountBalance has not seen yet.
Unrecorded(v) == Sum(v.stakes) + Sum(v.unstakes) - v.tracked

\* The first two stake accounts are both active, or both activating.
CanMerge(v) == Len(v.stakes) > 1 /\ ~(v.fresh /\ Len(v.stakes) = 2)

\* does_perform_well, for a recorded commission and a vote account.
does_perform_well(vote, commission) == vote = "low" /\ commission # "high"

-----------------------------------------------------------------------------
(* Time *)

is_at_epoch_end == slot * 100 >= end_of_epoch_threshold * EpochLength

confirm_should_stake_unstake_in_current_slot ==
    stake_time = "Anytime" \/ slot * 100 > end_of_epoch_threshold * EpochLength

\* Mutation: no pause.
get_current_maintainer_duty_Bug ==
    IF maintainers = <<>> THEN {}
    ELSE {maintainers[((slot \div SLICE_LENGTH) % Len(maintainers)) + 1].pubkey}

\* The maintainer on duty, as a set of at most one.
get_current_maintainer_duty ==
    IF maintainers = <<>> \/ slot % SLICE_LENGTH >= SLICE_LENGTH - PAUSE_LENGTH THEN {}
    ELSE {maintainers[((slot \div SLICE_LENGTH) % Len(maintainers)) + 1].pubkey}

\* Mutation: the slice of this cycle is always over.
get_next_maintainer_duty_slot_Bug(maintainer, at) ==
    IF maintainer \notin Keys(maintainers) THEN {}
    ELSE LET cycle_length == Len(maintainers) * SLICE_LENGTH
             start == (at \div cycle_length) * cycle_length
                        + (Position(maintainers, maintainer) - 1) * SLICE_LENGTH
         IN  {start + cycle_length}

\* The next slot after `at` in which a slice of the maintainer begins, at most one.
get_next_maintainer_duty_slot(maintainer, at) ==
    IF maintainer \notin Keys(maintainers) THEN {}
    ELSE LET cycle_length == Len(maintainers) * SLICE_LENGTH
             start == (at \div cycle_length) * cycle_length
                        + (Position(maintainers, maintainer) - 1) * SLICE_LENGTH
         IN  {IF start <= at THEN start + cycle_length ELSE start}

-----------------------------------------------------------------------------
(* Instructions; `seeds` stands for the addresses of the stake accounts    *)
(* that are listed.                                                        *)

Instruction(kind, i, seeds, amount) ==
    [kind |-> kind, index |-> i, pubkey |-> pool.list[i].pubkey, seeds |-> seeds,
     amount |-> amount]

UpdateRate == [kind |-> "UpdateExchangeRate"]
Panic == [kind |-> "Panic"]

\* The first of some positions of the list, as a set of at most one.
FirstOf(positions) == {i \in positions : \A j \in positions : i <= j}

Where(P(_)) == {i \in DOMAIN pool.list : P(pool.list[i])}

\* SolidoState::new collects the performance of validators with an open vote account only;
\* the position in this vector is then used as if it were the one in the list.
Perfs == ElementsAt(pool.list, Where(IsOpen))

\* Reading the vector behind its end is a panic, which is the instruction that is "due".
IsBeyond(i) == i > Len(Perfs)

-----------------------------------------------------------------------------
(* What is due; each set has at most one element *)

try_merge_on_all_stakes ==
    {Instruction("MergeStake", i, <<pool.list[i].begin, pool.list[i].begin + 1>>, 0) :
        i \in FirstOf(Where(CanMerge))}

try_update_exchange_rate == IF pool.rate THEN {} ELSE {UpdateRate}

\* Mutation: the end of the epoch alone is enough.
IsOutdated_Bug(i) ==
    \/ is_at_epoch_end
    \/ pool.list[i].vote = "high" /\ Perfs[i].commission = "low"

\* A commission is recorded at the end of an epoch, or when it got too high.
IsOutdated(i) ==
    \/ is_at_epoch_end /\ (Perfs[i].commission = "none" \/ ~Perfs[i].commission_is_new)
    \/ pool.list[i].vote = "high" /\ Perfs[i].commission = "low"

do_update_onchain_validator_perfs ==
    {IF IsBeyond(i) THEN Panic ELSE Instruction("UpdateOnchainValidatorPerf", i, <<>>, 0) :
        i \in FirstOf({j \in Where(IsOpen) : IsBeyond(j) \/ IsOutdated(j)})}

\* The vector is read before the vote account is looked at.
do_update_offchain_validator_perfs ==
    {IF IsBeyond(i) THEN Panic ELSE Instruction("UpdateOffchainValidatorPerf", i, <<>>, 0) :
        i \in FirstOf({j \in DOMAIN pool.list :
                         /\ is_at_epoch_end
                         /\ IsBeyond(j) \/ (~Perfs[j].rest_is_new /\ IsOpen(pool.list[j]))})}

try_reactivate_if_complies ==
    {IF IsBeyond(i) THEN Panic ELSE Instruction("ReactivateIfComplies", i, <<>>, 0) :
        i \in FirstOf({j \in Where(IsInactive) :
                         /\ is_at_epoch_end
                         /\ IsOpen(pool.list[j])
                         /\ \/ IsBeyond(j)
                            \/ does_perform_well(pool.list[j].vote, Perfs[j].commission)})}

\* Mutation: only suspended validators.
try_unstake_from_inactive_validator_Bug ==
    {Instruction("Unstake", i, <<pool.list[i].begin, UnstakeEnd(pool.list[i])>>,
                 pool.list[i].stakes[1]) :
        i \in FirstOf(Where(LAMBDA v : /\ IsInactive(v)
                                       /\ Len(v.unstakes) < MAXIMUM_UNSTAKE_ACCOUNTS
                                       /\ v.stakes # <<>>))}

try_unstake_from_inactive_validator ==
    {Instruction("Unstake", i, <<pool.list[i].begin, UnstakeEnd(pool.list[i])>>,
                 pool.list[i].stakes[1]) :
        i \in FirstOf(Where(LAMBDA v : /\ ~IsActive(v)
                                       /\ Len(v.unstakes) < MAXIMUM_UNSTAKE_ACCOUNTS
                                       /\ v.stakes # <<>>))}

\* All accounts are listed when there is a reward or an inactive unstake account.
AllSeeds(v) == <<v.begin, End(v), v.unstake_begin, UnstakeEnd(v)>>

try_update_stake_account_balance ==
    {Instruction("UpdateStakeAccountBalance", i, AllSeeds(pool.list[i]), 0) :
        i \in FirstOf(Where(LAMBDA v : \/ Sum(v.stakes) > v.tracked - Sum(v.unstakes)
                                       \/ v.cooled > 0))}

\* Mutation: a closed vote account is passed over.
try_deactivate_if_violates_Bug ==
    {IF IsBeyond(i) THEN Panic ELSE Instruction("DeactivateIfViolates", i, <<>>, 0) :
        i \in FirstOf({j \in Where(IsActive) :
                         /\ IsOpen(pool.list[j])
                         /\ \/ IsBeyond(j)
                            \/ ~does_perform_well(pool.list[j].vote, Perfs[j].commission)})}

\* A closed vote account is a violation, without a look at the vector.
try_deactivate_if_violates ==
    {IF IsOpen(pool.list[i]) /\ IsBeyond(i) THEN Panic
     ELSE Instruction("DeactivateIfViolates", i, <<>>, 0) :
        i \in FirstOf({j \in Where(IsActive) :
                         \/ ~IsOpen(pool.list[j])
                         \/ IsBeyond(j)
                         \/ ~does_perform_well(pool.list[j].vote, Perfs[j].commission)})}

\* The new stake goes to the account of this epoch, if there is one.
DepositSeeds(v) == IF v.fresh THEN <<End(v), End(v) - 1>> ELSE <<End(v)>>

\* At most what is missing, but no less than a stake account needs.
DepositAmount(below) ==
    LET wanted == IF below < pool.reserve THEN below ELSE pool.reserve
    IN  IF wanted > MINIMUM_STAKE_ACCOUNT_BALANCE THEN wanted ELSE MINIMUM_STAKE_ACCOUNT_BALANCE

try_stake_deposit ==
    IF confirm_should_stake_unstake_in_current_slot /\ Where(IsActive) # {}
    THEN {Instruction("StakeDeposit", min.index, DepositSeeds(pool.list[min.index]),
                      DepositAmount(min.amount)) :
            min \in {least \in {get_minimum_stake_validator_index_amount(Book,
                                    get_target_balance(pool.reserve, Book))} :
                       DepositAmount(least.amount) <= pool.reserve}}
    ELSE {}

try_unstake_from_active_validators ==
    IF confirm_should_stake_unstake_in_current_slot /\ Where(IsActive) # {}
    THEN LET found == get_unstake_validator_index(Book,
                         get_target_balance(pool.reserve, Book), UNBALANCE_THRESHOLD)
             Most(v) == v.stakes[1] - MINIMUM_STAKE_ACCOUNT_BALANCE
             Amount(u) == IF u.amount < Most(pool.list[u.index]) THEN u.amount
                          ELSE Most(pool.list[u.index])
         IN {IF Most(pool.list[u.index]) < 0 THEN Panic
             ELSE Instruction("Unstake", u.index,
                    <<pool.list[u.index].begin, UnstakeEnd(pool.list[u.index])>>, Amount(u)) :
               u \in {w \in found : /\ pool.list[w.index].stakes # <<>>
                                    /\ \/ Amount(w) >= MINIMUM_STAKE_ACCOUNT_BALANCE
                                       \/ Most(pool.list[w.index]) < 0}}
    ELSE {}

check_can_be_removed(v) == v.status = "PendingRemoval" /\ v.stakes = <<>> /\ v.unstakes = <<>>

try_remove_pending_validators ==
    {Instruction("RemoveValidator", i, <<>>, 0) : i \in FirstOf(Where(check_can_be_removed))}

\* or_else
first \prec second == IF first # {} THEN first ELSE second

\* The first instruction that is due, as a set of at most one.
try_perform_maintenance ==
    try_merge_on_all_stakes \prec (
    try_update_exchange_rate \prec (
    do_update_onchain_validator_perfs \prec (
    do_update_offchain_validator_perfs \prec (
    try_reactivate_if_complies \prec (
    try_unstake_from_inactive_validator \prec (
    try_update_stake_account_balance \prec (
    try_deactivate_if_violates \prec (
    try_stake_deposit \prec (
    try_unstake_from_active_validators \prec
    try_remove_pending_validators)))))))))

-----------------------------------------------------------------------------
(* Execution: the pool after an instruction, a set of at most one, or none *)
(* when it fails.                                                          *)

With(i, v) == [pool EXCEPT !.list[i] = v]

\* Instructions that find the validator by its key, wherever it is.
Found(ins) == {i \in DOMAIN pool.list : pool.list[i].pubkey = ins.pubkey}

\* Instructions that name the validator by index and key.
Named(ins) == {i \in {ins.index} : IsAt(pool.list, i, ins.pubkey)}

merge_stake(ins) ==
    {With(i, [pool.list[i] EXCEPT !.stakes = <<@[1] + @[2]>> \o SubSeq(@, 3, Len(@)),
                                  !.begin = @ + 1]) :
        i \in {j \in Named(ins) : /\ CanMerge(pool.list[j])
                                  /\ ins.seeds[1] = pool.list[j].begin}}

update_exchange_rate == IF pool.rate THEN {} ELSE {[pool EXCEPT !.rate = TRUE]}

\* The performance of a validator that is not listed any more is of no interest here.
update_onchain_validator_perf(ins) ==
    IF Found(ins) = {} THEN {pool}
    ELSE {With(i, [pool.list[i] EXCEPT !.commission = pool.list[i].vote,
                                       !.commission_is_new = TRUE]) :
            i \in {j \in Found(ins) :
                     /\ IsOpen(pool.list[j])
                     /\ \/ ~pool.list[j].commission_is_new
                        \/ pool.list[j].vote = "high" /\ pool.list[j].commission # "high"}}

\* The entry is created with a commission of 0, which is old.
update_offchain_validator_perf(ins) ==
    IF Found(ins) = {} THEN {pool}
    ELSE {With(i, [pool.list[i] EXCEPT !.rest_is_new = TRUE,
                                       !.commission = IF @ = "none" THEN "low" ELSE @]) :
            i \in {j \in Found(ins) : IsOpen(pool.list[j]) /\ ~pool.list[j].rest_is_new}}

\* These two succeed without effect when there is nothing to do.
reactivate_if_complies(ins) ==
    {With(i, [pool.list[i] EXCEPT !.status =
                IF /\ @ = "StakesSuspended"
                   /\ does_perform_well(pool.list[i].vote, pool.list[i].commission)
                THEN "AcceptingStakes" ELSE @]) : i \in Found(ins)}

deactivate_if_violates(ins) ==
    {With(i, [pool.list[i] EXCEPT !.status =
                IF /\ @ = "AcceptingStakes"
                   /\ ~does_perform_well(pool.list[i].vote, pool.list[i].commission)
                THEN "StakesSuspended" ELSE @]) : i \in Found(ins)}

check_maintainer(by, at) == IsAt(maintainers, at, by)

\* Mutation: the account is not derived from the end of the unstake seeds.
check_unstake_accounts_Bug(v, seeds) == v.stakes # <<>> /\ seeds[1] = v.begin

check_unstake_accounts(v, seeds) ==
    v.stakes # <<>> /\ seeds[1] = v.begin /\ seeds[2] = UnstakeEnd(v)

\* Mutation: an active validator is treated like an inactive one.
LeavesEnough_Bug(v, amount) == v.stakes[1] = amount \/ IsActive(v)

\* What may remain on the stake account.
LeavesEnough(v, amount) ==
    IF IsActive(v) THEN v.stakes[1] - amount >= MINIMUM_STAKE_ACCOUNT_BALANCE
                   ELSE v.stakes[1] = amount

\* compute_effective_stake_balance panics when more is unstaked than was tracked.
unstake(ins) ==
    {With(i, [pool.list[i] EXCEPT
                !.stakes = IF IsActive(pool.list[i]) THEN <<@[1] - ins.amount>> \o Tail(@)
                           ELSE Tail(@),
                !.begin = IF IsActive(pool.list[i]) THEN @ ELSE @ + 1,
                !.fresh = @ /\ (IsActive(pool.list[i]) \/ Len(pool.list[i].stakes) > 1),
                !.unstakes = Append(@, ins.amount)]) :
        i \in {j \in Named(ins) :
                 /\ check_unstake_accounts(pool.list[j], ins.seeds)
                 /\ Len(pool.list[j].unstakes) < MAXIMUM_UNSTAKE_ACCOUNTS
                 /\ ins.amount <= pool.list[j].stakes[1]
                 /\ LeavesEnough(pool.list[j], ins.amount)
                 /\ Sum(pool.list[j].unstakes) + ins.amount <= pool.list[j].tracked}}

\* Rewards can only be distributed at the exchange rate of this epoch.
update_stake_account_balance(ins) ==
    {[With(i, [pool.list[i] EXCEPT
                 !.unstakes = SubSeq(@, pool.list[i].cooled + 1, Len(@)),
                 !.unstake_begin = @ + pool.list[i].cooled,
                 !.cooled = 0,
                 !.tracked = Sum(pool.list[i].stakes)
                    + Sum(SubSeq(pool.list[i].unstakes, pool.list[i].cooled + 1,
                                 Len(pool.list[i].unstakes)))])
        EXCEPT !.reserve = @ + Sum(SubSeq(pool.list[i].unstakes, 1, pool.list[i].cooled))] :
        i \in {j \in Named(ins) : /\ ins.seeds = AllSeeds(pool.list[j])
                                  /\ Unrecorded(pool.list[j]) = 0 \/ pool.rate}}

\* No active validator has less stake.
HasLeastStake(i) ==
    \A j \in Where(IsActive) : Effective(Book, i) <= Effective(Book, j)

check_can_stake_amount(amount) == MINIMUM_STAKE_ACCOUNT_BALANCE <= amount /\ amount <= pool.reserve

\* An instruction that merges is of the epoch in which it was built: the address of the
\* temporary account depends on it.
stake_deposit(ins) ==
    {[With(i, [pool.list[i] EXCEPT
                 !.stakes = IF Len(ins.seeds) = 2 THEN AddToLast(@, ins.amount)
                            ELSE Append(@, ins.amount),
                 !.fresh = TRUE,
                 !.tracked = @ + ins.amount])
        EXCEPT !.reserve = @ - ins.amount] :
        i \in {j \in Named(ins) :
                 /\ check_can_stake_amount(ins.amount)
                 /\ IsActive(pool.list[j])
                 /\ HasLeastStake(j)
                 /\ ins.seeds[1] = End(pool.list[j])
                 /\ Len(ins.seeds) = 2 => pool.list[j].fresh}}

remove_validator(ins) ==
    {[pool EXCEPT !.list = SwapRemove(@, i)] :
        i \in {j \in Named(ins) : check_can_be_removed(pool.list[j])}}

\* An instruction, and the maintainer that signed it with its claimed index.
Executed(ins, by, at) ==
    CASE ins.kind = "MergeStake" -> merge_stake(ins)
      [] ins.kind = "UpdateExchangeRate" -> update_exchange_rate
      [] ins.kind = "UpdateOnchainValidatorPerf" -> update_onchain_validator_perf(ins)
      [] ins.kind = "UpdateOffchainValidatorPerf" -> update_offchain_validator_perf(ins)
      [] ins.kind = "ReactivateIfComplies" -> reactivate_if_complies(ins)
      [] ins.kind = "DeactivateIfViolates" -> deactivate_if_violates(ins)
      [] ins.kind = "Unstake" -> IF check_maintainer(by, at) THEN unstake(ins) ELSE {}
      [] ins.kind = "UpdateStakeAccountBalance" -> update_stake_account_balance(ins)
      [] ins.kind = "StakeDeposit" -> IF check_maintainer(by, at) THEN stake_deposit(ins) ELSE {}
      [] ins.kind = "RemoveValidator" -> remove_validator(ins)

=============================================================================
