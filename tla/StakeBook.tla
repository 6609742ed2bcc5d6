------------------------------ MODULE StakeBook ------------------------------
(***************************************************************************)
(* What the program promises about the books it keeps for each validator.  *)
(* Individual stake accounts are abstracted to two totals per validator,   *)
(* the lamports that really are in its stake accounts and in its unstake   *)
(* accounts; what an account holds beyond the books (a reward, a donation, *)
(* SOL that was at its address before) is any amount of a set.             *)
(*                                                                         *)
(* An operator whose name ends in _Bug is a mutation of the operator that  *)
(* follows it; no specification uses it.                                   *)
(***************************************************************************)
EXTENDS Integers

CONSTANTS
    Votes,                     \* vote accounts that can be validators
    Amounts,                   \* amounts of lamports
    MAXIMUM_UNSTAKE_ACCOUNTS,
    TotalSol,                  \* bound: lamports of a validator
    MaxSeed                    \* bound: last seed of a seed range

ASSUME BookAssumption ==
    /\ Amounts \subseteq Nat
    /\ MAXIMUM_UNSTAKE_ACCOUNTS \in Nat \ {0}
    /\ TotalSol \in Nat
    /\ MaxSeed \in Nat

VARIABLES
    book,       \* the entry of the validator list, balances and seeds
    staked,     \* lamports in the stake accounts
    unstaking   \* lamports in the unstake accounts

vars == <<book, staked, unstaking>>

Ranges == [begin : Nat, end : Nat]
Statuses == {"NotListed", "AcceptingStakes", "StakesSuspended", "PendingRemoval"}

Books == [status : Statuses, stake_seeds : Ranges, unstake_seeds : Ranges,
          stake_accounts_balance : Nat, unstake_accounts_balance : Nat,
          effective_stake_balance : Nat]

\* The types of the state.
TypeOK ==
    /\ book \in [Votes -> Books]
    /\ staked \in [Votes -> Nat]
    /\ unstaking \in [Votes -> Nat]

NewBook(status) ==
    [status |-> status,
     stake_seeds |-> [begin |-> 0, end |-> 0],
     unstake_seeds |-> [begin |-> 0, end |-> 0],
     stake_accounts_balance |-> 0, unstake_accounts_balance |-> 0,
     effective_stake_balance |-> 0]

IsListed(v) == book[v].status # "NotListed"
Width(range) == range.end - range.begin

\* The entry of a validator; the effective balance is always derived, and the
\* program panics when the unstake balance exceeds the total.
Entry(status, stakeSeeds, unstakeSeeds, total, unstake) ==
    [status |-> status, stake_seeds |-> stakeSeeds, unstake_seeds |-> unstakeSeeds,
     stake_accounts_balance |-> total, unstake_accounts_balance |-> unstake,
     effective_stake_balance |-> total - unstake]

Skip(range, n) == [begin |-> range.begin + n, end |-> range.end]
Extend(range, n) == [begin |-> range.begin, end |-> range.end + n]

-----------------------------------------------------------------------------
Init ==
    /\ book = [v \in Votes |-> NewBook("NotListed")]
    /\ staked = [v \in Votes |-> 0]
    /\ unstaking = [v \in Votes |-> 0]

AddValidator(v) ==
    /\ ~IsListed(v)
    /\ book' = [book EXCEPT ![v] = NewBook("AcceptingStakes")]
    /\ UNCHANGED <<staked, unstaking>>

\* Mutation: a validator can leave the removal queue.
ChangeStatus_Bug(v, status) ==
    /\ IsListed(v)
    /\ book' = [book EXCEPT ![v].status = status]
    /\ UNCHANGED <<staked, unstaking>>

\* Enqueue, deactivate or reactivate.
ChangeStatus(v, status) ==
    /\ IsListed(v)
    /\ book[v].status = "PendingRemoval" => status = "PendingRemoval"
    /\ book' = [book EXCEPT ![v].status = status]
    /\ UNCHANGED <<staked, unstaking>>

RemoveValidator(v) ==
    /\ book[v].status = "PendingRemoval"
    /\ Width(book[v].stake_seeds) = 0
    /\ Width(book[v].unstake_seeds) = 0
    /\ book' = [book EXCEPT ![v] = NewBook("NotListed")]
    /\ UNCHANGED <<staked, unstaking>>

\* Stake into a new account (which consumes a seed) or into the last one.
StakeDeposit(v, amount, found, append) ==
    LET b == book[v]
    IN  /\ b.status = "AcceptingStakes"
        /\ append \/ Width(b.stake_seeds) > 0
        /\ book' = [book EXCEPT ![v] =
              Entry(b.status, Extend(b.stake_seeds, IF append THEN 1 ELSE 0), b.unstake_seeds,
                    b.stake_accounts_balance + amount, b.unstake_accounts_balance)]
        /\ staked' = [staked EXCEPT ![v] = @ + amount + found]
        /\ UNCHANGED unstaking

\* Mutation: one account too many.
HasUnstakeRoom_Bug(b) == Width(b.unstake_seeds) <= MAXIMUM_UNSTAKE_ACCOUNTS

HasUnstakeRoom(b) == Width(b.unstake_seeds) < MAXIMUM_UNSTAKE_ACCOUNTS

\* Move `amount` to a new unstake account; an inactive validator gives up a
\* whole stake account, the last one with all that is left.
Unstake(v, amount, found) ==
    LET b == book[v]
        active == b.status = "AcceptingStakes"
    IN  /\ IsListed(v)
        /\ Width(b.stake_seeds) > 0
        /\ HasUnstakeRoom(b)
        /\ amount <= staked[v]
        /\ ~active /\ Width(b.stake_seeds) = 1 => amount = staked[v]
        /\ b.unstake_accounts_balance + amount <= b.stake_accounts_balance
        /\ book' = [book EXCEPT ![v] =
              Entry(b.status, Skip(b.stake_seeds, IF active THEN 0 ELSE 1),
                    Extend(b.unstake_seeds, 1),
                    b.stake_accounts_balance, b.unstake_accounts_balance + amount)]
        /\ staked' = [staked EXCEPT ![v] = @ - amount]
        /\ unstaking' = [unstaking EXCEPT ![v] = @ + amount + found]

\* A user receives part of the first stake account.
Withdraw(v, amount) ==
    LET b == book[v]
    IN  /\ Width(b.stake_seeds) > 0
        /\ amount <= staked[v]
        /\ b.unstake_accounts_balance + amount <= b.stake_accounts_balance
        /\ book' = [book EXCEPT ![v] =
              Entry(b.status, b.stake_seeds, b.unstake_seeds,
                    b.stake_accounts_balance - amount, b.unstake_accounts_balance)]
        /\ staked' = [staked EXCEPT ![v] = @ - amount]
        /\ UNCHANGED unstaking

MergeStake(v) ==
    /\ Width(book[v].stake_seeds) > 1
    /\ book' = [book EXCEPT ![v].stake_seeds = Skip(@, 1)]
    /\ UNCHANGED <<staked, unstaking>>

\* `observe_balance`, for the stake accounts and for the unstake accounts.
ObserveBalance(v) == /\ staked[v] >= book[v].effective_stake_balance
                     /\ unstaking[v] >= book[v].unstake_accounts_balance

\* Mutation: an unstake account that still holds SOL is skipped.
SkipEmptied_Bug(v, n, removed) == /\ n <= Width(book[v].unstake_seeds)
                                  /\ removed <= unstaking[v]

\* The first `n` unstake accounts can be skipped when `removed` is withdrawn.
SkipEmptied(v, n, removed) == /\ n <= Width(book[v].unstake_seeds)
                              /\ removed <= unstaking[v]
                              /\ n = 0 => removed = 0
                              /\ n = Width(book[v].unstake_seeds) => removed = unstaking[v]

\* Withdraw `excess` from the stake accounts and `removed` with the first `n`
\* unstake accounts, and record what is left.
UpdateStakeAccountBalance(v, excess, n, removed) ==
    LET b == book[v]
    IN  /\ IsListed(v)
        /\ excess <= staked[v]
        /\ SkipEmptied(v, n, removed)
        /\ ObserveBalance(v)
        /\ book' = [book EXCEPT ![v] =
              Entry(b.status, b.stake_seeds, Skip(b.unstake_seeds, n),
                    staked[v] - excess + (unstaking[v] - removed), unstaking[v] - removed)]
        /\ staked' = [staked EXCEPT ![v] = @ - excess]
        /\ unstaking' = [unstaking EXCEPT ![v] = @ - removed]

\* Rewards and donations reach accounts of a validator, of any of them at once.
Receive(stakeGain, unstakeGain) ==
    /\ \A v \in Votes : Width(book[v].stake_seeds) = 0 => stakeGain[v] = 0
    /\ \A v \in Votes : Width(book[v].unstake_seeds) = 0 => unstakeGain[v] = 0
    /\ staked' = [v \in Votes |-> staked[v] + stakeGain[v]]
    /\ unstaking' = [v \in Votes |-> unstaking[v] + unstakeGain[v]]
    /\ UNCHANGED book

\* The bounds, on what a step leads to.
WithinBounds ==
    \A v \in Votes : /\ staked'[v] + unstaking'[v] <= TotalSol
                     /\ book'[v].stake_seeds.end <= MaxSeed
                     /\ book'[v].unstake_seeds.end <= MaxSeed

Step ==
    \/ \E v \in Votes :
          \/ AddValidator(v) \/ RemoveValidator(v) \/ MergeStake(v)
          \/ \E status \in Statuses \ {"NotListed"} : ChangeStatus(v, status)
          \/ \E amount, found \in Amounts :
                \/ \E append \in BOOLEAN : StakeDeposit(v, amount, found, append)
                \/ Unstake(v, amount, found)
          \/ \E amount \in Amounts : Withdraw(v, amount)
          \/ \E excess, removed \in Amounts, n \in 0..MAXIMUM_UNSTAKE_ACCOUNTS :
                UpdateStakeAccountBalance(v, excess, n, removed)
    \/ \E stakeGain, unstakeGain \in [Votes -> Amounts] : Receive(stakeGain, unstakeGain)

Next == Step /\ WithinBounds

Spec == Init /\ [][Next]_vars

-----------------------------------------------------------------------------
(* Properties *)

(***************************************************************************)
(* The stake accounts hold at least the effective balance and the unstake  *)
(* accounts at least the unstake balance that the program tracks, so       *)
(* `observe_balance` never makes UpdateStakeAccountBalance fail with       *)
(* ValidatorBalanceDecreased.                                              *)
(***************************************************************************)
BooksAreBacked == \A v \in Votes : ObserveBalance(v)

(***************************************************************************)
(* A validator without stake and unstake accounts has no balance: what     *)
(* `check_can_be_removed` asserts holds whenever it gets there, and        *)
(* removing the validator does not change the SOL that the pool manages.   *)
(***************************************************************************)
RemovableHasNoBalance ==
    \A v \in Votes :
        Width(book[v].stake_seeds) = 0 /\ Width(book[v].unstake_seeds) = 0
          => book[v].stake_accounts_balance = 0

(***************************************************************************)
(* The parts of the inductive invariant.                                   *)
(***************************************************************************)
RangesAreOrdered ==
    \A v \in Votes : /\ book[v].stake_seeds.begin <= book[v].stake_seeds.end
                     /\ book[v].unstake_seeds.begin <= book[v].unstake_seeds.end
                     /\ Width(book[v].unstake_seeds) <= MAXIMUM_UNSTAKE_ACCOUNTS

EffectiveIsDifference ==
    \A v \in Votes : book[v].stake_accounts_balance
                        = book[v].effective_stake_balance + book[v].unstake_accounts_balance

EmptyRangesHoldNothing ==
    \A v \in Votes : /\ Width(book[v].stake_seeds) = 0 => staked[v] = 0
                     /\ Width(book[v].unstake_seeds) = 0 => unstaking[v] = 0
                     /\ ~IsListed(v) => /\ Width(book[v].stake_seeds) = 0
                                        /\ Width(book[v].unstake_seeds) = 0

\* The inductive invariant of the books.
BooksInv ==
    TypeOK /\ RangesAreOrdered /\ EffectiveIsDifference /\ EmptyRangesHoldNothing
           /\ BooksAreBacked

(***************************************************************************)
(* A validator that is queued for removal stays so until it is removed,    *)
(* and it is removed only when no lamports are left in its accounts.       *)
(***************************************************************************)
PendingRemovalIsIrreversible ==
    [][\A v \in Votes : book[v].status = "PendingRemoval" =>
          \/ book'[v].status = "PendingRemoval"
          \/ book'[v].status = "NotListed" /\ staked[v] = 0 /\ unstaking[v] = 0]_vars

=============================================================================
