# Solido in TLA+

Solido is a liquid staking pool on Solana. Users deposit SOL and receive stSOL; an
on-chain program stakes the SOL with a curated list of validators, and off-chain
*maintainers* (bots that anyone on a list may run) send the transactions that keep the
pool staked, observed and balanced. Owners of a multisig decide on fees, validators
and maintainers. This directory holds TLA+ models of the program, of its maintainer and of
its governance, TLC configurations that check them, and TLAPS proofs.

## 1. The system

| Part | Code | State | Operations |
|---|---|---|---|
| Pool: deposits, withdrawals, exchange rate, fees | `program/src/processor.rs`, `state.rs`, `logic.rs`, `token.rs` | reserve, stSOL supply, recorded `ExchangeRate`, `RewardDistribution` | Deposit, Withdraw, UpdateExchangeRate, `distribute_fees`, ChangeRewardDistribution |
| Stake accounts | `processor.rs`, `process_management.rs`, `state/validator.rs`, `stake_account.rs` | per validator: two `SeedRange`s of stake and unstake accounts, three balances; the accounts themselves belong to Solana's stake program | StakeDeposit (append, merge), Unstake, MergeStake, UpdateStakeAccountBalance |
| Validator list and curation | `process_management.rs`, `state.rs`, `big_vec.rs`, `state/validator_perf.rs` | validator list, performance list, `Criteria` | Add, Enqueue, Deactivate, Remove, DeactivateIfViolates, ReactivateIfComplies, UpdateOn-/OffchainValidatorPerf, ChangeCriteria |
| Maintainer list | `process_management.rs`, `state/maintainer.rs` | list of keys | Add, Remove |
| Set-up and migration | `processor.rs`, `cli/maintainer/src/commands_solido.rs`, `spl_token_utils.rs` | the instance, three list accounts, mint, token accounts | Initialize, MigrateStateToV2; `create-solido`, `create-v2-accounts` |
| Accounts of instructions | `instruction.rs`, `accounts.rs` | none | `to_vec`, `try_from_slice`, dispatch in `process` |
| Governance | `commands_multisig.rs`, `commands_solido.rs`; the multisig program is a submodule | owners, threshold, proposals | propose, show, approve, execute, change owners, upgrade, transfer |
| Stake distribution | `program/src/balance.rs` | none | `get_target_balance`, `get_minimum_stake_validator_index_amount`, `get_unstake_validator_index` |
| Snapshot client | `cli/common/src/snapshot.rs` | accounts to query, learned limit of one RPC call, known validator infos | `with_snapshot`, `get_multiple_accounts_chunked` |
| Maintenance | `cli/maintainer/src/maintenance.rs` | none between rounds (a snapshot) | `try_perform_maintenance` and the `try_*` functions it orders; who is on duty |
| Daemon | `cli/maintainer/src/daemon.rs`, `cli/common/src/error.rs` | last snapshot, estimate of the block time, metrics | loop, sleeps, errors, HTTP server |
| Other commands, configuration, output | `commands_solido.rs`, `config.rs`, `prometheus.rs` | none | deposit, withdraw, show |
| Listener | `cli/listener/src/lib.rs` | SQLite table of rates | poll, query APY |

They interact as follows. A maintainer reads a *snapshot* of all accounts through the
snapshot client, asks `balance.rs` what should move, and sends one instruction. The
program executes instructions one after the other, in any order in which they reach the
cluster, on a state that may be newer than the snapshot: it checks everything again.
Between the instructions the world goes on: epochs pass, stake warms up and cools down,
rewards are paid, vote accounts change their commission or are closed, anybody transfers
SOL to any address, and stSOL holders burn stSOL without asking the program.

What is hard here:

* the program works with *recorded* balances, which are stale from the moment a reward or a
  donation arrives until the next UpdateStakeAccountBalance, and at a rate that is an epoch old;
* stake and unstake accounts form queues whose elements change state on their own and not
  always in order (cool down);
* validators are named by an index into a list that is compacted by swapping;
* all amounts round, and stSOL must never be worth more than there is;
* snapshots are read by several RPC calls and from several nodes;
* maintenance is a feedback loop, with an epoch of delay, between two rounding rules;
* several maintainers act on snapshots of the same chain, and their transactions are executed
  late, twice, or after the daemon gave up on them; who is on duty follows from a list that changes;
* a proposal names entries by index and lies for days before it is executed, while owners,
  thresholds and lists change; the multisig passes on accounts with fewer privileges than
  the program demands, unless every conversion keeps them;
* set-up and migration are sequences of transactions that may stop after any of them.

The hazards, with the line at which each one bites and the properties that would catch it,
are in `PROJECT.json` under `hazards`.

## 2. Modules

```
ExchangeRate   StakeProgram          Instruction    AccountList  Filter   Balance     Filter
    |    \        |                        |       /    |      \    |     /    |         |
  Pool    \       |    StakeBook      Deployment  Curation  Maintenance  Rebalance  SnapshotClient
             \    |    /                   |                    |
               Solido                 Governance             Daemon         Measurement   Listener
```

Modules `...Proofs` hold the theorems about the module they are named after: `PoolProofs`,
`StakeBookProofs`, `SolidoProofs`, `CurationProofs`, `ListenerProofs` and
`GovernanceProofs` (which covers `Deployment` too). `MaintainerProofs` is about the program that maintainers
run, that is about `SnapshotClient`, `Balance`, `Rebalance`, `Maintenance` and `Daemon`: it extends all of them, which is why the
specifications of the first and the third are called `ClientSpec` and `RoundSpec`. `DataLemmas` has what several of these modules need: what
the operators of `AccountList` and `Filter` return, and how sums over finite sets behave.

| Module | Models | Correspondence |
|---|---|---|
| `ExchangeRate` | `ExchangeRate::exchange_sol`, `exchange_st_sol`, `split_reward`, `distribute_fees` | pure operators; `MulRational` is the rounding multiplication of `token.rs` |
| `StakeProgram` | Solana's stake program, external | one record per account: lamports, delegation, phase (warming up, active, cooling down, inactive); split, merge, deactivate, withdraw, rewards |
| `Solido` | all instructions that move SOL or stSOL, at the level of individual stake accounts | `validators[v]` is the `Validator` struct field by field; one action per `process_*` handler (two for the two kinds of StakeDeposit); donations, burns and epochs are actions of the environment |
| `Pool` | abstract: what the pool promises its users | managed SOL, supply, recorded rate |
| `StakeBook` | abstract: what the books of a validator promise | the `Validator` struct and two totals, what really is in its stake and unstake accounts |
| `Instruction` | the accounts of all 21 instructions | one list of roles with their privileges per instruction; `to_vec` is what the builder lists, `try_from_slice` what the handler accepts; signer and writable flags are kept, addresses are roles |
| `Deployment` | `process_initialize`, `process_migrate_to_v2`, and the commands that prepare them | accounts with type tag, size and capacity; all checks of the two handlers, those of the manager, of the maximal commission and of an instance that exists among them; a command is a sequence of transactions each of which is lost, executed, or executed without the client knowing |
| `Governance` | the multisig as its client uses it, the commands that propose, show, approve and execute, and the handlers that need the manager's signature | extends `Deployment`; a command reads the chain in one step and sends in a later one; an interactive approval is four steps, and what it displays (`Display`) is the kind and, where the code prints a difference, the owners or the reward distribution it was taken to; every handler gets an account as the manager, which need be neither the multisig nor signed for: anyone sends any instruction, with the multisig's address or a key of their own (`Attempts`, `Accepted`) |
| `Maintenance` | each `try_*` function as the set (of at most one) of instructions that are due, `try_perform_maintenance` as their order, and what the program makes of each instruction on any pool | `pool` is reserve, rate and validator list; failed execution is the empty set |
| `Daemon` | the loop of `daemon.rs` for several maintainers, and the cluster between them | extends `Maintenance`; one action per iteration, outcome of a transaction, fault, slot and input |
| `AccountList`, `Curation` | the list with `swap_remove`, and every instruction that changes or judges a validator | a pool of submitted transactions that carry an index and are executed or dropped at any later time; the rates of an entry of the perf list are the first bytes of the key of the next one, as in the account (see 6) |
| `Filter` | the n-th element of a set of positions, the elements at those positions | what a filter over a list keeps, without recursion |
| `SnapshotClient` | `with_snapshot`, `get_multiple_accounts_chunked` | one action per RPC answer and per outcome of the callback; the chain changes between any two, in any direction and without a bound |
| `Measurement` | `per64` and the block production rate | a validator that is leader and produces blocks |
| `Balance` | `balance.rs` | pure operators over a list of validators, and the constants of the program that limit stake and unstake accounts |
| `Rebalance` | the instructions that move stake, in the order of `try_perform_maintenance` | deposits, withdrawals and status changes at any moment |
| `Listener` | `cli/listener/src/lib.rs` | `rows` is the table; one action per step of a poll, since requests are answered by other threads in between; a request is received (`Receive`, with the time of `now`) and answered later (`Answer`), for any period; the clock runs on between any two steps |

Modules `MC_*` give constants their values. Operators whose names end in `_Bug` are
mutations: plausible mistakes in the operator that follows them. An invariant `...AreSound`, `OwnersCanDecide` or `BooksInv` is a
conjunction of named parts, one of them the type invariant of its module. `PROJECT.json` names for
every property a mutation that violates it; no specification uses them.

Abstractions: amounts are unbounded integers in units in which rent is 1 (or 0) and the
minimum of a stake account is 2; keys are model values; a transaction is atomic, and one
that fails changes nothing (as Solana guarantees), so an early return is a guard. Signature
and address checks are the choice of parameters, except in `Governance`: elsewhere an action is taken only with
the addresses the program would accept.

## 3. Runs

| Run | Bounds | What it shows |
|---|---|---|
| `pool` | amounts 0, 1, 2, 3, 5; at most 12 SOL; 3 epochs | the recorded rate is covered, never falls, and never values stSOL at nothing |
| `stake_book` | one validator, amounts to 3, three seeds | the inductive invariant of the books, that removal asserts the truth, that PendingRemoval is final |
| `solido_accounts` | one validator, 5 SOL, 3 addresses of each kind, two epochs, one late cool down, fees and the zero distribution | balances are backed by real accounts (BalancesAreSound: TypeOK, TrackedIsBacked, NothingTrackedWithoutAccounts); accounts are usable (AccountsInRangeAreUsable) and none is left behind (NothingIsStranded); an Unstake panics only while a reward or a donation is unrecorded (UnstakeBalanceFits); every step of `Solido` is a step of `Pool` and of `StakeBook`, or a stutter (ImplementsPool, ImplementsBooks), so that what is proved of these holds of the program; section 4 has it for every number of validators |
| `curation_list` | three symmetric validators, two transactions in flight | a stale index never hits another validator; keys stay unique; removal is orderly |
| `curation_perf` | two symmetric validators, a perf list of three entries, two commissions, one value of a rate, two epochs, two criteria | a commission that was seen too high counts until the next epoch, unless a neighbour's rates overwrite the key of its entry (CaughtUntilNextEpoch); keys that are overwritten and restored make no vote account appear twice (ListsAreSound) |
| `curation_layout` | two validators | *violation*: see 6 |
| `snapshot` | a chain that goes to and fro between three states, at most five accounts, nodes with limits 2 and 4, one RPC error | calls are never empty; reads are torn only if the accounts do not fit one call; every snapshot ends, and the set of accounts settles, once the chain stays as it is |
| `rebalance` | three validators, minimum 2, amounts 1 and 16, four inputs | the target is uniform, the program accepts what maintainers send, maintenance comes to rest, balanced |
| `listener` | three epochs of two slots, a clock of five ticks, nodes lag by one slot, one crash, one request at a time, two prices | no period has a negative yield; `duration_epochs` underflows, and answers for the past change, only in the races that the properties name (see 6); the yield since launch is answered again after every gap |
| `governance` | two owners and a candidate, thresholds 1 and 2, a maximal commission that is allowed and one that is not, lists of two, two proposals, two commands; starts from nothing, from an instance of version 1 and from a running one | every change was approved, for that entry and those values, by enough of the present owners, whoever else signs as the manager (ChangesAreApproved); the threshold can be reached and no approved proposal lacks privileges (OwnersCanDecide: TypeOK, ApprovedIsExecutable); how far what a batch approval displayed is what is executed (ShownIsCurrent); an instance that exists is usable (InstanceIsUsable), and a repeated `create-solido` is refused at its end only for what the operator passed or because the instance exists (SetupSucceeds) |
| `maintenance` | two daemons, two validators, two first pools (one unbalanced, one with a validator that leaves), one input, one fault, a blockhash valid for 3 slots, an epoch of 8, slices of 2 with a pause of 1 | transactions of two maintainers race only when one is delayed beyond the pause (TransactionsAreSound: TypeOK, RacesNeedDelay); of two equal ones only one has an effect, but for one case of StakeDeposit (OnlyOneSucceeds); a daemon wakes for its duty (AwakeForDuty); what is due succeeds and changes something, so no daemon spins, panics or is blocked, in all but the cases it names (DueMakesProgress); an active validator keeps its stake whatever stale transactions do (ActiveKeepsItsStake); a validator queued for removal is removed (PendingIsRemoved); one whose vote account is closed is suspended, in all but the cases in which the daemons panic first (ClosedVoteIsDropped) |
| `measure_blocks` | | *violation*: see 6 |

Why the bounds are enough. In `Solido` two seeds give a queue in which the first and the
last account differ and a late account can block another; the third address exists so that
one can be funded before it is used. Two epochs cover warm up and cool down of one account;
in `pool` there are three, for a rate that is skipped for an epoch. 5 SOL with a minimum of 2 allow two
accounts and a reward or a donation. In `pool` the amounts have no common divisors, so every exchange
rounds. In `curation_list` two transactions suffice for one to become stale because of
another; in `curation_perf` two entries overlap, and a third one is room for a vote account whose entry is not found any more. In `rebalance` 16 does not divide by three, and 1 is below the minimum of a stake
account, so each rounding rule has its turn; at most *one* unstake account is allowed
(the program allows three) so that the limit is reached. Each pool of limits in `snapshot`
has a node that refuses what another accepts. In `governance` the running instance has a validator
that anyone may remove at index 1, so that the second one moves under a proposal that
names index 2, and two proposals suffice for one to invalidate the other, or what was displayed of it; a threshold of
two cannot be reached any more if one of two owners is revoked. In `maintenance` a fault is an RPC error, a crash, or a transaction that is not
executed in the slot in which it was sent; with a validity of three slots and a pause of one, a
delayed transaction meets those of the next maintainer. The epoch is a multiple of the duty cycle for one and
for two maintainers, and the staking window opens at 40 % of it, so each epoch has slots of
every kind for everyone. The first pools put the unstaking of active and of inactive validators,
merging, observing and removing within reach of one input.

Deadlock is checked in all passing runs but `governance`, where a proposal may be refused for good and nobody has to propose
another, and the number of proposals is bounded (and in the run `measure_blocks`, whose world ends with its last slot).

### Fairness

* `SnapshotClient`: weak fairness of the client's own steps: a loop that has an answer goes on.
  RPC errors are bounded. The chain may change for ever, and the two liveness properties are about the case that it
  does not: while it does, a snapshot may never end (see 6).
* `Listener`: weak fairness of the steps of a poll (the daemon is an endless loop) and of new slots.
* `Daemon`: weak fairness of the system's own work as one action (a slot passes, a transaction is
  executed or fails, a daemon iterates), and of the restart of one maintainer's daemon, which stays in
  the list. Nothing else is fair: which transaction is executed first, other daemons, inputs and faults
  are free, and faults are bounded in number, since a node that never answers refutes everything.
  The justification is the endless loop of `run` and a supervisor, which the deployment relies on.
  `ClosedVoteIsDropped` has one more condition: the daemon polls on duty, before the end of an epoch, again and again.
  The code does not force its polls to fall there, and elsewhere it panics or is not on duty.
* `Rebalance`: weak fairness of maintenance (maintainers run in a loop, and the instruction
  that is due stays due) and of epochs.

## 4. Proofs

All theorems hold for every value of the constants: any amounts, any number of validators, seeds,
owners, proposals, accounts, slots and epochs. 33 of the 39 properties of the runs that pass are proved.
The assumptions are those of the modules, which TLC evaluates in the runs; they say that amounts,
limits and bounds are natural numbers, and in addition

* `SolidoAssumption`: the set of validators is finite, the minimum of a stake account exceeds its rent
  (`MINIMUM_STAKE_ACCOUNT_BALANCE` is 1 SOL), at least one unstake account is allowed;
* `GovernanceAssumption`: the multisig is created with a threshold its founders can reach (the multisig
  program refuses another), a running instance has unique keys that fit its lists, one of version 1 lists no maintainer twice, and
  the maximal commission of a migration is an `u8`;
* `SnapshotAssumption`: the list of referenced accounts has none twice, and a node accepts at least one
  account per call;
* `ListenerAssumption`: the offset of the query is within an epoch;
* `BalanceAssumption`: a stake account holds something, at least one unstake account is allowed, and the threshold of rebalancing is
  at most one (`UNBALANCE_THRESHOLD` is a tenth);
* `MaintenanceAssumption`, `DaemonAssumption`: the pause is shorter than a slice, a blockhash expires within an epoch, the maintainer list
  names nobody twice, the first pools have unique keys and no stake account below the minimum, and an epoch is a whole
  number of duty cycles. The last one lets one counter of slots serve both: the code computes duty from the
  slot of the chain and the staking time from the slot of the epoch. `RacesNeedDelay` and `AwakeForDuty` are about duty alone.

**Pool.** `SupplyIsCovered` says `supply * num <= managed * den` at the recorded rate. It is
inductive together with the types. The lemmas are about rounding: a deposit mints at most
`amount * den / num`, a withdrawal pays at most `amount * num / den`, and the two fees are
together at most the reward, each rounded down. `PriceNeverDrops` follows: at the moment
UpdateExchangeRate records `managed / supply`, that quotient is at least the old rate.
`StSolNeverWorthless` needs the positive numerator that `PriceNum` has, since an empty rate
counts as one to one.

**StakeBook.** The invariant that matters, `BooksAreBacked` (the accounts hold what is
tracked), is not inductive: it is destroyed by an unstake that takes more than is effective, or
a range that is empty but has a balance. `BooksInv` adds that ranges are ordered and
limited, that the effective balance is the difference of the two others, and that an empty
range holds nothing. Each action preserves each part; the assertion of
`check_can_be_removed` and the irreversibility of PendingRemoval follow.

**Solido.** The program implements both (`SolidoImplementsPool`, `SolidoImplementsBooks`): each handler is shown
to be a step of the abstract specification or a stutter, in the state that the inductive
invariant describes. `SolidoInv` consists of

* `AccountsAreOrderly`: an address before the seed range of its validator is empty, one in the range is in a
  phase that the range is for, and one after it is not created, though somebody may
  have sent SOL there. Without it, a stake account would be created over another one, or a merge would leave one behind;
* `SolIsConserved`: reserve, accounts and the SOL outside add up. It bounds every amount that a step moves;
* `BooksInv` of the mapped books, which is why the accounts that an instruction names exist;
* `TypeOK` and `SupplyIsCovered` of the mapped pool, and `RateIsAtLeastPar`: one stSOL is worth at least one SOL,
  so that stSOL amounts are bounded by the managed SOL.

The invariants of the abstract modules are not proved again: `SolidoProofs` instantiates `PoolProofs` and
`StakeBookProofs` with the refinement mapping, and their theorems hold for the program
(`SolidoSupplyIsCovered`, `SolidoPriceNeverDrops`, `SolidoPendingRemovalIsIrreversible`). `BalancesStaySound`,
`AccountsStayUsable`, `NothingGetsStranded` and `UnstakeBalanceKeepsFitting` follow from `SolidoInv`: what the program tracks
exists, no withdrawal is negative, no SOL is left where no instruction reaches it,
and Unstake panics only while a reward or a donation is not yet recorded.

Sums over accounts and validators are folds over finite sets. What is needed of them
(a changed term changes the sum by the difference; the sum of a part is at most that of the whole; what
moves between two sums) is proved in `DataLemmas` without the theorems about induction: a counterexample would have
a smallest size, and taking one element away from it gives a smaller one.

**Curation.** `ListsAreSound` (types, capacities, unique keys, nothing from a future epoch) is inductive. For the perf list, uniqueness holds
also while keys are overwritten, because what identifies an entry is more than the bytes that are overwritten: an entry
whose key is damaged can only be found again when two rates restore its first bytes, and only vote accounts for which
that is possible are excepted. That a
stale index is harmless (`OnlyTheNamedValidator`), that removal is orderly and that a commission that was seen
too high stays so until the next epoch, unless its key is overwritten, are facts about each step in a state with sound lists. The lemmas about
`push`, an overwritten entry and `swap_remove` say what happens to the entries of all *other* keys.

**SnapshotClient.** `SnapshotInv` adds to the types that the limit that was learned is not below that of every node, and
what is true during an attempt: it has at most as many chunks as accounts, several only if one
call is known to be too large, and if it has just one chunk, all its accounts were read at once. Neither
`CallsAreSound` nor `TornOnlyIfTooLarge` is inductive without it.

**Listener.** `ListenerInv` relates the table to the chain: the price on the chain never falls, each row and the
data point about to be inserted are what the chain recorded in their slots and are older than the clock, which has moved on since
they were taken. Then
`IntervalsAreSound` follows from the arithmetic of slots and epochs, and `PastAnswersAreFinal` from the place a new row
takes in the order of the rows. The two races that they except are in section 6.

**Deployment and Governance.** `GovernanceInv` has two halves. The first says that an account
with the type of a list holds such a list and has the bytes for it, that an instance of either version names
accounts that exist and fit it and has the multisig as its manager, and what a run of `create-solido` has put in place at each
of its steps. `InstanceIsUsable` and `SetupSucceeds` follow. The second is about proposals: while the
sequence number of a proposal is the present one, its flags are those of just the owners who agreed.
This is the reason why a change of owners cannot turn an approval into one by somebody else, and it gives
`OwnersCanDecide`. Privileges are compared role by role for each instruction that can be proposed.

For `ChangesAreApproved` each handler is shown to make just the change that its arguments say, on the entry
that they name (`ChangesByKind`). An instruction that is sent directly is one of the two that need no
manager: in all others either the multisig's address is given, which did not sign, or the key that signed is not the manager's.

`ShownIsCurrent` has an invariant of its own, `DisplayInv`, on top of the first: a display remembers which proposals were executed
before it, so what it shows of the owners is current while the sequence number is, and what it shows of the reward distribution
is current or one more proposal of that kind has been executed. It is shown from one fact about all steps (`HistoryGrows`): owners change
only with their sequence number, and the instance only by a proposal.

**Balance and Rebalance.** `RoundTypeOK` is inductive: it has the types, and that the balances in the books are the sums of the stake and of the unstake
accounts (`BooksAgree`). Sums are recursive functions; what is needed of them (the sum of a
list that is extended, shortened, cut in two or changed in one place) is proved as in `DataLemmas`. Then

* `get_target_balance` gives each active validator the quotient, and one more to as many of them as the remainder says. The lemma behind
  it counts the active validators up to a position (`RankOf`), so that the target adds up to the total and
  no two differ by more than one, for a list of any length: `TargetIsUniform`;
* `get_minimum_stake_validator_index_amount` returns the first validator with the least stake and `get_unstake_validator_index` the last one
  with the greatest excess. So the program, which looks for the least stake among the active validators again, agrees
  with the choice of the maintainer, and what is unstaked leaves the minimum behind: `InstructionsStaySound`;
* at rest nobody needs unstaking or the one with the greatest excess cannot give the minimum, and nobody can be staked with,
  which bounds the reserve and each excess: `PoolRestsBalanced`. It needs that the targets add up to the total: if the reserve
  held the minimum, some active validator would be below its target.

**Maintenance and Daemon.** `DaemonInv` is inductive. To the types it adds what `TypeOK` and the properties need:

* no validator is listed twice, no stake account is below the minimum (`IsPool`);
* each transaction under way was sent when its sender was on duty by the list it carries, and it is younger than its blockhash allows.
  `RacesNeedDelay` is not inductive without it: that two transactions of different maintainers differ in age by more than the pause follows from the slots in
  which they were sent, which lie in different slices of one list, with a pause in between, also across the end of an epoch;
* a daemon waits for at most one transaction.

That each of the ten instructions keeps `IsPool` is shown once, for the entry that the instruction
replaces, and not for each action of the daemon. From it follow

* `ActiveStakeIsKept`: an Unstake that was computed for an inactive validator and takes its whole account is refused by an active one;
* `OnlyOneKeepsSucceeding`, one lemma per kind of instruction: its own effect (a seed that moved, a commission that is now of this epoch, an
  entry that is gone) makes the same instruction fail or do nothing;
* `DueKeepsProgressing`, one lemma per `try_*` function: what it finds due, the program accepts, and the result is another pool. For staking and unstaking
  it uses the lemmas about `Balance`; for indices into the performance vector it uses that no entry is left out while all vote accounts are open;
* `DaemonsWakeForDuty`: `get_next_maintainer_duty_slot` returns the first beginning of a slice of that maintainer
  after the present slot, so there is none between the two, and the sleep ends before it.

Only model-checked:

* liveness, which the prover does not support: `ClosedVoteIsDropped`, `EverySnapshotEnds`, `SettlesWithTheChain`,
  `ComesToRest`, `AnsweredAgain`, `PendingIsRemoved`;
* `RateIsInRange` of `Measurement`, which is violated.

## 5. What is not modelled

* The Borsh encoding of instructions and of the instance, the byte layout of vote accounts
  (`vote_state.rs`), error texts and logging: conversions without state.
* `metrics.rs`: counters that the handlers add to and never read.
* The commands `deposit`, `withdraw` and `show-*`, which send one instruction that `Solido` has as an
  action, or print; the parsing of arguments and configuration files (`config.rs`).
* The HTTP servers of the daemon and of the listener, and the metrics they print.
* The JavaScript client, the Python scripts and the test library `testlib`: the first two convert and
  script, and the third drives the program in its tests.
* The width of integers: amounts are unbounded. Products are computed in 128 bits by the code.

Solana's programs and the multisig program are external, modelled from their use.

Simplifications to know of:

* `Solido` leaves out the choice of *which* validator by performance (it is in `Curation`),
  `Curation` leaves out amounts.
* `SnapshotClient`: the accounts of the configuration are never closed, and the error that
  `SolidoState::new` swallows for a closed vote account does not occur.
* `Maintenance`: the performance list is not full (`processor.rs:643`) and its entries are apart. `Curation` has the list
  with its capacity and its overlapping entries.
* `Rebalance`: snapshots are fresh, `StakeTime::Anytime`, no rewards. Rebalancing neither checks
  the maximum of unstake accounts nor skips validators that have it, so its instruction
  is rejected until the next epoch: `InstructionsAreAccepted` (a part of `InstructionsAreSound`) says so.
* `Listener`: the clock of the host is never set back, all stSOL is never burned at once (the
  rate may then start again at one to one), and the length of a sleep plays no role.
* `Maintenance` and `Daemon`: commissions are low or high and the measured rates meet the
  criteria; unstaked SOL is inactive from the next epoch on; rent is left out. A daemon that is awake polls before the next slot (a slot of
  the model is several of the chain's); the estimate of the block time is exact once two
  different slots were observed; a failed execution is noticed at once.
* `Governance`: one owner's command is in progress at a time, while all others take whole steps;
  a validator that is queued for removal has no stake left; fees are opaque, and of the criteria only the
  maximal commission is kept. Of what is displayed only that is kept which depends on the state of the chain. An instruction that
  cannot be decoded is not among the proposals, for no command proposes one.

## 6. Findings and observations

Two disagreements with the code's own statements are runs:

* `snapshot.rs:243`: the block production rate is the inverse of what its range requires, and
  `per64`'s assertion fails (`measure_blocks`).
* `validator_perf.rs:118`: an entry of the performance list has 64 bytes in the account, and the struct to which
  these are cast has 80. Recording the two rates of one entry (`processor.rs:693`) writes them over the first 16 bytes of the key of
  the next one, whose vote account is then not found, and gets a second entry (`curation_layout`). `push` on the other hand overwrites the
  rates of the entry before. So `CaughtUntilNextEpoch` has to except a key that is overwritten.

The models take these steps as the code does. The properties that come near say exactly how far
the code goes, and each of the following is a case that one of them has to except, or that was met
while modelling:

* Unstake of an inactive validator panics while its stake account holds a reward that is not recorded
  (`validator.rs:83`), and maintainers try Unstake before the observation that would cure it
  (`maintenance.rs:778`): the validator stays until somebody else sends UpdateStakeAccountBalance.
  `UnstakeBalanceFits` shows that nothing else causes the panic, `DueMakesProgress` and `PendingIsRemoved` except it.
* `SolidoState::new` skips validators with a closed vote account in some of its vectors
  (`maintenance.rs:555`), which are then indexed as if it had not: those behind it are judged by the
  numbers of another, and the last one makes the daemon panic: in every round when an open account comes behind a
  closed one (`maintenance.rs:1040`), and at the end of an epoch whenever any is closed (`maintenance.rs:1084`). Both come
  before DeactivateIfViolates, which would suspend the validator. `DueMakesProgress`, `ClosedVoteIsDropped`.
* `try_unstake_from_active_validators` may choose an inactive validator, or one at its maximum of unstake
  accounts; the program refuses until the next epoch, and removal waits behind it. `DueMakesProgress`.
* The comment at `processor.rs:260` ("only one of them succeeds") is not true for StakeDeposits that merge into the account of
  this epoch while the validator still has the least stake after the first one: both are executed, and more is staked than either
  maintainer wanted. `OnlyOneSucceeds` excepts just them.
* The comment at `maintenance.rs:1583` says that "for some operations (like unstake) we don't have this protection yet". An Unstake
  does have it: the first one moves the seed of the account that the second one names. `OnlyOneSucceeds` covers it.
* `with_snapshot` has no bound on its retries: when the info of a validator moves again between each reload and the next read it never
  ends, as the comment at `snapshot.rs:14` expects ("we are stuck in a loop"). `EverySnapshotEnds` is about a chain that settles.
* The listener takes `now` when it receives a request (`lib.rs:769`) and queries the table later (`lib.rs:697`), in a thread of its own. If the
  first row behind the begin of a period is inserted in between, the begin may be of a later epoch than the end, and the subtraction in `duration_epochs` (`lib.rs:131`)
  underflows. `IntervalsAreSound` excepts just this case.
* The listener inserts a row (`lib.rs:897`) with the time at which its poll began (`lib.rs:867`). A period that ended in between is in the
  past and may be answered without the row, and that answer be cached for a week. `PastAnswersAreFinal` excepts just this case.
* The pause between slices is shorter than the life of a blockhash, so it makes races rare, not impossible. `RacesNeedDelay`.
* After a transaction that failed, a daemon counts its sleep from the snapshot that it took before it waited, and
  sleeps too long by that time. `AwakeForDuty`.
* `process_migrate_to_v2` never saves the performance list, so that the handlers which read it fail on a migrated
  instance; `create-v2-accounts` does not create it; `max_commission_percentage` is proposed, displayed and checked, and then
  not used: the instance gets the default criteria. `InstanceIsUsable` speaks of the other two lists.
* `create-solido` does not check the mint or the maximal commission that it is given, and sends its other transactions before the program refuses
  them with the last one; and an instance whose creation was executed though the client gave up refuses every later run, also at its end. `SetupSucceeds`.
* Neither Initialize nor the migration checks that the performance list is another account than the validator list.
* Proposals with an index cannot be executed once a removal has moved the entry: `ChangesAreApproved` shows that
  they never hit another one. Of two proposals to add or revoke an owner that were built from the same
  owners only one can be executed, and none that revokes an owner when there are just as many as the threshold.
* EnqueueValidatorForRemoval and a change of the upgrade authority are displayed as invalid or unrecognized, as is a new reward distribution
  before the instance is migrated. `ShownIsCurrent` excepts them.
* A new reward distribution is displayed as a difference to that of the instance (`commands_multisig.rs:1031`). Another proposal that is executed
  between the display and the execution makes the difference wrong, and no sequence number prevents it, as it does for owners. `ShownIsCurrent` excepts it.
* `approve_transactions` ends at the first "no", though it says that it continues.
* The backoff of the listener grows with the time since the last success, which is set once at its start and never again.
* `vote_success_rate` is computed from the credits of the whole life of the vote account (`maintenance.rs:1106`).
* ReactivateIfComplies, which anyone may send, reactivates validators that the owners suspended by a vote; the comment at
  `process_management.rs:241` speaks of validators "deactivated by `DeactivateIfViolates`" only. `ChangesAreApproved` excepts it.

## 7. Plan

1. An epoch that is not a whole number of duty cycles in `Daemon`: a second counter of slots, for the staking time.
2. The width of integers, as a module about `token.rs`.
3. Two sessions at a time in `Governance`, when the state space allows it.
