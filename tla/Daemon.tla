------------------------------- MODULE Daemon -------------------------------
(***************************************************************************)
(* The maintenance daemons of several maintainers: each polls the chain,   *)
(* sends the first instruction that is due while it is on duty, waits for  *)
(* its confirmation, and sleeps until its next duty.  A transaction is     *)
(* executed at any time before its blockhash expires, or never, also after *)
(* the daemon gave up on it; RPC calls fail, daemons crash and restart, and*)
(* meanwhile users, node operators and the manager change the pool.        *)
(*                                                                         *)
(* A daemon that is awake polls before the next slot: a slot of this model *)
(* is several of the chain's, and a poll takes less than a slice.          *)
(* EpochLength is a multiple of every duty cycle, so that the slot of the  *)
(* epoch determines who is on duty.  The estimate of the block time is     *)
(* exact once two different slots were observed.                           *)
(***************************************************************************)
EXTENDS Maintenance

CONSTANTS
    Maintainers,     \* keys of maintainers
    Reliable,        \* one that stays in the list
    FirstList,       \* the maintainer list at first, a sequence of keys
    FirstPools,      \* what the pool may be at first
    PollInterval,    \* max_poll_interval_seconds, in slots
    MaxBackoff,      \* the longest sleep after an error
    Expiry,          \* slots that a blockhash is valid
    DepositAmounts,  \* amounts that users deposit
    Inputs,          \* bound: deposits, rewards and changes by operators and manager
    Faults           \* bound: failures of RPC calls and daemons, transactions that are delayed

ASSUME DaemonAssumption ==
    /\ IsFiniteSet(Maintainers)
    /\ FirstList \in Seq(Maintainers)
    /\ \A i, j \in DOMAIN FirstList : FirstList[i] = FirstList[j] => i = j
    /\ \E i \in DOMAIN FirstList : FirstList[i] = Reliable
    /\ \A p \in FirstPools : IsPool(p)
    /\ \A n \in 1 .. Cardinality(Maintainers) : EpochLength % (n * SLICE_LENGTH) = 0
    /\ PollInterval \in Nat \ {0}
    /\ MaxBackoff \in Nat
    /\ Expiry \in Nat \ {0} /\ Expiry < EpochLength
    /\ DepositAmounts \subseteq Nat
    /\ Inputs \in Nat /\ Faults \in Nat

VARIABLES
    daemon,   \* daemon[m]: what the daemon of maintainer m is doing
    pending,  \* transactions that were sent and may still be executed
    left      \* inputs and faults that may still occur

vars == <<slot, maintainers, pool, daemon, pending, left>>

\* A daemon is up (`sleep` slots from its next poll; `failed`: after an error without a
\* snapshot), waiting for a transaction, or down.  `clocks`: the estimator has observed no
\* slot, only that of the latest snapshot, or an earlier one, without which there is no
\* estimate of the block time.
DaemonStates == [mode : {"up", "failed", "waiting", "down"}, sleep : Nat,
                 clocks : {"none", "one", "several"}]

Started == [mode |-> "up", sleep |-> 0, clocks |-> "none"]

\* The transaction a daemon waits for, at most one.
Awaited(m) == {p \in pending : p.by = m /\ p.awaited}

IsDue(m) == daemon[m].mode \in {"up", "failed"} /\ daemon[m].sleep = 0

-----------------------------------------------------------------------------
(* Sleeping *)

\* publish_snapshot observes the slot of a snapshot that was taken `ago` slots before.
Observed(clocks, ago) ==
    IF clocks = "several" \/ ago > 0 THEN "several" ELSE "one"

\* Until the next duty, or for the poll interval, counted from the slot of the snapshot,
\* which was taken `ago` slots before.
estimate_time_until_slot(m, ago) ==
    IF daemon[m].clocks # "several" THEN {}
    ELSE {target - (slot + EpochLength - ago) :
            target \in get_next_maintainer_duty_slot(m, slot + EpochLength - ago)}

sleep_until_next_iteration(m, ago) ==
    LET times == estimate_time_until_slot(m, ago) \cup {PollInterval}
    IN  CHOOSE t \in times : \A u \in times : t <= u

\* publish_snapshot, and then sleep.
Sleeps(m, ago) ==
    [mode |-> "up", sleep |-> sleep_until_next_iteration(m, ago),
     clocks |-> Observed(daemon[m].clocks, ago)]

\* publish_snapshot, and poll again at once.
PollsAgain(m, ago) == [mode |-> "up", sleep |-> 0, clocks |-> Observed(daemon[m].clocks, ago)]

-----------------------------------------------------------------------------
(* The main loop *)

\* A transaction that is built and sent.
Transaction(m, ins) ==
    [by |-> m, at |-> Position(maintainers, m), ins |-> ins, age |-> 0,
     list |-> maintainers, awaited |-> TRUE]

\* One iteration: idle when not on duty or nothing is due, and else the instruction is
\* sent, unless the daemon panics or the node refuses it in the preflight.
run_maintenance_iteration(m) ==
    /\ IsDue(m)
    /\ \E due \in {IF m \in get_current_maintainer_duty THEN try_perform_maintenance ELSE {}} :
       IF due = {}
       THEN /\ daemon' = [daemon EXCEPT ![m] = Sleeps(m, 0)]
            /\ UNCHANGED pending
       ELSE \E ins \in due :
              IF ins = Panic
              THEN /\ daemon' = [daemon EXCEPT ![m] = [Started EXCEPT !.mode = "down"]]
                   /\ UNCHANGED pending
              ELSE IF Executed(ins, m, Position(maintainers, m)) = {}
              THEN /\ daemon' = [daemon EXCEPT ![m] = Sleeps(m, 0)]
                   /\ UNCHANGED pending
              ELSE /\ pending' = pending \cup {Transaction(m, ins)}
                   /\ daemon' = [daemon EXCEPT ![m].mode = "waiting"]
    /\ UNCHANGED <<slot, maintainers, pool, left>>

Fault == left.faults > 0 /\ left' = [left EXCEPT !.faults = @ - 1]

\* No snapshot: sleep_after_error takes a random time.
ErrSnapshot(m, time) ==
    /\ IsDue(m)
    /\ Fault
    /\ daemon' = [daemon EXCEPT ![m].mode = "failed", ![m].sleep = time]
    /\ UNCHANGED <<slot, maintainers, pool, pending>>

\* Sending fails, or the maintainer cannot pay for the transaction.
ErrMaintenance(m) ==
    /\ IsDue(m)
    /\ m \in get_current_maintainer_duty
    /\ Fault
    /\ daemon' = [daemon EXCEPT ![m] = Sleeps(m, 0)]
    /\ UNCHANGED <<slot, maintainers, pool, pending>>

\* The confirmation fails or takes too long; the transaction may still be executed.
FailToConfirm(m) ==
    /\ daemon[m].mode = "waiting"
    /\ IF Awaited(m) = {}
       THEN daemon' = [daemon EXCEPT ![m] = Sleeps(m, Expiry)] /\ UNCHANGED left
       ELSE /\ Fault
            /\ \E p \in Awaited(m) : daemon' = [daemon EXCEPT ![m] = Sleeps(m, p.age)]
    /\ pending' = {[p EXCEPT !.awaited = @ /\ p.by # m] : p \in pending}
    /\ UNCHANGED <<slot, maintainers, pool>>

\* A transaction is executed, with or without success.
Execute(p) ==
    LET results == Executed(p.ins, p.by, p.at)
    IN  /\ pending' = pending \ {p}
        /\ IF results = {} THEN UNCHANGED pool ELSE pool' \in results
        /\ daemon' = IF p.awaited
                     THEN [daemon EXCEPT ![p.by] = IF results = {} THEN Sleeps(p.by, p.age)
                                                                   ELSE PollsAgain(p.by, p.age)]
                     ELSE daemon
        /\ UNCHANGED <<slot, maintainers, left>>

Crash(m) ==
    /\ daemon[m].mode # "down"
    /\ Fault
    /\ daemon' = [daemon EXCEPT ![m] = [Started EXCEPT !.mode = "down"]]
    /\ pending' = {[p EXCEPT !.awaited = @ /\ p.by # m] : p \in pending}
    /\ UNCHANGED <<slot, maintainers, pool>>

Restart(m) ==
    /\ daemon[m].mode = "down"
    /\ daemon' = [daemon EXCEPT ![m] = Started]
    /\ UNCHANGED <<slot, maintainers, pool, pending, left>>

-----------------------------------------------------------------------------
(* Time *)

\* What the start of an epoch changes.
Aged(v) ==
    [v EXCEPT !.commission_is_new = FALSE, !.rest_is_new = FALSE, !.fresh = FALSE,
              !.cooled = Len(v.unstakes)]

\* Daemons that are awake act first.  A transaction that is not executed in the slot in which
\* it was sent is a fault; afterwards it may stay under way until its blockhash expires.
Tick ==
    /\ \A m \in Maintainers : ~IsDue(m) /\ (daemon[m].mode = "waiting" => Awaited(m) # {})
    /\ LET delayed == Cardinality({p \in pending : p.age = 0})
       IN  delayed <= left.faults /\ left' = [left EXCEPT !.faults = @ - delayed]
    /\ slot' = (slot + 1) % EpochLength
    /\ pool' = IF slot' # 0 THEN pool
               ELSE [pool EXCEPT !.rate = FALSE,
                                 !.list = [i \in DOMAIN @ |-> Aged(@[i])]]
    /\ pending' = {[p EXCEPT !.age = @ + 1] : p \in {q \in pending : q.age + 1 < Expiry}}
    /\ daemon' = [m \in Maintainers |->
                    [daemon[m] EXCEPT !.sleep = IF @ > 0 THEN @ - 1 ELSE 0,
                                      !.clocks = IF @ = "one" /\ daemon[m].mode # "waiting"
                                                 THEN "several" ELSE @]]
    /\ UNCHANGED maintainers

-----------------------------------------------------------------------------
(* Inputs *)

Input == /\ left.inputs > 0
         /\ left' = [left EXCEPT !.inputs = @ - 1]
         /\ UNCHANGED <<slot, daemon, pending>>

Deposit(amount) ==
    /\ Input
    /\ pool' = [pool EXCEPT !.reserve = @ + amount]
    /\ UNCHANGED maintainers

\* A reward or a donation on the first stake account.
Reward(i) ==
    /\ Input
    /\ pool.list[i].stakes # <<>>
    /\ pool' = [pool EXCEPT !.list[i].stakes[1] = @ + 1]
    /\ UNCHANGED maintainers

\* The node operator changes the commission or closes the vote account.
ChangeVoteAccount(i, vote) ==
    /\ Input
    /\ IsOpen(pool.list[i])
    /\ vote # pool.list[i].vote
    /\ pool' = [pool EXCEPT !.list[i].vote = vote]
    /\ UNCHANGED maintainers

\* The manager suspends a validator or queues it for removal.
ChangeStatus(i, status) ==
    /\ Input
    /\ status = "StakesSuspended" => IsActive(pool.list[i])
    /\ pool.list[i].status # "PendingRemoval"
    /\ pool' = [pool EXCEPT !.list[i].status = status]
    /\ UNCHANGED maintainers

\* The manager adds or removes a maintainer.
ChangeMaintainers(m) ==
    /\ Input
    /\ m # Reliable
    /\ maintainers' = IF m \in Keys(maintainers)
                      THEN SwapRemove(maintainers, Position(maintainers, m))
                      ELSE Append(maintainers, [pubkey |-> m])
    /\ UNCHANGED pool

-----------------------------------------------------------------------------
Init ==
    /\ slot = 0
    /\ maintainers = [i \in DOMAIN FirstList |-> [pubkey |-> FirstList[i]]]
    /\ pool \in FirstPools
    /\ daemon = [m \in Maintainers |-> Started]
    /\ pending = {}
    /\ left = [inputs |-> Inputs, faults |-> Faults]

Next ==
    \/ \E m \in Maintainers :
          \/ run_maintenance_iteration(m)
          \/ \E time \in 0 .. MaxBackoff : ErrSnapshot(m, time)
          \/ ErrMaintenance(m) \/ FailToConfirm(m) \/ Crash(m) \/ Restart(m)
          \/ ChangeMaintainers(m)
    \/ \E p \in pending : Execute(p)
    \/ Tick
    \/ \E amount \in DepositAmounts : Deposit(amount)
    \/ \E i \in DOMAIN pool.list :
          \/ Reward(i)
          \/ \E vote \in {"low", "high", "closed"} : ChangeVoteAccount(i, vote)
          \/ \E status \in {"StakesSuspended", "PendingRemoval"} : ChangeStatus(i, status)

Spec == Init /\ [][Next]_vars

\* The steps that are not an input or a fault.
Work ==
    \/ Tick
    \/ \E p \in pending : Execute(p)
    \/ \E m \in Maintainers : FailToConfirm(m) \/ run_maintenance_iteration(m)

(***************************************************************************)
(* The system does not come to a halt, and a supervisor restarts the daemon*)
(* that is Reliable.  Together with the bound on faults: all but a few     *)
(* transactions are executed in time.                                      *)
(***************************************************************************)
FairSpec == Spec /\ WF_vars(Work) /\ WF_vars(Restart(Reliable))

-----------------------------------------------------------------------------
(* Properties *)

\* The state is well typed: indices, seeds and amounts stay natural numbers, no validator is
\* listed twice, no stake account is below the minimum, a transaction is younger than its
\* blockhash allows, and at most one transaction of a daemon is awaited, by a daemon that
\* waits.
TypeOK ==
    /\ slot \in 0 .. (EpochLength - 1)
    /\ Reliable \in Keys(maintainers) /\ Keys(maintainers) \subseteq Maintainers
    /\ IsPool(pool)
    /\ daemon \in [Maintainers -> DaemonStates]
    /\ \A p \in pending : p.age < Expiry /\ p.ins # Panic
    /\ \A m \in Maintainers : /\ Cardinality(Awaited(m)) <= 1
                              /\ Awaited(m) # {} => daemon[m].mode = "waiting"

\* The pause between duty slices (MAINTAINER_DUTY_PAUSE_LENGTH): as long as the list does
\* not change, transactions of two maintainers are only under way together when the older
\* one has been so for longer than the pause.
RacesNeedDelay ==
    \A p, q \in pending :
        p.by # q.by /\ p.list = q.list => p.age - q.age > PAUSE_LENGTH \/ q.age - p.age > PAUSE_LENGTH

\* What holds of the transactions under way, at all times: their types, and that they only
\* race when one is delayed.
TransactionsAreSound == TypeOK /\ RacesNeedDelay

\* How long a daemon that is about to sleep has waited since its snapshot.
Waited(m) ==
    IF daemon[m].mode # "waiting" THEN 0
    ELSE IF Awaited(m) = {} THEN Expiry
    ELSE (CHOOSE p \in Awaited(m) : TRUE).age

DutyBegins(m, at) ==
    /\ at % SLICE_LENGTH = 0
    /\ maintainers[((at \div SLICE_LENGTH) % Len(maintainers)) + 1].pubkey = m

\* sleep_until_next_iteration wakes a daemon for its duty: it never sleeps through the
\* beginning of a slice of its own, once it can estimate the block time, except for as long
\* as it had waited for a transaction before it counted the time.
AwakeForDuty ==
    [][\A m \in Maintainers :
         (daemon[m].clocks = "several" /\ daemon'[m].mode = "up" /\ daemon'[m] # daemon[m]
            /\ slot' = slot)
         => \A t \in 1 .. (daemon'[m].sleep - Waited(m) - 1) : ~DutyBegins(m, slot + t)]_vars

\* Cases in which the instruction that is due is refused, so that it stays due.
Refused(ins) ==
    /\ ins.kind = "Unstake"
    /\ LET v == pool.list[ins.index]
       IN  \/ Len(v.unstakes) >= MAXIMUM_UNSTAKE_ACCOUNTS
           \/ ~IsActive(v) /\ Unrecorded(v) > 0

\* After a success the daemon does not sleep (run), and after an error it tries the same
\* again: so what is due on an unchanged pool must succeed and must change the pool, or the
\* daemon spins, or nothing behind that instruction is ever done.  It does, and the daemon
\* does not panic at an index behind the end of a vector of the snapshot, unless a vote
\* account is closed (SolidoState then leaves validators out of these vectors), more would be
\* unstaked than the books hold because a reward is not yet recorded, or the validator that is
\* furthest above its target, perhaps an inactive one, has no unstake account left.
DueMakesProgress ==
    \A ins \in try_perform_maintenance :
        \/ \E i \in DOMAIN pool.list : ~IsOpen(pool.list[i])
        \/ /\ ins # Panic
           /\ \/ Refused(ins)
              \/ \E result \in Executed(ins, Reliable, Position(maintainers, Reliable)) :
                    result # pool

\* A StakeDeposit that merges names the same accounts for the whole epoch.  After it was
\* executed its validator still has no more stake than any other.
IsStillLeast(ins) ==
    /\ ins.kind = "StakeDeposit" /\ Len(ins.seeds) = 2
    /\ \E i \in Named(ins) : HasLeastStake(i)

\* Racing transactions: of two with the same instruction only one succeeds, or the second is
\* without effect.  The first is executed here, which takes no slot.  The comment of
\* get_current_maintainer_duty says that "for some operations (like unstake) we don't have
\* this protection yet"; an Unstake does have it, because the first one moves the seed of the
\* new account.  The comment of process_stake_deposit says that "when two maintainers create
\* the same StakeDeposit transaction, only one of them succeeds", and here is the exception: one
\* that merges into the account of this epoch is executed twice when its validator has the least
\* stake also after the first.
OnlyOneSucceeds ==
    [][\A p, q \in pending :
         (/\ p # q /\ p.ins = q.ins
          /\ pending' = pending \ {p} /\ slot' = slot
          /\ pool' # pool)
         => \/ Executed(q.ins, q.by, q.at)' \subseteq {pool'}
            \/ IsStillLeast(q.ins)']_vars

\* The first stake account of a validator that remains active keeps the minimum balance that
\* try_unstake_from_active_validators relies on ("Stake account should always have the
\* minimum amount."), whatever stale transactions are executed.
ActiveKeepsItsStake ==
    [][\A i \in DOMAIN pool.list, j \in DOMAIN pool'.list :
         (/\ pool.list[i].pubkey = pool'.list[j].pubkey
          /\ IsActive(pool.list[i]) /\ IsActive(pool'.list[j])
          /\ pool.list[i].stakes # <<>>)
         => /\ pool'.list[j].stakes # <<>>
            /\ pool'.list[j].stakes[1] >= MINIMUM_STAKE_ACCOUNT_BALANCE]_vars

IsPending(k) ==
    \E i \in DOMAIN pool.list : pool.list[i].pubkey = k /\ pool.list[i].status = "PendingRemoval"

\* A validator that the manager queued for removal is removed in the end: its stake is
\* unstaked, withdrawn and it leaves the list, as long as one maintainer's daemon runs.  Two
\* cases block the daemons for good: a closed vote account, and a reward on an account of
\* an inactive validator, whose Unstake is refused before the reward is recorded.
PendingIsRemoved ==
    \A k \in UNION {Keys(p.list) : p \in FirstPools} :
        IsPending(k) ~> (\/ ~IsPending(k)
                         \/ \E i \in DOMAIN pool.list :
                               \/ ~IsOpen(pool.list[i])
                               \/ ~IsActive(pool.list[i]) /\ Unrecorded(pool.list[i]) > 0)

IsDropped(k) ==
    ~\E i \in DOMAIN pool.list :
        pool.list[i].pubkey = k /\ IsActive(pool.list[i]) /\ ~IsOpen(pool.list[i])

\* The daemon polls while it is on duty, before the end of the epoch.
IsAtWork(m) == IsDue(m) /\ m \in get_current_maintainer_duty /\ ~is_at_epoch_end

\* A validator whose vote account is closed gets no stake any more in the end, as the comments
\* of SolidoState::new and do_update_onchain_validator_perfs say: "this validator shall be
\* removed by a the subsequent `deactivate_if_violates` step".  That takes a daemon that polls
\* on duty again and again before the end of an epoch, for at the end of the epoch
\* every daemon panics in do_update_offchain_validator_perfs, which comes before that step.
\* The step is not reached in two more cases: when a vote account that is closed comes before
\* an open one in the list, the daemon panics in every iteration, and an Unstake that is
\* refused comes before it.
ClosedVoteIsDropped ==
    []<>IsAtWork(Reliable) =>
        \A k \in UNION {Keys(p.list) : p \in FirstPools} :
            ~IsDropped(k) ~> (\/ IsDropped(k)
                              \/ \E i, j \in DOMAIN pool.list :
                                    i < j /\ ~IsOpen(pool.list[i]) /\ IsOpen(pool.list[j])
                              \/ \E i \in DOMAIN pool.list :
                                    ~IsActive(pool.list[i]) /\ Unrecorded(pool.list[i]) > 0)

=============================================================================
