------------------------------ MODULE Curation ------------------------------
(***************************************************************************)
(* Which validators the pool delegates to: the validator list, the measured*)
(* performance of validators, the criteria, and the vote accounts that the *)
(* node operators control.  Transactions that name a validator by its index*)
(* are built from a list that may have changed when they are executed, so  *)
(* they are requests that wait for an arbitrary time.                      *)
(*                                                                         *)
(* Of stake accounts only their existence is kept here: `staked` are the   *)
(* validators that have any, as maintenance creates and empties them.      *)
(*                                                                         *)
(* The entries of the perf list overlap in memory.  The list is cut into   *)
(* pieces of ValidatorPerf::LEN = 64 bytes, each of which is read and      *)
(* written as a struct that has 80: the last 16 of these, the two rates,   *)
(* are the first 16 bytes of the key of the next entry.  `push` on the     *)
(* other hand writes 42 bytes, and what it leaves alone is zero.           *)
(*                                                                         *)
(* An operator whose name ends in _Bug is a mutation of the operator that  *)
(* follows it; no specification uses it.                                   *)
(***************************************************************************)
EXTENDS AccountList, FiniteSets

CONSTANTS
    Votes,            \* vote accounts
    Commissions,      \* commissions of vote accounts
    Rates,            \* off-chain measurements, for either rate
    KeyHead,          \* the first 16 bytes of a vote account's address, as two numbers
    CriteriaOptions,  \* criteria that the manager may set
    max_validators,   \* capacity of the validator list and of the perf list
    MaxEpoch,         \* bound: last epoch
    MaxRequests       \* bound: transactions that wait at the same time

Criteria == [max_commission : Nat, min_block_production_rate : Nat,
             min_vote_success_rate : Nat]

ASSUME CurationAssumption ==
    /\ Commissions \subseteq 0..100
    /\ Rates \subseteq Nat
    /\ KeyHead \in [Votes -> Nat \X Nat]
    /\ CriteriaOptions \subseteq Criteria
    /\ CriteriaOptions # {}
    /\ max_validators \in Nat
    /\ MaxEpoch \in Nat
    /\ MaxRequests \in Nat

VARIABLES
    epoch,
    criteria,
    validators,    \* the validator list
    perfs,         \* the validator perf list
    beyond,        \* the 16 bytes behind its last entry, as two numbers
    vote,          \* vote[v]: the commission in the vote account, {} when it is closed
    staked,        \* validators that have stake or unstake accounts
    requests       \* transactions that are built and not yet executed

vars == <<epoch, criteria, validators, perfs, beyond, vote, staked, requests>>

Statuses == {"AcceptingStakes", "StakesSuspended", "PendingRemoval"}

\* An entry of the perf list, up to the bytes that it shares with the next one.  Its key is
\* the one of a vote account v when `head` is KeyHead[v] and `tail`, the other 16 bytes, is
\* v's.  `rest`, an option in the code, is the epoch of the off-chain measurement, if any.
ValidatorPerfs == [head : Nat \X Nat, tail : Votes, commission : Nat,
                   commission_updated_at : Nat, rest : SUBSET Nat]

Zero == <<0, 0>>

\* An open vote account holds a commission.
VoteAccounts == {{c} : c \in Commissions} \cup {{}}

Operations == {"RemoveValidator", "EnqueueValidatorForRemoval", "DeactivateValidator"}
Requests == [op : Operations, index : Nat, pubkey : Votes]

\* The types of the state: the lists fit their accounts, and nothing is recorded
\* for an epoch that has not come.
TypeOK ==
    /\ epoch \in Nat
    /\ criteria \in CriteriaOptions
    /\ validators \in Seq([pubkey : Votes, status : Statuses])
    /\ perfs \in Seq(ValidatorPerfs)
    /\ Len(validators) <= max_validators /\ Len(perfs) <= max_validators
    /\ \A i \in DOMAIN perfs : /\ perfs[i].commission_updated_at <= epoch
                               /\ \A at \in perfs[i].rest : at <= epoch
    /\ beyond \in Nat \X Nat
    /\ Len(perfs) = max_validators => beyond = Zero
    /\ vote \in [Votes -> VoteAccounts]
    /\ staked \subseteq Votes
    /\ requests \subseteq Requests

Listed == Keys(validators)
StatusOf(v) == validators[Position(validators, v)].status
IsAccepting(v) == v \in Listed /\ StatusOf(v) = "AcceptingStakes"

\* Where the key of a vote account is in the perf list, and the first of these places, at
\* which `find` stops, as a set of at most one.
PerfsOf(v) == {i \in DOMAIN perfs : perfs[i].head = KeyHead[v] /\ perfs[i].tail = v}
FirstPerf(v) == {i \in PerfsOf(v) : \A j \in PerfsOf(v) : i <= j}

\* The rates of an entry: block production and vote success.
RatesAt(i) == IF i = Len(perfs) THEN beyond ELSE perfs[i + 1].head

IsClosed(v) == vote[v] = {}

-----------------------------------------------------------------------------
(* Criteria *)

meets_criteria(i) ==
    /\ perfs[i].commission <= criteria.max_commission
    /\ perfs[i].rest # {} =>
          /\ RatesAt(i)[2] >= criteria.min_vote_success_rate
          /\ RatesAt(i)[1] >= criteria.min_block_production_rate

does_perform_well(v) ==
    /\ \A i \in FirstPerf(v) : meets_criteria(i)
    /\ \A commission \in vote[v] : commission <= criteria.max_commission

\* A closed vote account never complies.
Complies(v) == ~IsClosed(v) /\ does_perform_well(v)

-----------------------------------------------------------------------------
(* Instructions *)

AddValidator(v) ==
    /\ \E commission \in vote[v] : commission <= criteria.max_commission
    /\ CanPush(validators, max_validators, v)
    /\ validators' = Append(validators, [pubkey |-> v, status |-> "AcceptingStakes"])
    /\ UNCHANGED <<epoch, criteria, perfs, beyond, vote, staked, requests>>

\* A transaction for a listed validator is built.
Submit(op, v) ==
    LET request == [op |-> op, index |-> Position(validators, v), pubkey |-> v]
    IN  /\ v \in Listed
        /\ Cardinality(requests \cup {request}) <= MaxRequests
        /\ requests' = requests \cup {request}
        /\ UNCHANGED <<epoch, criteria, validators, perfs, beyond, vote, staked>>

\* A transaction is rejected, or never makes it to the chain.
Drop(r) ==
    /\ requests' = requests \ {r}
    /\ UNCHANGED <<epoch, criteria, validators, perfs, beyond, vote, staked>>

RemoveValidator(r) ==
    /\ r.op = "RemoveValidator"
    /\ IsAt(validators, r.index, r.pubkey)
    /\ validators[r.index].status = "PendingRemoval"
    /\ validators[r.index].pubkey \notin staked
    /\ validators' = SwapRemove(validators, r.index)
    /\ requests' = requests \ {r}
    /\ UNCHANGED <<epoch, criteria, perfs, beyond, vote, staked>>

EnqueueValidatorForRemoval(r) ==
    /\ r.op = "EnqueueValidatorForRemoval"
    /\ IsAt(validators, r.index, r.pubkey)
    /\ validators' = [validators EXCEPT ![r.index].status = "PendingRemoval"]
    /\ requests' = requests \ {r}
    /\ UNCHANGED <<epoch, criteria, perfs, beyond, vote, staked>>

\* Only a validator that accepts stake is changed, but the instruction succeeds.
DeactivateValidator(r) ==
    /\ r.op = "DeactivateValidator"
    /\ IsAt(validators, r.index, r.pubkey)
    /\ validators' = [validators EXCEPT ![r.index].status =
                        IF @ = "AcceptingStakes" THEN "StakesSuspended" ELSE @]
    /\ requests' = requests \ {r}
    /\ UNCHANGED <<epoch, criteria, perfs, beyond, vote, staked>>

DeactivateIfViolates(v) ==
    /\ IsAccepting(v)
    /\ ~Complies(v)
    /\ validators' = [validators EXCEPT ![Position(validators, v)].status = "StakesSuspended"]
    /\ UNCHANGED <<epoch, criteria, perfs, beyond, vote, staked, requests>>

\* Mutation: a validator that is queued for removal is activated as well.
CanActivate_Bug(v) == v \in Listed /\ StatusOf(v) # "AcceptingStakes"

\* `activate` leaves a validator alone that is queued for removal.
CanActivate(v) == v \in Listed /\ StatusOf(v) = "StakesSuspended"

ReactivateIfComplies(v) ==
    /\ CanActivate(v)
    /\ Complies(v)
    /\ validators' = [validators EXCEPT ![Position(validators, v)].status = "AcceptingStakes"]
    /\ UNCHANGED <<epoch, criteria, perfs, beyond, vote, staked, requests>>

ChangeCriteria(new) ==
    /\ new.max_commission <= 100
    /\ criteria' = new
    /\ UNCHANGED <<epoch, validators, perfs, beyond, vote, staked, requests>>

\* `perf_for`: the place of a vote account's entry, the list with that entry, which is new
\* if there is none and room for it, and the bytes behind the list.
CanHavePerf(v) == FirstPerf(v) # {} \/ Len(perfs) # max_validators

PlaceFor(v) ==
    IF FirstPerf(v) = {} THEN Len(perfs) + 1 ELSE CHOOSE i \in FirstPerf(v) : TRUE

NewPerf(v) == [head |-> KeyHead[v], tail |-> v, commission |-> 0,
               commission_updated_at |-> 0, rest |-> {}]

\* Mutation: an entry is pushed without a look for one.
WithPerf_Bug(v) == Append(perfs, NewPerf(v))

WithPerf(v) == IF FirstPerf(v) = {} THEN Append(perfs, NewPerf(v)) ELSE perfs

BeyondPerf(v) == IF FirstPerf(v) = {} THEN Zero ELSE beyond

\* The rates are written over the key of the next entry, or behind the last one; behind a
\* full list the account ends, and what is written there is lost with the instruction.
UpdateOffchainValidatorPerf(v, block, success) ==
    LET place == PlaceFor(v)
        list == WithPerf(v)
    IN  /\ CanHavePerf(v)
        /\ ~IsClosed(v)
        /\ \A at \in list[place].rest : at < epoch
        /\ perfs' = [i \in DOMAIN list |->
                       [list[i] EXCEPT !.rest = IF i = place THEN {epoch} ELSE @,
                                       !.head = IF i = place + 1 THEN <<block, success>> ELSE @]]
        /\ beyond' = IF place < Len(list) THEN beyond
                     ELSE IF Len(list) = max_validators THEN Zero ELSE <<block, success>>
        /\ UNCHANGED <<epoch, criteria, validators, vote, staked, requests>>

\* Mutation: the commission can be updated at any time.
MayUpdateCommission_Bug(perf, commission) == TRUE

\* Once per epoch, or when the commission is above the limit and got worse.
MayUpdateCommission(perf, commission) ==
    \/ perf.commission_updated_at < epoch
    \/ commission > criteria.max_commission /\ commission > perf.commission

UpdateOnchainValidatorPerf(v, commission) ==
    LET place == PlaceFor(v)
        list == WithPerf(v)
    IN  /\ CanHavePerf(v)
        /\ commission \in vote[v]
        /\ MayUpdateCommission(list[place], commission)
        /\ perfs' = [list EXCEPT ![place].commission = commission,
                                 ![place].commission_updated_at = epoch]
        /\ beyond' = BeyondPerf(v)
        /\ UNCHANGED <<epoch, criteria, validators, vote, staked, requests>>

-----------------------------------------------------------------------------
(* The environment *)

\* Maintenance stakes with a validator, or withdraws the last of its accounts.
Stake(v) ==
    /\ IsAccepting(v)
    /\ staked' = staked \cup {v}
    /\ UNCHANGED <<epoch, criteria, validators, perfs, beyond, vote, requests>>

Drain(v) ==
    /\ v \in staked
    /\ staked' = staked \ {v}
    /\ UNCHANGED <<epoch, criteria, validators, perfs, beyond, vote, requests>>

\* The node operator changes the commission, or closes the vote account.
ChangeVoteAccount(v, account) ==
    /\ vote' = [vote EXCEPT ![v] = account]
    /\ UNCHANGED <<epoch, criteria, validators, perfs, beyond, staked, requests>>

NextEpoch ==
    /\ epoch < MaxEpoch
    /\ epoch' = epoch + 1
    /\ UNCHANGED <<criteria, validators, perfs, beyond, vote, staked, requests>>

-----------------------------------------------------------------------------
Init ==
    /\ epoch = 0
    /\ criteria \in CriteriaOptions
    /\ validators = <<>>
    /\ perfs = <<>>
    /\ beyond = Zero
    /\ vote \in [Votes -> {{c} : c \in Commissions}]
    /\ staked = {}
    /\ requests = {}

Next ==
    \/ \E v \in Votes :
          \/ AddValidator(v) \/ DeactivateIfViolates(v) \/ ReactivateIfComplies(v)
          \/ Stake(v) \/ Drain(v)
          \/ \E op \in Operations : Submit(op, v)
          \/ \E block, success \in Rates : UpdateOffchainValidatorPerf(v, block, success)
          \/ \E commission \in Commissions : UpdateOnchainValidatorPerf(v, commission)
          \/ \E account \in VoteAccounts : ChangeVoteAccount(v, account)
    \/ \E r \in requests : \/ RemoveValidator(r) \/ EnqueueValidatorForRemoval(r)
                           \/ DeactivateValidator(r) \/ Drop(r)
    \/ \E new \in CriteriaOptions : ChangeCriteria(new)
    \/ NextEpoch

Spec == Init /\ [][Next]_vars

-----------------------------------------------------------------------------
(* Properties *)

(***************************************************************************)
(* No validator is twice in the list, however removal by swapping and      *)
(* insertion alternate: a balance would be counted twice.  Nor is a vote   *)
(* account twice in the perf list, where a stale perf would be found       *)
(* instead of the current one: entries whose key was overwritten are left  *)
(* behind, and may come back only where two rates happen to be the first 16*)
(* bytes of their key.                                                     *)
(***************************************************************************)
KeysAreUnique ==
    /\ HasUniqueKeys(validators)
    /\ \A v \in Votes : KeyHead[v] \notin Rates \X Rates =>
          \A i, j \in PerfsOf(v) : i = j

\* The lists are well typed, fit their accounts (BigVec::push), hold nothing of the future,
\* and no key twice.
ListsAreSound == TypeOK /\ KeysAreUnique

(***************************************************************************)
(* A transaction that was built before the list changed never hits another *)
(* validator: a validator that leaves the list, is queued for removal, or  *)
(* is suspended although it complies, was named by a waiting transaction.  *)
(***************************************************************************)
Named(op, v) == \E r \in requests : r.op = op /\ r.pubkey = v

OnlyTheNamedValidator ==
    [][\A v \in Listed :
         /\ v \notin Listed' => Named("RemoveValidator", v)
         /\ v \in Listed' /\ StatusOf(v) # StatusOf(v)' =>
              /\ StatusOf(v)' = "PendingRemoval" => Named("EnqueueValidatorForRemoval", v)
              /\ StatusOf(v)' = "StakesSuspended" /\ Complies(v)
                   => Named("DeactivateValidator", v)]_vars

(***************************************************************************)
(* A commission above the limit that was recorded in this epoch cannot be  *)
(* taken back in the same epoch: a node operator who lowers the commission *)
(* again is not reactivated before the next epoch, unless the manager      *)
(* changes the criteria.  The exception are entries of the perf list that  *)
(* overlap: recording the rates of the entry before changes the key of an  *)
(* entry, which is then not found, or found again.                         *)
(***************************************************************************)
CaughtThisEpoch(v) ==
    \E i \in FirstPerf(v) : /\ perfs[i].commission_updated_at = epoch
                            /\ perfs[i].commission > criteria.max_commission

KeyIsOverwritten(v) ==
    \E i \in DOMAIN perfs : perfs[i].tail = v /\ perfs'[i].head # perfs[i].head

CaughtUntilNextEpoch ==
    [][\A v \in Votes :
         CaughtThisEpoch(v) /\ epoch' = epoch /\ criteria' = criteria /\ ~KeyIsOverwritten(v) =>
          /\ CaughtThisEpoch(v)'
          /\ v \in Listed /\ v \in Listed' /\ StatusOf(v) # "AcceptingStakes"
               => StatusOf(v)' # "AcceptingStakes"]_vars

(***************************************************************************)
(* A validator leaves the list only from PendingRemoval and without stake  *)
(* accounts, and PendingRemoval is left in no other way, also when its     *)
(* performance complies again.                                             *)
(***************************************************************************)
RemovalIsOrderly ==
    [][\A v \in Listed :
         /\ v \notin Listed' => StatusOf(v) = "PendingRemoval" /\ v \notin staked
         /\ v \in Listed' /\ StatusOf(v) = "PendingRemoval"
              => StatusOf(v)' = "PendingRemoval"]_vars

(***************************************************************************)
(* What the comment on ValidatorPerf relies on ("this structure cannot have*)
(* any undeclared alignment-padding in its representation"): the entries of*)
(* the perf list are separate, so that one update changes the recorded     *)
(* performance of one vote account.                                        *)
(***************************************************************************)
PerfOf(v) ==
    {[commission |-> perfs[i].commission,
      rates |-> IF perfs[i].rest = {} THEN {} ELSE {RatesAt(i)}] : i \in FirstPerf(v)}

PerfsAreSeparate ==
    [][\A v, w \in Votes : PerfOf(v)' # PerfOf(v) /\ PerfOf(w)' # PerfOf(w) => v = w]_vars

=============================================================================
