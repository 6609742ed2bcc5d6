--------------------------- MODULE CurationProofs ---------------------------
(***************************************************************************)
(* The validator list and the perf list, for any set of vote accounts, any *)
(* capacity of the lists, any criteria and any number of waiting           *)
(* transactions and epochs.                                                *)
(***************************************************************************)
EXTENDS Curation, DataLemmas, TLAPS

-----------------------------------------------------------------------------
(* Every step keeps the lists sound *)

ValidatorEntries == [pubkey : Votes, status : Statuses]

\* What ListsAreSound says of the validator list.
LEMMA SoundLists ==
    ASSUME ListsAreSound
    PROVE  /\ max_validators \in Nat
           /\ IsList(ValidatorEntries, max_validators, validators)
BY CurationAssumption DEF ListsAreSound, TypeOK, KeysAreUnique, ValidatorEntries, IsList

\* The validator at a position gets a status.
SetsStatus(p, s) == validators' = [validators EXCEPT ![p].status = s]

\* Changing the status of one validator leaves all others alone.
LEMMA WriteStatus ==
    ASSUME ListsAreSound, NEW v \in Votes, NEW p, IsAt(validators, p, v),
           NEW s \in Statuses, SetsStatus(p, s)
    PROVE  /\ IsList(ValidatorEntries, max_validators, validators')
           /\ Listed' = Listed
           /\ v \in Listed
           /\ StatusOf(v) = validators[p].status
           /\ StatusOf(v)' = s
           /\ \A w \in Listed : w # v => StatusOf(w)' = StatusOf(w)
<1>. DEFINE e == [validators[p] EXCEPT !.status = s]
<1>1. /\ IsList(ValidatorEntries, max_validators, validators) /\ max_validators \in Nat
      /\ p \in DOMAIN validators /\ validators[p].pubkey = v
  BY SoundLists DEF IsAt
<1>2. validators[p] \in ValidatorEntries /\ HasUniqueKeys(validators)
  BY <1>1 DEF IsList
<1>3. e \in ValidatorEntries /\ e.pubkey = v /\ e.status = s
  BY <1>1, <1>2 DEF ValidatorEntries
<1>4. Overwrites(validators, p, e, validators')
  BY DEF Overwrites, SetsStatus
<1>. HIDE DEF e
<1>5. /\ IsList(ValidatorEntries, max_validators, validators')
      /\ Keys(validators') = Keys(validators)
      /\ EntryFor(validators', v) = e
      /\ SameBut(v, validators, validators')
  BY <1>1, <1>3, <1>4, WriteEntry
<1>6. Position(validators, v) = p /\ v \in Keys(validators)
  BY <1>1, <1>2, PositionIsUnique
<1>7. ASSUME NEW w \in Listed, w # v
      PROVE  StatusOf(w)' = StatusOf(w)
  BY <1>5, <1>7 DEF SameBut, EntryFor, StatusOf, Listed
<1>8. StatusOf(v)' = s
  BY <1>3, <1>5 DEF EntryFor, StatusOf
<1>. QED
  BY <1>5, <1>6, <1>7, <1>8 DEF Listed, StatusOf

LEMMA InitLists == Init => ListsAreSound
BY CurationAssumption
DEF Init, ListsAreSound, TypeOK, KeysAreUnique, HasUniqueKeys, VoteAccounts, PerfsOf, Zero

\* A perf with nothing of the future in it.
PerfOK(perf) ==
    /\ perf \in ValidatorPerfs
    /\ perf.commission_updated_at <= epoch
    /\ \A at \in perf.rest : at <= epoch

\* Steps that leave the two lists alone.
LEMMA ListsKept ==
    ASSUME ListsAreSound, UNCHANGED <<validators, perfs, beyond>>,
           epoch' \in Nat, epoch <= epoch', criteria' \in CriteriaOptions,
           vote' \in [Votes -> VoteAccounts], staked' \subseteq Votes,
           requests' \subseteq Requests
    PROVE  ListsAreSound'
<1>1. TypeOK
  BY DEF ListsAreSound
<1>2. ASSUME NEW i \in DOMAIN perfs
      PROVE  /\ perfs[i].commission_updated_at <= epoch'
             /\ \A at \in perfs[i].rest : at <= epoch'
  <2>1. perfs[i] \in ValidatorPerfs /\ epoch \in Nat
    BY <1>1 DEF TypeOK
  <2>2. perfs[i].commission_updated_at \in Nat /\ perfs[i].rest \subseteq Nat
    BY <2>1 DEF ValidatorPerfs
  <2>. QED
    BY <1>1, <2>1, <2>2 DEF TypeOK
<1>3. KeysAreUnique'
  BY DEF ListsAreSound, KeysAreUnique, HasUniqueKeys, PerfsOf
<1>. QED
  BY <1>1, <1>2, <1>3 DEF ListsAreSound, TypeOK

\* Steps that only write the validator list.
LEMMA ValidatorsWritten ==
    ASSUME ListsAreSound, IsList(ValidatorEntries, max_validators, validators'),
           UNCHANGED <<epoch, criteria, perfs, beyond, vote, staked>>, requests' \subseteq requests
    PROVE  ListsAreSound'
BY DEF ListsAreSound, TypeOK, KeysAreUnique, ValidatorEntries, IsList, HasUniqueKeys, PerfsOf

-----------------------------------------------------------------------------
(* Every step writes the perf list in the same way *)

\* A record of this epoch above the limit.
IsCaught(perf) == perf.commission_updated_at = epoch /\ perf.commission > criteria.max_commission

\* No entry goes away, and of its key only the bytes change that it shares with the entry
\* before, where rates are written; an entry that is new is for a vote account that had
\* none.  A commission above the limit is not taken back in the same epoch.
PerfStep ==
    /\ perfs' \in Seq(ValidatorPerfs)
    /\ Len(perfs') \in {Len(perfs), Len(perfs) + 1}
    /\ Len(perfs') <= max_validators
    /\ \A i \in DOMAIN perfs' : PerfOK(perfs'[i])
    /\ \A i \in DOMAIN perfs :
          /\ perfs'[i].tail = perfs[i].tail
          /\ perfs'[i].head = perfs[i].head \/ perfs'[i].head \in Rates \X Rates
          /\ IsCaught(perfs[i]) => IsCaught(perfs'[i])
    /\ Len(perfs') = Len(perfs) + 1 =>
          \E v \in Votes : /\ FirstPerf(v) = {}
                           /\ perfs'[Len(perfs) + 1].head = KeyHead[v]
                           /\ perfs'[Len(perfs) + 1].tail = v

\* `perf_for`: the entry that an update starts from.
LEMMA PerfFor ==
    ASSUME ListsAreSound, NEW v \in Votes, CanHavePerf(v)
    PROVE  /\ WithPerf(v) \in Seq(ValidatorPerfs)
           /\ PlaceFor(v) \in 1 .. Len(WithPerf(v))
           /\ Len(WithPerf(v)) \in {Len(perfs), Len(perfs) + 1}
           /\ Len(WithPerf(v)) <= max_validators
           /\ \A i \in DOMAIN WithPerf(v) : PerfOK(WithPerf(v)[i])
           /\ \A i \in DOMAIN perfs : WithPerf(v)[i] = perfs[i]
           /\ Len(WithPerf(v)) = Len(perfs) + 1 =>
                 /\ FirstPerf(v) = {}
                 /\ PlaceFor(v) = Len(perfs) + 1
                 /\ WithPerf(v)[Len(perfs) + 1] = NewPerf(v)
<1>1. /\ perfs \in Seq(ValidatorPerfs) /\ epoch \in Nat /\ Len(perfs) <= max_validators
      /\ max_validators \in Nat /\ \A i \in DOMAIN perfs : PerfOK(perfs[i])
  BY CurationAssumption DEF ListsAreSound, TypeOK, PerfOK
<1>2. CASE FirstPerf(v) = {}
  <2>1. NewPerf(v) \in ValidatorPerfs /\ PerfOK(NewPerf(v))
    BY <1>1, CurationAssumption DEF NewPerf, ValidatorPerfs, PerfOK
  <2>2. WithPerf(v) = Append(perfs, NewPerf(v)) /\ PlaceFor(v) = Len(perfs) + 1
    BY <1>2 DEF WithPerf, PlaceFor
  <2>3. Len(perfs) # max_validators
    BY <1>2 DEF CanHavePerf
  <2>. HIDE DEF NewPerf
  <2>4. /\ WithPerf(v) \in Seq(ValidatorPerfs) /\ Len(WithPerf(v)) = Len(perfs) + 1
        /\ WithPerf(v)[Len(perfs) + 1] = NewPerf(v)
        /\ \A i \in DOMAIN perfs : WithPerf(v)[i] = perfs[i]
    BY <1>1, <2>1, <2>2
  <2>5. \A i \in DOMAIN WithPerf(v) : i \in DOMAIN perfs \/ i = Len(perfs) + 1
    BY <1>1, <2>4
  <2>6. \A i \in DOMAIN WithPerf(v) : PerfOK(WithPerf(v)[i])
    BY <1>1, <2>1, <2>4, <2>5
  <2>. QED
    BY <1>1, <1>2, <2>2, <2>3, <2>4, <2>6
<1>3. CASE FirstPerf(v) # {}
  <2>1. PlaceFor(v) \in FirstPerf(v) /\ WithPerf(v) = perfs
    BY <1>3 DEF PlaceFor, WithPerf
  <2>2. PlaceFor(v) \in DOMAIN perfs
    BY <2>1 DEF FirstPerf, PerfsOf
  <2>. QED
    BY <1>1, <2>1, <2>2
<1>. QED
  BY <1>2, <1>3

\* The keys in the perf list stay unique.
LEMMA PerfsStayUnique ==
    ASSUME ListsAreSound, PerfStep, NEW v \in Votes, KeyHead[v] \notin Rates \X Rates,
           NEW i \in PerfsOf(v)', NEW j \in PerfsOf(v)'
    PROVE  i = j
<1>1. perfs \in Seq(ValidatorPerfs) /\ perfs' \in Seq(ValidatorPerfs)
  BY DEF ListsAreSound, TypeOK, PerfStep
<1>2. \A k, l \in PerfsOf(v) : k = l
  BY DEF ListsAreSound, KeysAreUnique
<1>3. ASSUME NEW k \in PerfsOf(v)', k \in DOMAIN perfs
      PROVE  k \in PerfsOf(v) /\ k \in FirstPerf(v)
  <2>1. perfs'[k].head = KeyHead[v] /\ perfs'[k].tail = v
    BY DEF PerfsOf
  <2>2. perfs[k].head = KeyHead[v] /\ perfs[k].tail = v
    BY <1>3, <2>1 DEF PerfStep
  <2>3. k \in PerfsOf(v) /\ k \in Int
    BY <1>1, <1>3, <2>2 DEF PerfsOf
  <2>. QED
    BY <1>2, <2>3 DEF FirstPerf
<1>4. ASSUME NEW k \in PerfsOf(v)', k \notin DOMAIN perfs
      PROVE  k = Len(perfs) + 1 /\ FirstPerf(v) = {}
  <2>1. k \in DOMAIN perfs' /\ perfs'[k].tail = v
    BY DEF PerfsOf
  <2>2. k = Len(perfs) + 1 /\ Len(perfs') = Len(perfs) + 1
    BY <1>1, <1>4, <2>1 DEF PerfStep
  <2>. QED
    BY <2>1, <2>2 DEF PerfStep
<1>. QED
  BY <1>2, <1>3, <1>4

\* Steps that write the perf list and nothing else.
LEMMA PerfsWritten ==
    ASSUME ListsAreSound, PerfStep, beyond' \in Nat \X Nat,
           Len(perfs') = max_validators => beyond' = Zero,
           UNCHANGED <<epoch, criteria, validators, vote, staked, requests>>
    PROVE  ListsAreSound'
<1>1. TypeOK'
  BY DEF ListsAreSound, TypeOK, PerfStep, PerfOK
<1>2. KeysAreUnique'
  BY PerfsStayUnique DEF ListsAreSound, KeysAreUnique, HasUniqueKeys
<1>. QED
  BY <1>1, <1>2 DEF ListsAreSound

-----------------------------------------------------------------------------
(* What a step may do to a validator *)

\* All that can happen in one step to a validator that is in the list.
LifeCycle(v) ==
    \/ v \in Listed' /\ StatusOf(v)' = StatusOf(v)
    \/ /\ v \notin Listed'
       /\ StatusOf(v) = "PendingRemoval" /\ v \notin staked
       /\ Named("RemoveValidator", v)
    \/ /\ v \in Listed' /\ StatusOf(v)' = "PendingRemoval"
       /\ Named("EnqueueValidatorForRemoval", v)
    \/ /\ v \in Listed' /\ StatusOf(v) = "AcceptingStakes" /\ StatusOf(v)' = "StakesSuspended"
       /\ Complies(v) => Named("DeactivateValidator", v)
    \/ /\ v \in Listed' /\ StatusOf(v) = "StakesSuspended" /\ StatusOf(v)' = "AcceptingStakes"
       /\ Complies(v)

\* What every step preserves, and how it treats the validators.
Step == ListsAreSound' /\ \A v \in Listed : LifeCycle(v)

LEMMA EntryTypes ==
    ASSUME ListsAreSound, NEW p \in DOMAIN validators
    PROVE  validators[p].pubkey \in Votes /\ validators[p].status \in Statuses
<1>1. validators \in Seq(ValidatorEntries)
  BY SoundLists DEF IsList
<1>2. validators[p] \in ValidatorEntries
  BY <1>1
<1>. QED
  BY <1>2 DEF ValidatorEntries

LEMMA ListedAreVotes == ASSUME ListsAreSound PROVE Listed \subseteq Votes
BY EntryTypes DEF Listed, Keys

\* A step that leaves the validator list alone.
LEMMA ValidatorsKept ==
    ASSUME ListsAreSound, ListsAreSound', UNCHANGED validators
    PROVE  Step
BY DEF Step, LifeCycle, Listed, StatusOf

\* A step that writes the status of one validator, in a way that LifeCycle allows.
LEMMA StatusWritten ==
    ASSUME ListsAreSound, NEW v \in Votes, NEW p, IsAt(validators, p, v),
           NEW s \in Statuses, SetsStatus(p, s),
           UNCHANGED <<epoch, criteria, perfs, beyond, vote, staked>>, requests' \subseteq requests,
           \/ s = StatusOf(v)
           \/ s = "PendingRemoval" /\ Named("EnqueueValidatorForRemoval", v)
           \/ /\ StatusOf(v) = "AcceptingStakes" /\ s = "StakesSuspended"
              /\ Complies(v) => Named("DeactivateValidator", v)
           \/ StatusOf(v) = "StakesSuspended" /\ s = "AcceptingStakes" /\ Complies(v)
    PROVE  Step
<1>1. /\ IsList(ValidatorEntries, max_validators, validators')
      /\ Listed' = Listed
      /\ v \in Listed
      /\ StatusOf(v)' = s
      /\ \A w \in Listed : w # v => StatusOf(w)' = StatusOf(w)
  BY WriteStatus
<1>2. ListsAreSound'
  BY <1>1, ValidatorsWritten
<1>3. ASSUME NEW w \in Listed
      PROVE  LifeCycle(w)
  <2>1. CASE w # v
    BY <1>1, <2>1 DEF LifeCycle
  <2>2. CASE w = v
    BY <1>1, <2>2 DEF LifeCycle
  <2>. QED
    BY <2>1, <2>2
<1>. QED
  BY <1>2, <1>3 DEF Step

\* A request that is executed named the validator that its index points to.
LEMMA RequestIsNamed ==
    ASSUME ListsAreSound, NEW r \in requests
    PROVE  r.pubkey \in Votes /\ Named(r.op, r.pubkey)
BY DEF ListsAreSound, TypeOK, Requests, Named

LEMMA StepAddValidator ==
    ASSUME ListsAreSound, NEW v \in Votes, AddValidator(v)
    PROVE  Step
<1>. DEFINE e == [pubkey |-> v, status |-> "AcceptingStakes"]
<1>1. /\ IsList(ValidatorEntries, max_validators, validators) /\ max_validators \in Nat
      /\ CanPush(validators, max_validators, v)
  BY SoundLists DEF AddValidator
<1>2. e \in ValidatorEntries /\ e.pubkey = v
  BY DEF ValidatorEntries, Statuses
<1>3. Pushes(validators, e, validators')
  BY DEF AddValidator, Pushes
<1>. HIDE DEF e
<1>4. /\ IsList(ValidatorEntries, max_validators, validators')
      /\ SameBut(v, validators, validators')
  BY <1>1, <1>2, <1>3, PushEntry
<1>5. ListsAreSound'
  BY <1>4, ValidatorsWritten DEF AddValidator
<1>6. v \notin Listed
  BY <1>1 DEF CanPush, Listed
<1>7. ASSUME NEW w \in Listed
      PROVE  LifeCycle(w)
  <2>1. w \in Keys(validators') /\ EntryFor(validators', w) = EntryFor(validators, w)
    BY <1>4, <1>6 DEF SameBut, Listed
  <2>. QED
    BY <2>1 DEF LifeCycle, Listed, StatusOf, EntryFor
<1>. QED
  BY <1>5, <1>7 DEF Step

LEMMA StepRemoveValidator ==
    ASSUME ListsAreSound, NEW r \in requests, RemoveValidator(r)
    PROVE  Step
<1>. DEFINE v == r.pubkey
            p == r.index
<1>1. /\ IsList(ValidatorEntries, max_validators, validators) /\ max_validators \in Nat
      /\ p \in DOMAIN validators /\ validators[p].pubkey = v /\ HasUniqueKeys(validators)
  BY SoundLists DEF RemoveValidator, IsAt, IsList
<1>2. /\ Removes(validators, p, validators')
      /\ validators[p].status = "PendingRemoval"
      /\ v \notin staked
  BY <1>1 DEF RemoveValidator, Removes
<1>3. v \in Votes /\ Named("RemoveValidator", v)
  BY RequestIsNamed DEF RemoveValidator
<1>4. Position(validators, v) = p
  BY <1>1, PositionIsUnique
<1>5. UNCHANGED <<epoch, criteria, perfs, beyond, vote, staked>> /\ requests' \subseteq requests
  BY DEF RemoveValidator
<1>. HIDE DEF v, p
<1>6. /\ IsList(ValidatorEntries, max_validators, validators')
      /\ Keys(validators') = Keys(validators) \ {v}
      /\ SameBut(v, validators, validators')
  BY <1>1, <1>2, RemoveEntry
<1>7. ListsAreSound'
  BY <1>5, <1>6, ValidatorsWritten
<1>8. ASSUME NEW w \in Listed
      PROVE  LifeCycle(w)
  <2>1. CASE w = v
    <3>1. w \notin Listed'
      BY <1>6, <2>1 DEF Listed
    <3>2. StatusOf(w) = "PendingRemoval"
      BY <1>2, <1>4, <2>1 DEF StatusOf
    <3>. QED
      BY <1>2, <1>3, <2>1, <3>1, <3>2 DEF LifeCycle
  <2>2. CASE w # v
    <3>1. w \in Keys(validators') /\ EntryFor(validators', w) = EntryFor(validators, w)
      BY <1>6, <2>2 DEF SameBut, Listed
    <3>. QED
      BY <3>1 DEF LifeCycle, Listed, StatusOf, EntryFor
  <2>. QED
    BY <2>1, <2>2
<1>. QED
  BY <1>7, <1>8 DEF Step

LEMMA StepEnqueueValidatorForRemoval ==
    ASSUME ListsAreSound, NEW r \in requests, EnqueueValidatorForRemoval(r)
    PROVE  Step
<1>1. r.pubkey \in Votes /\ Named("EnqueueValidatorForRemoval", r.pubkey)
  BY RequestIsNamed DEF EnqueueValidatorForRemoval
<1>2. "PendingRemoval" \in Statuses
  BY DEF Statuses
<1>3. SetsStatus(r.index, "PendingRemoval") /\ IsAt(validators, r.index, r.pubkey)
  BY DEF EnqueueValidatorForRemoval, SetsStatus
<1>4. UNCHANGED <<epoch, criteria, perfs, beyond, vote, staked>> /\ requests' \subseteq requests
  BY DEF EnqueueValidatorForRemoval
<1>. QED
  BY <1>1, <1>2, <1>3, <1>4, StatusWritten

\* The status of the validator at a position.
LEMMA StatusAt ==
    ASSUME ListsAreSound, NEW v, NEW p, IsAt(validators, p, v)
    PROVE  StatusOf(v) = validators[p].status /\ StatusOf(v) \in Statuses
<1>1. p \in DOMAIN validators /\ validators[p].pubkey = v /\ HasUniqueKeys(validators)
  BY DEF IsAt, ListsAreSound, KeysAreUnique
<1>2. Position(validators, v) = p
  BY <1>1, PositionIsUnique
<1>3. validators[p].status \in Statuses
  BY <1>1, EntryTypes
<1>. QED
  BY <1>2, <1>3 DEF StatusOf

\* Where a listed validator is.
LEMMA PositionIsAt ==
    ASSUME ListsAreSound, NEW v \in Listed
    PROVE  v \in Votes /\ IsAt(validators, Position(validators, v), v)
<1>1. v \in Keys(validators)
  BY DEF Listed
<1>. QED
  BY <1>1, PositionOfKey, ListedAreVotes DEF IsAt

LEMMA StepDeactivateValidator ==
    ASSUME ListsAreSound, NEW r \in requests, DeactivateValidator(r)
    PROVE  Step
<1>. DEFINE now == StatusOf(r.pubkey)
            s == IF now = "AcceptingStakes" THEN "StakesSuspended" ELSE now
<1>1. r.pubkey \in Votes /\ Named("DeactivateValidator", r.pubkey)
  BY RequestIsNamed DEF DeactivateValidator
<1>2. IsAt(validators, r.index, r.pubkey)
  BY DEF DeactivateValidator
<1>3. now = validators[r.index].status /\ now \in Statuses
  BY <1>2, StatusAt
<1>4. s \in Statuses
  BY <1>3 DEF Statuses
<1>5. SetsStatus(r.index, s)
  BY <1>3 DEF DeactivateValidator, SetsStatus
<1>6. UNCHANGED <<epoch, criteria, perfs, beyond, vote, staked>> /\ requests' \subseteq requests
  BY DEF DeactivateValidator
<1>7. s = now \/ (now = "AcceptingStakes" /\ s = "StakesSuspended")
  OBVIOUS
<1>. HIDE DEF s
<1>. QED
  BY <1>1, <1>2, <1>4, <1>5, <1>6, <1>7, StatusWritten

LEMMA StepDeactivateIfViolates ==
    ASSUME ListsAreSound, NEW v \in Votes, DeactivateIfViolates(v)
    PROVE  Step
<1>1. v \in Listed /\ StatusOf(v) = "AcceptingStakes" /\ ~Complies(v)
  BY DEF DeactivateIfViolates, IsAccepting
<1>2. IsAt(validators, Position(validators, v), v)
  BY <1>1, PositionIsAt
<1>3. SetsStatus(Position(validators, v), "StakesSuspended") /\ "StakesSuspended" \in Statuses
  BY DEF DeactivateIfViolates, SetsStatus, Statuses
<1>4. UNCHANGED <<epoch, criteria, perfs, beyond, vote, staked, requests>>
  BY DEF DeactivateIfViolates
<1>. QED
  BY <1>1, <1>2, <1>3, <1>4, StatusWritten

LEMMA StepReactivateIfComplies ==
    ASSUME ListsAreSound, NEW v \in Votes, ReactivateIfComplies(v)
    PROVE  Step
<1>1. v \in Listed /\ StatusOf(v) = "StakesSuspended" /\ Complies(v)
  BY DEF ReactivateIfComplies, CanActivate
<1>2. IsAt(validators, Position(validators, v), v)
  BY <1>1, PositionIsAt
<1>3. SetsStatus(Position(validators, v), "AcceptingStakes") /\ "AcceptingStakes" \in Statuses
  BY DEF ReactivateIfComplies, SetsStatus, Statuses
<1>4. UNCHANGED <<epoch, criteria, perfs, beyond, vote, staked, requests>>
  BY DEF ReactivateIfComplies
<1>. QED
  BY <1>1, <1>2, <1>3, <1>4, StatusWritten

-----------------------------------------------------------------------------
(* What a step may do to a recorded performance *)

\* Of the commission that is recorded for a vote account in this epoch, a step that stays in
\* the epoch and does not write over the key takes nothing back that is above the limit.
PerfKept(v) ==
    CaughtThisEpoch(v) /\ epoch' = epoch /\ criteria' = criteria /\ ~KeyIsOverwritten(v)
       => CaughtThisEpoch(v)'

\* A step that leaves the perf list alone.
LEMMA PerfsKept ==
    ASSUME UNCHANGED perfs, NEW v
    PROVE  PerfKept(v)
BY DEF PerfKept, CaughtThisEpoch, FirstPerf, PerfsOf

\* A step that writes it.
LEMMA PerfRecorded ==
    ASSUME ListsAreSound, PerfStep, NEW v \in Votes
    PROVE  PerfKept(v)
<1>. SUFFICES ASSUME CaughtThisEpoch(v), epoch' = epoch, criteria' = criteria,
                     ~KeyIsOverwritten(v)
              PROVE  CaughtThisEpoch(v)'
  BY DEF PerfKept
<1>1. perfs \in Seq(ValidatorPerfs) /\ perfs' \in Seq(ValidatorPerfs)
  BY DEF ListsAreSound, TypeOK, PerfStep
<1>2. PICK i \in FirstPerf(v) : IsCaught(perfs[i])
  BY DEF CaughtThisEpoch, IsCaught
<1>3. /\ i \in DOMAIN perfs /\ perfs[i].head = KeyHead[v] /\ perfs[i].tail = v
      /\ \A j \in PerfsOf(v) : i <= j
  BY DEF FirstPerf, PerfsOf
<1>4. i \in PerfsOf(v)'
  <2>1. i \in DOMAIN perfs'
    BY <1>1, <1>3 DEF PerfStep
  <2>2. perfs'[i].head = perfs[i].head /\ perfs'[i].tail = perfs[i].tail
    BY <1>3 DEF PerfStep, KeyIsOverwritten
  <2>. QED
    BY <1>3, <2>1, <2>2 DEF PerfsOf
<1>5. ASSUME NEW j \in PerfsOf(v)'
      PROVE  i <= j
  <2>1. j \in DOMAIN perfs' /\ perfs'[j].head = KeyHead[v] /\ perfs'[j].tail = v
    BY DEF PerfsOf
  <2>2. CASE j \in DOMAIN perfs
    <3>1. perfs[j].tail = v
      BY <2>1, <2>2 DEF PerfStep
    <3>2. perfs[j].head = perfs'[j].head
      BY <2>2, <3>1 DEF KeyIsOverwritten
    <3>. QED
      BY <1>3, <2>1, <2>2, <3>1, <3>2 DEF PerfsOf
  <2>3. CASE j \notin DOMAIN perfs
    <3>1. j \in 1 .. (Len(perfs) + 1) /\ j \notin 1 .. Len(perfs) /\ Len(perfs) \in Nat
      BY <1>1, <2>1, <2>3 DEF PerfStep
    <3>2. i \in 1 .. Len(perfs)
      BY <1>1, <1>3
    <3>. QED
      BY <3>1, <3>2
  <2>. QED
    BY <2>2, <2>3
<1>6. i \in FirstPerf(v)'
  BY <1>4, <1>5 DEF FirstPerf
<1>7. IsCaught(perfs'[i])
  BY <1>2, <1>3 DEF PerfStep
<1>. QED
  BY <1>6, <1>7 DEF CaughtThisEpoch, IsCaught

LEMMA StepUpdateOffchainValidatorPerf ==
    ASSUME ListsAreSound, NEW v \in Votes, NEW block \in Rates, NEW success \in Rates,
           UpdateOffchainValidatorPerf(v, block, success)
    PROVE  Step /\ \A w \in Votes : PerfKept(w)
<1>. DEFINE place == PlaceFor(v)
            list == WithPerf(v)
            rates == <<block, success>>
            entry(i) == [list[i] EXCEPT !.rest = IF i = place THEN {epoch} ELSE @,
                                        !.head = IF i = place + 1 THEN rates ELSE @]
<1>1. /\ list \in Seq(ValidatorPerfs) /\ place \in 1 .. Len(list)
      /\ Len(list) \in {Len(perfs), Len(perfs) + 1} /\ Len(list) <= max_validators
      /\ \A i \in DOMAIN list : PerfOK(list[i])
      /\ \A i \in DOMAIN perfs : list[i] = perfs[i]
      /\ Len(list) = Len(perfs) + 1 => /\ FirstPerf(v) = {}
                                       /\ place = Len(perfs) + 1
                                       /\ list[Len(perfs) + 1] = NewPerf(v)
  BY PerfFor DEF UpdateOffchainValidatorPerf
<1>2. /\ epoch \in Nat /\ perfs \in Seq(ValidatorPerfs) /\ beyond \in Nat \X Nat
      /\ max_validators \in Nat /\ Len(perfs) = max_validators => beyond = Zero
      /\ rates \in Nat \X Nat /\ rates \in Rates \X Rates
  BY CurationAssumption DEF ListsAreSound, TypeOK
<1>3. perfs' = [i \in DOMAIN list |-> entry(i)]
  BY DEF UpdateOffchainValidatorPerf
<1>4. beyond' = IF place < Len(list) THEN beyond
                ELSE IF Len(list) = max_validators THEN Zero ELSE rates
  BY DEF UpdateOffchainValidatorPerf
<1>5. UNCHANGED <<epoch, criteria, validators, vote, staked, requests>>
  BY DEF UpdateOffchainValidatorPerf
<1>. HIDE DEF place, list, rates
<1>6. ASSUME NEW i \in DOMAIN list
      PROVE  /\ entry(i) \in ValidatorPerfs /\ entry(i).tail = list[i].tail
             /\ entry(i).commission = list[i].commission
             /\ entry(i).commission_updated_at = list[i].commission_updated_at
             /\ entry(i).head = IF i = place + 1 THEN rates ELSE list[i].head
             /\ entry(i).rest = IF i = place THEN {epoch} ELSE list[i].rest
  <2>. DEFINE rest == IF i = place THEN {epoch} ELSE list[i].rest
              head == IF i = place + 1 THEN rates ELSE list[i].head
  <2>1. list[i] \in ValidatorPerfs
    BY <1>1
  <2>2. rest \in SUBSET Nat /\ head \in Nat \X Nat
    BY <1>2, <2>1 DEF ValidatorPerfs
  <2>3. entry(i) = [list[i] EXCEPT !.rest = rest, !.head = head]
    BY <2>1 DEF ValidatorPerfs
  <2>. HIDE DEF rest, head, entry
  <2>4. /\ entry(i) \in ValidatorPerfs /\ entry(i).tail = list[i].tail
        /\ entry(i).commission = list[i].commission
        /\ entry(i).commission_updated_at = list[i].commission_updated_at
        /\ entry(i).head = head /\ entry(i).rest = rest
    BY <2>1, <2>2, <2>3 DEF ValidatorPerfs
  <2>. QED
    BY <2>4 DEF rest, head
<1>. HIDE DEF entry
<1>7. ASSUME NEW i \in DOMAIN list
      PROVE  PerfOK(entry(i))
  <2>1. PerfOK(list[i])
    BY <1>1
  <2>2. \A at \in entry(i).rest : at <= epoch
    BY <1>2, <1>6, <2>1 DEF PerfOK
  <2>. QED
    BY <1>6, <2>1, <2>2 DEF PerfOK
<1>8. perfs' \in Seq(ValidatorPerfs) /\ Len(perfs') = Len(list) /\ DOMAIN perfs' = DOMAIN list
  BY <1>1, <1>3, <1>6
<1>9. PerfStep
  <2>1. \A i \in DOMAIN perfs' : PerfOK(perfs'[i])
    BY <1>3, <1>7
  <2>2. ASSUME NEW i \in DOMAIN perfs
        PROVE  /\ perfs'[i].tail = perfs[i].tail
               /\ perfs'[i].head = perfs[i].head \/ perfs'[i].head \in Rates \X Rates
               /\ IsCaught(perfs[i]) => IsCaught(perfs'[i])
    <3>1. i \in DOMAIN list /\ list[i] = perfs[i]
      BY <1>1, <1>2
    <3>2. perfs'[i] = entry(i)
      BY <1>3, <3>1
    <3>. QED
      BY <1>2, <1>5, <1>6, <3>1, <3>2 DEF IsCaught
  <2>3. ASSUME Len(perfs') = Len(perfs) + 1
        PROVE  /\ FirstPerf(v) = {}
               /\ perfs'[Len(perfs) + 1].head = KeyHead[v]
               /\ perfs'[Len(perfs) + 1].tail = v
    <3>1. Len(perfs) + 1 \in DOMAIN list /\ place = Len(perfs) + 1
      BY <1>1, <1>2, <1>8, <2>3
    <3>2. perfs'[Len(perfs) + 1] = entry(Len(perfs) + 1) /\ place # place + 1
      BY <1>1, <1>3, <3>1
    <3>. QED
      BY <1>1, <1>6, <1>8, <2>3, <3>1, <3>2 DEF NewPerf
  <2>. QED
    BY <1>1, <1>8, <2>1, <2>2, <2>3 DEF PerfStep
<1>10. beyond' \in Nat \X Nat /\ (Len(perfs') = max_validators => beyond' = Zero)
  <2>1. Zero \in Nat \X Nat
    BY DEF Zero
  <2>2. CASE place < Len(list)
    <3>1. Len(list) = Len(perfs)
      BY <1>1, <1>2, <2>2
    <3>. QED
      BY <1>2, <1>4, <1>8, <2>2, <3>1
  <2>3. CASE ~(place < Len(list))
    BY <1>2, <1>4, <1>8, <2>1, <2>3
  <2>. QED
    BY <2>2, <2>3
<1>11. ListsAreSound'
  BY <1>5, <1>9, <1>10, PerfsWritten
<1>. QED
  BY <1>5, <1>9, <1>11, PerfRecorded, ValidatorsKept

LEMMA StepUpdateOnchainValidatorPerf ==
    ASSUME ListsAreSound, NEW v \in Votes, NEW commission \in Commissions,
           UpdateOnchainValidatorPerf(v, commission)
    PROVE  Step /\ \A w \in Votes : PerfKept(w)
<1>. DEFINE place == PlaceFor(v)
            list == WithPerf(v)
            entry == [list[place] EXCEPT !.commission = commission,
                                         !.commission_updated_at = epoch]
<1>1. /\ list \in Seq(ValidatorPerfs) /\ place \in 1 .. Len(list)
      /\ Len(list) \in {Len(perfs), Len(perfs) + 1} /\ Len(list) <= max_validators
      /\ \A i \in DOMAIN list : PerfOK(list[i])
      /\ \A i \in DOMAIN perfs : list[i] = perfs[i]
      /\ Len(list) = Len(perfs) + 1 => /\ FirstPerf(v) = {}
                                       /\ place = Len(perfs) + 1
                                       /\ list[Len(perfs) + 1] = NewPerf(v)
  BY PerfFor DEF UpdateOnchainValidatorPerf
<1>2. /\ epoch \in Nat /\ perfs \in Seq(ValidatorPerfs) /\ beyond \in Nat \X Nat
      /\ max_validators \in Nat /\ Len(perfs) = max_validators => beyond = Zero
      /\ commission \in Nat
  BY CurationAssumption DEF ListsAreSound, TypeOK
<1>3. perfs' = [list EXCEPT ![place] = entry]
  <2>1. perfs' = [list EXCEPT ![place].commission = commission,
                              ![place].commission_updated_at = epoch]
    BY DEF UpdateOnchainValidatorPerf
  <2>2. list[place] \in ValidatorPerfs
    BY <1>1
  <2>. QED
    BY <1>1, <2>1, <2>2 DEF ValidatorPerfs
<1>4. MayUpdateCommission(list[place], commission) /\ beyond' = BeyondPerf(v)
  BY DEF UpdateOnchainValidatorPerf
<1>5. UNCHANGED <<epoch, criteria, validators, vote, staked, requests>>
  BY DEF UpdateOnchainValidatorPerf
<1>6. Len(list) = Len(perfs) => beyond' = beyond \/ beyond' = Zero
  BY <1>4 DEF BeyondPerf
<1>7. Len(list) = Len(perfs) + 1 => beyond' = Zero
  BY <1>1, <1>4 DEF BeyondPerf
<1>. HIDE DEF place, list
<1>8. /\ entry \in ValidatorPerfs /\ entry.tail = list[place].tail
      /\ entry.head = list[place].head /\ entry.rest = list[place].rest
      /\ entry.commission = commission /\ entry.commission_updated_at = epoch
  <2>1. list[place] \in ValidatorPerfs
    BY <1>1
  <2>. QED
    BY <1>2, <2>1 DEF ValidatorPerfs
<1>. HIDE DEF entry
<1>9. /\ perfs' \in Seq(ValidatorPerfs) /\ Len(perfs') = Len(list)
      /\ DOMAIN perfs' = DOMAIN list
      /\ \A i \in DOMAIN list : perfs'[i] = IF i = place THEN entry ELSE list[i]
  BY <1>1, <1>3, <1>8
<1>10. PerfOK(entry)
  <2>1. PerfOK(list[place])
    BY <1>1
  <2>. QED
    BY <1>2, <1>8, <2>1 DEF PerfOK
<1>11. IsCaught(list[place]) => IsCaught(entry)
  BY <1>2, <1>4, <1>8 DEF IsCaught, MayUpdateCommission
<1>12. PerfStep
  <2>1. \A i \in DOMAIN perfs' : PerfOK(perfs'[i])
    BY <1>1, <1>9, <1>10
  <2>2. ASSUME NEW i \in DOMAIN perfs
        PROVE  /\ perfs'[i].tail = perfs[i].tail
               /\ perfs'[i].head = perfs[i].head \/ perfs'[i].head \in Rates \X Rates
               /\ IsCaught(perfs[i]) => IsCaught(perfs'[i])
    <3>1. i \in DOMAIN list /\ list[i] = perfs[i]
      BY <1>1, <1>2
    <3>. QED
      BY <1>8, <1>9, <1>11, <3>1
  <2>3. ASSUME Len(perfs') = Len(perfs) + 1
        PROVE  /\ FirstPerf(v) = {}
               /\ perfs'[Len(perfs) + 1].head = KeyHead[v]
               /\ perfs'[Len(perfs) + 1].tail = v
    <3>1. place = Len(perfs) + 1 /\ perfs'[place] = entry /\ list[place] = NewPerf(v)
      BY <1>1, <1>2, <1>9, <2>3
    <3>. QED
      BY <1>1, <1>8, <1>9, <2>3, <3>1 DEF NewPerf
  <2>. QED
    BY <1>1, <1>9, <2>1, <2>2, <2>3 DEF PerfStep
<1>13. beyond' \in Nat \X Nat /\ (Len(perfs') = max_validators => beyond' = Zero)
  <2>1. Zero \in Nat \X Nat
    BY DEF Zero
  <2>2. CASE Len(list) = Len(perfs)
    BY <1>2, <1>6, <1>9, <2>1, <2>2
  <2>3. CASE Len(list) = Len(perfs) + 1
    BY <1>7, <2>1, <2>3
  <2>. QED
    BY <1>1, <2>2, <2>3
<1>14. ListsAreSound'
  BY <1>5, <1>12, <1>13, PerfsWritten
<1>. QED
  BY <1>5, <1>12, <1>14, PerfRecorded, ValidatorsKept

-----------------------------------------------------------------------------
(* All steps *)

\* The variables apart from the lists keep their types, and no epoch comes back.
RestOK ==
    /\ epoch' \in Nat /\ epoch <= epoch' /\ criteria' \in CriteriaOptions
    /\ vote' \in [Votes -> VoteAccounts] /\ staked' \subseteq Votes
    /\ requests' \subseteq Requests

\* Steps that write neither list.
LEMMA StepOthers ==
    ASSUME ListsAreSound, UNCHANGED <<validators, perfs, beyond>>, RestOK
    PROVE  Step /\ \A v \in Votes : PerfKept(v)
BY ListsKept, ValidatorsKept, PerfsKept DEF RestOK

LEMMA StepSubmit ==
    ASSUME ListsAreSound, NEW v \in Votes, NEW op \in Operations, Submit(op, v)
    PROVE  RestOK
<1>1. TypeOK /\ v \in Listed
  BY DEF ListsAreSound, Submit
<1>2. Position(validators, v) \in DOMAIN validators
  BY <1>1, PositionIsAt DEF IsAt
<1>3. Position(validators, v) \in Nat
  BY <1>1, <1>2 DEF TypeOK
<1>4. [op |-> op, index |-> Position(validators, v), pubkey |-> v] \in Requests
  BY <1>3 DEF Requests
<1>. QED
  BY <1>1, <1>4 DEF RestOK, TypeOK, Submit

\* Every step keeps the lists sound, moves validators along their life cycle and
\* takes no commission back.
LEMMA NextStep ==
    ASSUME ListsAreSound, [Next]_vars
    PROVE  Step /\ \A v \in Votes : PerfKept(v)
<1>1. TypeOK
  BY DEF ListsAreSound
<1>2. ASSUME NEW v \in Votes, AddValidator(v)
      PROVE  Step /\ UNCHANGED perfs
  BY <1>2, StepAddValidator DEF AddValidator
<1>3. ASSUME NEW v \in Votes, DeactivateIfViolates(v)
      PROVE  Step /\ UNCHANGED perfs
  BY <1>3, StepDeactivateIfViolates DEF DeactivateIfViolates
<1>4. ASSUME NEW v \in Votes, ReactivateIfComplies(v)
      PROVE  Step /\ UNCHANGED perfs
  BY <1>4, StepReactivateIfComplies DEF ReactivateIfComplies
<1>5. ASSUME NEW v \in Votes, Stake(v) \/ Drain(v)
      PROVE  UNCHANGED <<validators, perfs, beyond>> /\ RestOK
  BY <1>1, <1>5 DEF Stake, Drain, TypeOK, RestOK
<1>6. ASSUME NEW v \in Votes, NEW op \in Operations, Submit(op, v)
      PROVE  UNCHANGED <<validators, perfs, beyond>> /\ RestOK
  BY <1>6, StepSubmit DEF Submit
<1>7. ASSUME NEW v \in Votes, NEW block \in Rates, NEW success \in Rates,
             UpdateOffchainValidatorPerf(v, block, success)
      PROVE  Step /\ \A w \in Votes : PerfKept(w)
  BY <1>7, StepUpdateOffchainValidatorPerf
<1>8. ASSUME NEW v \in Votes, NEW commission \in Commissions,
             UpdateOnchainValidatorPerf(v, commission)
      PROVE  Step /\ \A w \in Votes : PerfKept(w)
  BY <1>8, StepUpdateOnchainValidatorPerf
<1>9. ASSUME NEW v \in Votes, NEW account \in VoteAccounts, ChangeVoteAccount(v, account)
      PROVE  UNCHANGED <<validators, perfs, beyond>> /\ RestOK
  BY <1>1, <1>9 DEF ChangeVoteAccount, TypeOK, RestOK
<1>10. ASSUME NEW r \in requests, RemoveValidator(r)
       PROVE  Step /\ UNCHANGED perfs
  BY <1>10, StepRemoveValidator DEF RemoveValidator
<1>11. ASSUME NEW r \in requests, EnqueueValidatorForRemoval(r)
       PROVE  Step /\ UNCHANGED perfs
  BY <1>11, StepEnqueueValidatorForRemoval DEF EnqueueValidatorForRemoval
<1>12. ASSUME NEW r \in requests, DeactivateValidator(r)
       PROVE  Step /\ UNCHANGED perfs
  BY <1>12, StepDeactivateValidator DEF DeactivateValidator
<1>13. ASSUME NEW r \in requests, Drop(r)
       PROVE  UNCHANGED <<validators, perfs, beyond>> /\ RestOK
  BY <1>1, <1>13 DEF Drop, TypeOK, RestOK
<1>14. ASSUME NEW new \in CriteriaOptions, ChangeCriteria(new)
       PROVE  UNCHANGED <<validators, perfs, beyond>> /\ RestOK
  BY <1>1, <1>14 DEF ChangeCriteria, TypeOK, RestOK
<1>15. ASSUME NextEpoch
       PROVE  UNCHANGED <<validators, perfs, beyond>> /\ RestOK
  BY <1>1, <1>15 DEF NextEpoch, TypeOK, RestOK
<1>16. ASSUME UNCHANGED vars
       PROVE  UNCHANGED <<validators, perfs, beyond>> /\ RestOK
  BY <1>1, <1>16 DEF vars, TypeOK, RestOK
<1>. HIDE DEF Step
<1>. QED
  BY <1>2, <1>3, <1>4, <1>5, <1>6, <1>7, <1>8, <1>9, <1>10, <1>11, <1>12, <1>13,
     <1>14, <1>15, <1>16, StepOthers, PerfsKept DEF Next

-----------------------------------------------------------------------------
(* Theorems *)

\* The validator list and the perf list are well typed, fit their accounts, hold
\* nothing of the future and no key twice, however BigVec::push and removal by
\* swapping alternate, and however the overlapping entries of the perf list are
\* written: a key comes back only where rates happen to be its first bytes.
THEOREM ListsStaySound == Spec => []ListsAreSound
<1>1. Init => ListsAreSound
  BY InitLists
<1>2. ListsAreSound /\ [Next]_vars => ListsAreSound'
  BY NextStep DEF Step
<1>. QED
  BY <1>1, <1>2, PTL DEF Spec

\* A transaction that waited while the list changed hits no other validator than
\* the one it names: `get_mut` and `remove` compare the key at the index.
THEOREM StaleIndicesAreHarmless == Spec => OnlyTheNamedValidator
<1>1. ListsAreSound /\ [Next]_vars =>
        \A v \in Listed :
          /\ v \notin Listed' => Named("RemoveValidator", v)
          /\ v \in Listed' /\ StatusOf(v) # StatusOf(v)' =>
               /\ StatusOf(v)' = "PendingRemoval" => Named("EnqueueValidatorForRemoval", v)
               /\ StatusOf(v)' = "StakesSuspended" /\ Complies(v)
                    => Named("DeactivateValidator", v)
  BY NextStep DEF Step, LifeCycle
<1>. QED
  BY <1>1, ListsStaySound, PTL DEF Spec, OnlyTheNamedValidator

\* A validator leaves the list only when it is queued for removal and has no stake
\* accounts, and the queue is left in no other way.
THEOREM RemovalStaysOrderly == Spec => RemovalIsOrderly
<1>1. ListsAreSound /\ [Next]_vars =>
        \A v \in Listed :
          /\ v \notin Listed' => StatusOf(v) = "PendingRemoval" /\ v \notin staked
          /\ v \in Listed' /\ StatusOf(v) = "PendingRemoval"
               => StatusOf(v)' = "PendingRemoval"
  BY NextStep DEF Step, LifeCycle
<1>. QED
  BY <1>1, ListsStaySound, PTL DEF Spec, RemovalIsOrderly

\* Who is on record with too high a commission in this epoch does not comply.
LEMMA CaughtDoNotComply ==
    ASSUME ListsAreSound, NEW v \in Votes, CaughtThisEpoch(v)
    PROVE  ~Complies(v)
<1>1. PICK i \in FirstPerf(v) : perfs[i].commission > criteria.max_commission
  BY DEF CaughtThisEpoch
<1>2. i \in DOMAIN perfs
  BY DEF FirstPerf, PerfsOf
<1>3. perfs[i] \in ValidatorPerfs /\ criteria \in Criteria
  BY <1>2, CurationAssumption DEF ListsAreSound, TypeOK
<1>4. perfs[i].commission \in Nat /\ criteria.max_commission \in Nat
  BY <1>3 DEF ValidatorPerfs, Criteria
<1>. QED
  BY <1>1, <1>4 DEF Complies, does_perform_well, meets_criteria

\* A commission above the limit that was recorded in this epoch is neither taken
\* back in this epoch nor followed by a reactivation (process_update_onchain_validator_perf
\* lets a commission only get worse within an epoch), until the rates of the entry before it
\* in the perf list are written over its key (process_update_offchain_validator_perf).
THEOREM CaughtStaysCaught == Spec => CaughtUntilNextEpoch
<1>1. ListsAreSound /\ [Next]_vars =>
        \A v \in Votes :
          CaughtThisEpoch(v) /\ epoch' = epoch /\ criteria' = criteria /\ ~KeyIsOverwritten(v) =>
          /\ CaughtThisEpoch(v)'
          /\ v \in Listed /\ v \in Listed' /\ StatusOf(v) # "AcceptingStakes"
               => StatusOf(v)' # "AcceptingStakes"
  <2>. SUFFICES ASSUME ListsAreSound, [Next]_vars, NEW v \in Votes,
                       CaughtThisEpoch(v), epoch' = epoch, criteria' = criteria,
                       ~KeyIsOverwritten(v)
                PROVE  /\ CaughtThisEpoch(v)'
                       /\ v \in Listed /\ v \in Listed' /\ StatusOf(v) # "AcceptingStakes"
                            => StatusOf(v)' # "AcceptingStakes"
    OBVIOUS
  <2>1. CaughtThisEpoch(v)'
    BY NextStep DEF PerfKept
  <2>2. v \in Listed => LifeCycle(v)
    BY NextStep DEF Step
  <2>3. ~Complies(v)
    BY CaughtDoNotComply
  <2>. QED
    BY <2>1, <2>2, <2>3 DEF LifeCycle
<1>. QED
  BY <1>1, ListsStaySound, PTL DEF Spec, CaughtUntilNextEpoch

=============================================================================
