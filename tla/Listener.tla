------------------------------ MODULE Listener ------------------------------
(***************************************************************************)
(* The listener: a daemon that polls the exchange rate, stores it in a     *)
(* database, and a server that computes the growth of stSOL over a period  *)
(* from what is stored.  Requests are answered by other threads: each takes*)
(* the time when it is received and queries the table later, at any moment *)
(* between the steps of a poll.  Requests change nothing, so one of them at*)
(* a time stands for all.                                                  *)
(*                                                                         *)
(* The chain is what Pool promises: the recorded rate changes at most once *)
(* in an epoch and never drops (Pool!PriceNeverDrops), starting with a pool*)
(* without stSOL.  An RPC node may lag behind.  Time is the clock of the   *)
(* listener, which moves on between any two readings.                      *)
(*                                                                         *)
(* An operator whose name ends in _Bug is a mutation of the operator that  *)
(* follows it; no specification uses it.                                   *)
(***************************************************************************)
EXTENDS Integers, Sequences, FiniteSets

CONSTANTS
    Prices,             \* rates that the pool may have, [numerator, denominator]
    SlotsPerEpoch,
    QUERY_SLOT_OFFSET,  \* data points of an epoch count from this slot on
    ThirtyDays,         \* the period of the metric
    MaxLag,             \* slots that an RPC node may lag behind
    MaxSlot,            \* bound: last slot
    MaxTime,            \* bound: time of the last request
    MaxCrashes          \* bound: restarts of the listener

ASSUME ListenerAssumption ==
    /\ Prices \subseteq [numerator : Nat, denominator : Nat \ {0}]
    /\ SlotsPerEpoch \in Nat \ {0}
    /\ QUERY_SLOT_OFFSET \in 0..(SlotsPerEpoch - 1)
    /\ ThirtyDays \in Nat
    /\ MaxLag \in Nat
    /\ MaxSlot \in Nat
    /\ MaxTime \in Nat
    /\ MaxCrashes \in Nat

VARIABLES
    chain,      \* the recorded rate in every slot so far; slot 0 is chain[1]
    now,        \* the clock of the listener
    rows,       \* the table exchange_rate, in the order of insertion
    pc,         \* next step of the daemon: "read", "insert" or "query"
    pending,    \* the data point that is about to be inserted
    last_poll,  \* slot in which the chain was at the last poll of this process
    published,  \* the interval in the metrics, {} before there is one
    request,    \* the time at which the request under way was received, {} without one
    crashes

vars == <<chain, now, rows, pc, pending, last_poll, published, request, crashes>>

Slot == Len(chain) - 1
EpochOf(slot) == slot \div SlotsPerEpoch

\* Before the first deposit there is no stSOL.
NoStSol == [numerator |-> 0, denominator |-> 0]

DataPoints == [timestamp : Nat, slot : 0..MaxSlot, epoch : Nat,
               price : [numerator : Nat, denominator : Nat \ {0}]]

\* The types of the state; a data point without stSOL is never stored.
TypeOK ==
    /\ chain \in Seq(Prices \cup {NoStSol}) /\ Slot \in 0..MaxSlot
    /\ now \in Nat
    /\ rows \in Seq(DataPoints)
    /\ pc \in {"read", "insert", "query"}
    /\ last_poll \in -1..MaxSlot
    /\ published \subseteq [begin : DataPoints, end : DataPoints]
    /\ Cardinality(published) <= 1
    /\ request \subseteq 0..now
    /\ crashes \in 0..MaxCrashes

-----------------------------------------------------------------------------
(* get_interval_price_for_period *)

Stored == {rows[i] : i \in DOMAIN rows}

MinimumSlot(epoch) == epoch * SlotsPerEpoch + QUERY_SLOT_OFFSET

\* The first row of an epoch from the minimum slot on, if there is one; SQL leaves
\* open which one LIMIT 1 is, SQLite scans in the order of insertion.
FirstRow(epoch) ==
    LET found == {i \in DOMAIN rows : rows[i].epoch = epoch /\ rows[i].slot >= MinimumSlot(epoch)}
    IN  {rows[i] : i \in {j \in found : \A k \in found : j <= k}}

FirstEpoch(from) ==
    LET epochs == {row.epoch : row \in {r \in Stored : r.timestamp > from}}
    IN  {e \in epochs : \A f \in epochs : e <= f}

\* Mutation: the lowest epoch instead of the highest.
LastEpoch_Lowest(to) ==
    LET epochs == {row.epoch : row \in {r \in Stored : r.timestamp < to}}
    IN  {e \in epochs : \A f \in epochs : e <= f}

\* Mutation: rows behind the end of the period count.
LastEpoch_Newest(to) ==
    LET epochs == {row.epoch : row \in Stored}
    IN  {e \in epochs : \A f \in epochs : f <= e}

LastEpoch(to) ==
    LET epochs == {row.epoch : row \in {r \in Stored : r.timestamp < to}}
    IN  {e \in epochs : \A f \in epochs : f <= e}

\* At most one interval.
get_interval_price_for_period(from, to) ==
    [begin : UNION {FirstRow(e) : e \in FirstEpoch(from)},
     end   : UNION {FirstRow(e) : e \in LastEpoch(to)}]

\* SOL per stSOL.
Price(point) == point.price

\* growth_factor is at least one.
HasGrown(interval) ==
    Price(interval.end).numerator * Price(interval.begin).denominator
      >= Price(interval.begin).numerator * Price(interval.end).denominator

\* A period that does not end before the request was received; others are cached for a week.
IsMovingTarget(received, to) == to >= received

Launch == 0

-----------------------------------------------------------------------------
(* The daemon *)

\* The clock and the rate are of the same snapshot.  The interval of polls is
\* not shorter than a slot, except after a restart.
Read(lag) ==
    LET slot == Slot - lag
    IN  /\ pc = "read"
        /\ last_poll < Slot
        /\ slot >= 0
        /\ Slot = MaxSlot => lag = 0
        /\ pending' = {[timestamp |-> now, slot |-> slot, epoch |-> EpochOf(slot),
                        price |-> chain[slot + 1]]}
        /\ now' = now + 1
        /\ last_poll' = Slot
        /\ pc' = "insert"
        /\ UNCHANGED <<chain, rows, published, request, crashes>>

\* CHECK (price_lamports_denominator>0)
IsConstraintMet(point) == point.price.denominator > 0

Insert ==
    /\ pc = "insert"
    /\ \E point \in pending :
          IF IsConstraintMet(point)
          THEN rows' = Append(rows, point) /\ pc' = "query"
          ELSE rows' = rows /\ pc' = "read"
    /\ pending' = {}
    /\ UNCHANGED <<chain, now, last_poll, published, request, crashes>>

\* Mutation: the daemon waits for an interval before it polls again.
QueryAndPublish_Bug ==
    LET interval == get_interval_price_for_period(now - ThirtyDays, now)
    IN  /\ pc = "query"
        /\ interval # {}
        /\ published' = interval
        /\ pc' = "read"
        /\ UNCHANGED <<chain, now, rows, pending, last_poll, request, crashes>>

\* The metrics keep the last interval when there is none now.
QueryAndPublish ==
    LET interval == get_interval_price_for_period(now - ThirtyDays, now)
    IN  /\ pc = "query"
        /\ published' = IF interval # {} THEN interval ELSE published
        /\ pc' = "read"
        /\ UNCHANGED <<chain, now, rows, pending, last_poll, request, crashes>>

\* Only the database survives.
Crash ==
    /\ crashes < MaxCrashes
    /\ crashes' = crashes + 1
    /\ pc' = "read"
    /\ pending' = {}
    /\ last_poll' = -1
    /\ published' = {}
    /\ request' = {}
    /\ UNCHANGED <<chain, now, rows>>

-----------------------------------------------------------------------------
(* Requests *)

\* serve_request takes the time; the clock moves on for the daemon as well.
Receive ==
    /\ request = {}
    /\ now < MaxTime
    /\ request' = {now}
    /\ now' = now + 1
    /\ UNCHANGED <<chain, rows, pc, pending, last_poll, published, crashes>>

\* The answer is what the table holds now: get_interval_price_for_period for the period of
\* the request, which may be any.
Answer ==
    /\ request # {}
    /\ request' = {}
    /\ UNCHANGED <<chain, now, rows, pc, pending, last_poll, published, crashes>>

-----------------------------------------------------------------------------
(* The chain *)

Current == chain[Len(chain)]

\* No update yet in the epoch of the next slot.
MayUpdateRate ==
    \A s \in 0..Slot : EpochOf(s) = EpochOf(Slot + 1) /\ s > 0 => chain[s + 1] = chain[s]

NextRates ==
    {Current} \cup
    {price \in Prices : /\ MayUpdateRate
                        /\ price.numerator * Current.denominator
                             >= Current.numerator * price.denominator}

ChainAdvances ==
    /\ Slot < MaxSlot
    /\ \E price \in NextRates : chain' = Append(chain, price)
    /\ UNCHANGED <<now, rows, pc, pending, last_poll, published, request, crashes>>

-----------------------------------------------------------------------------
Init ==
    /\ chain = <<NoStSol>>
    /\ now = Launch + 1
    /\ rows = <<>>
    /\ pc = "read"
    /\ pending = {}
    /\ last_poll = -1
    /\ published = {}
    /\ request = {}
    /\ crashes = 0

\* The bound is reached, and all that there is has been read.
Halt == Slot = MaxSlot /\ last_poll = Slot /\ pc = "read" /\ UNCHANGED vars

Next ==
    \/ \E lag \in 0..MaxLag : Read(lag)
    \/ Insert
    \/ QueryAndPublish
    \/ Crash
    \/ Receive
    \/ Answer
    \/ ChainAdvances
    \/ Halt

\* The daemon is a loop, and the cluster produces slots.
Spec == /\ Init /\ [][Next]_vars
        /\ WF_vars(\E lag \in 0..MaxLag : Read(lag))
        /\ WF_vars(Insert) /\ WF_vars(QueryAndPublish) /\ WF_vars(ChainAdvances)

-----------------------------------------------------------------------------
(* Properties *)

(***************************************************************************)
(* The yield is never negative: for every period, and in the metrics, the  *)
(* later data point has at least the price of the earlier one, although    *)
(* nodes lag and data points are chosen by epoch and not by time.  (The    *)
(* interval of a reversed period is reversed, which annual_growth_factor   *)
(* makes up for.)                                                          *)
(***************************************************************************)
YieldIsNotNegative ==
    /\ \A from, to \in Launch..now :
          \A interval \in get_interval_price_for_period(from, to) :
              interval.begin.epoch <= interval.end.epoch => HasGrown(interval)
    /\ \A interval \in published : HasGrown(interval)

(***************************************************************************)
(* duration_epochs underflows where get_expires_header uses it only in a   *)
(* race: the interval of a period that does not end before its request was *)
(* received is not reversed when it is queried, unless all data points     *)
(* behind the begin of the period were taken since.                        *)
(***************************************************************************)
DurationDoesNotUnderflow ==
    \A received \in request : \A from, to \in Launch..(now + 1) :
        IsMovingTarget(received, to) =>
            \A interval \in get_interval_price_for_period(from, to) :
                \/ interval.begin.epoch <= interval.end.epoch
                \/ \A row \in Stored : row.timestamp > from => row.timestamp >= received

(***************************************************************************)
(* What the metrics and the HTTP answers compute with: well typed rows, and*)
(* intervals of them in which the price grows and whose end is not before  *)
(* their begin.                                                            *)
(***************************************************************************)
IntervalsAreSound == TypeOK /\ YieldIsNotNegative /\ DurationDoesNotUnderflow

(***************************************************************************)
(* The answer for a period in the past, which get_expires_header lets      *)
(* clients keep for a week, does not change when data points are added, as *)
(* long as no node lags into an earlier epoch, and unless it was given     *)
(* while a data point was under way that belongs to the period: one that   *)
(* was taken before the period ended and is not yet inserted.              *)
(***************************************************************************)
EpochsAreOrdered == \A i, j \in DOMAIN rows : i <= j => rows[i].epoch <= rows[j].epoch

PastAnswersAreFinal ==
    [][EpochsAreOrdered' =>
          \A from, to \in Launch..(now - 1) :
              (/\ \A point \in pending : to <= point.timestamp
               /\ get_interval_price_for_period(from, to) # {})
              => get_interval_price_for_period(from, to)'
                   = get_interval_price_for_period(from, to)]_rows

(***************************************************************************)
(* The yield since launch is answered again, in spite of lagging nodes and *)
(* crashes, once the first epoch with data points has one from the minimum *)
(* slot on.  The minimum slot leaves a gap at the begin of every epoch.    *)
(***************************************************************************)
IsAnsweredSinceLaunch == get_interval_price_for_period(Launch, now) # {}

AnsweredAgain ==
    (\E e \in FirstEpoch(Launch) : FirstRow(e) # {}) ~> IsAnsweredSinceLaunch

=============================================================================
