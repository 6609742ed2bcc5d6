--------------------------- MODULE ListenerProofs ---------------------------
(***************************************************************************)
(* The answers of the listener, for every length of an epoch, every offset *)
(* of the query, every lag of the nodes and every period.                  *)
(***************************************************************************)
EXTENDS Listener, FiniteSetTheorems, TLAPS

-----------------------------------------------------------------------------
(* The inductive invariant *)

\* The price p is not below q.  Before the first deposit there is none.
NotBelow(p, q) ==
    /\ q.denominator # 0 => p.denominator # 0
    /\ p.numerator * q.denominator >= q.numerator * p.denominator

ChainNeverDrops == \A s, t \in DOMAIN chain : s <= t => NotBelow(chain[t], chain[s])

\* A data point is what the chain recorded in its slot.
IsRecorded(point) ==
    /\ point.slot \in 0..Slot
    /\ point.epoch = EpochOf(point.slot)
    /\ point.price = chain[point.slot + 1]

Points == [timestamp : Nat, slot : 0..MaxSlot, epoch : Nat, price : Prices \cup {NoStSol}]

\* Rows are older than the clock.
RowsAreRecorded ==
    \A i \in DOMAIN rows : IsRecorded(rows[i]) /\ rows[i].timestamp < now

\* The clock has moved on since the data point that is about to be inserted.
PendingIsRecorded ==
    \A point \in pending :
        point \in Points /\ IsRecorded(point) /\ point.timestamp < now

PublishedHasGrown == \A interval \in published : HasGrown(interval)

ListenerInv ==
    /\ TypeOK
    /\ ChainNeverDrops
    /\ RowsAreRecorded
    /\ PendingIsRecorded
    /\ PublishedHasGrown

-----------------------------------------------------------------------------
(* Arithmetic *)

\* An earlier epoch has earlier slots.
LEMMA EpochsOfSlots ==
    ASSUME NEW s \in Nat, NEW t \in Nat
    PROVE  /\ EpochOf(s) \in Nat
           /\ EpochOf(s) < EpochOf(t) => s < t
<1>. DEFINE d == SlotsPerEpoch
<1>1. d \in Nat \ {0}
  BY ListenerAssumption
<1>. HIDE DEF d
<1>2. ASSUME NEW x \in Nat
      PROVE  /\ x \div d \in Nat
             /\ (x \div d) * d <= x
             /\ x < (x \div d) * d + d
  BY <1>1
<1>3. EpochOf(s) = s \div d /\ EpochOf(t) = t \div d
  BY DEF EpochOf, d
<1>4. ASSUME NEW a \in Nat, NEW b \in Nat, a < b
      PROVE  a * d + d <= b * d
  BY <1>1, <1>4
<1>5. ASSUME EpochOf(s) < EpochOf(t)
      PROVE  s < t
  <2>. DEFINE a == s \div d
              b == t \div d
  <2>1. a \in Nat /\ b \in Nat /\ a < b
    BY <1>2, <1>3, <1>5
  <2>2. s < a * d + d /\ b * d <= t
    BY <1>2
  <2>. HIDE DEF a, b
  <2>3. a * d + d <= b * d
    BY <2>1, <1>4
  <2>4. a * d \in Nat /\ b * d \in Nat
    BY <1>1, <2>1
  <2>. QED
    BY <1>1, <2>2, <2>3, <2>4
<1>. QED
  BY <1>2, <1>3, <1>5

\* What the prices of the chain are made of.
LEMMA PriceTypes ==
    ASSUME NEW p \in Prices \cup {NoStSol}
    PROVE  /\ p.numerator \in Nat /\ p.denominator \in Nat
           /\ p.denominator = 0 => p.numerator = 0
BY ListenerAssumption DEF NoStSol

LEMMA NotBelowTransitive ==
    ASSUME NEW p \in Prices \cup {NoStSol}, NEW q \in Prices \cup {NoStSol},
           NEW r \in Prices \cup {NoStSol}, NotBelow(p, q), NotBelow(q, r)
    PROVE  NotBelow(p, r)
<1>1. ASSUME NEW a \in Nat, NEW b \in Nat \ {0}, NEW c \in Nat, NEW d \in Nat \ {0},
             NEW e \in Nat, NEW f \in Nat \ {0}, a * d >= c * b, c * f >= e * d
      PROVE  a * f >= e * b
  <2>1. a * d * f >= c * b * f
    BY <1>1
  <2>2. c * f * b >= e * d * b
    BY <1>1
  <2>3. (a * f) * d >= (e * b) * d
    BY <2>1, <2>2
  <2>4. ASSUME NEW x \in Nat, NEW y \in Nat, x * d >= y * d
        PROVE  x >= y
    BY <2>4
  <2>5. a * f \in Nat /\ e * b \in Nat
    OBVIOUS
  <2>. QED
    BY <2>3, <2>4, <2>5
<1>2. CASE r.denominator = 0
  <2>1. r.numerator = 0 /\ p.numerator \in Nat /\ p.denominator \in Nat
    BY <1>2, PriceTypes
  <2>. QED
    BY <1>2, <2>1 DEF NotBelow
<1>3. CASE r.denominator # 0
  <2>1. q.denominator # 0 /\ p.denominator # 0
    BY <1>3 DEF NotBelow
  <2>2. /\ p.numerator \in Nat /\ p.denominator \in Nat \ {0}
        /\ q.numerator \in Nat /\ q.denominator \in Nat \ {0}
        /\ r.numerator \in Nat /\ r.denominator \in Nat \ {0}
    BY <1>3, <2>1, PriceTypes
  <2>3. p.numerator * r.denominator >= r.numerator * p.denominator
    BY <2>2, <1>1 DEF NotBelow
  <2>. QED
    BY <2>1, <2>3 DEF NotBelow
<1>. QED
  BY <1>2, <1>3

-----------------------------------------------------------------------------
(* Intervals *)

\* The row is the first of its epoch from the minimum slot on.
IsFirstRow(i) ==
    /\ i \in DOMAIN rows
    /\ rows[i].slot >= MinimumSlot(rows[i].epoch)
    /\ \A k \in DOMAIN rows :
          rows[k].epoch = rows[i].epoch /\ rows[k].slot >= MinimumSlot(rows[k].epoch)
              => i <= k

LEMMA FirstRowIsFirst ==
    ASSUME NEW e, NEW row \in FirstRow(e)
    PROVE  \E i \in DOMAIN rows : row = rows[i] /\ rows[i].epoch = e /\ IsFirstRow(i)
BY DEF FirstRow, IsFirstRow

\* An epoch has one first row.
LEMMA FirstRowIsUnique ==
    ASSUME rows \in Seq(DataPoints), NEW i, NEW j, IsFirstRow(i), IsFirstRow(j),
           rows[i].epoch = rows[j].epoch
    PROVE  i = j
<1>1. i \in Nat /\ j \in Nat
  BY DEF IsFirstRow
<1>2. i <= j /\ j <= i
  BY DEF IsFirstRow
<1>. QED
  BY <1>1, <1>2

\* The two ends of an interval are first rows of the first and the last epoch.
IsEndedBy(interval, i, j, from, to) ==
    /\ interval = [begin |-> rows[i], end |-> rows[j]]
    /\ IsFirstRow(i) /\ rows[i].epoch \in FirstEpoch(from)
    /\ IsFirstRow(j) /\ rows[j].epoch \in LastEpoch(to)

LEMMA IntervalHasEnds ==
    ASSUME NEW from, NEW to, NEW interval \in get_interval_price_for_period(from, to)
    PROVE  \E i, j \in DOMAIN rows : IsEndedBy(interval, i, j, from, to)
<1>1. PICK e \in FirstEpoch(from) : interval.begin \in FirstRow(e)
  BY DEF get_interval_price_for_period
<1>2. PICK f \in LastEpoch(to) : interval.end \in FirstRow(f)
  BY DEF get_interval_price_for_period
<1>3. PICK i \in DOMAIN rows : interval.begin = rows[i] /\ rows[i].epoch = e /\ IsFirstRow(i)
  BY <1>1, FirstRowIsFirst
<1>4. PICK j \in DOMAIN rows : interval.end = rows[j] /\ rows[j].epoch = f /\ IsFirstRow(j)
  BY <1>2, FirstRowIsFirst
<1>5. interval = [begin |-> interval.begin, end |-> interval.end]
  BY DEF get_interval_price_for_period
<1>. QED
  BY <1>1, <1>2, <1>3, <1>4, <1>5 DEF IsEndedBy

\* There is one first and one last epoch.
LEMMA EpochIsUnique ==
    ASSUME rows \in Seq(DataPoints), NEW from, NEW to
    PROVE  /\ \A e, f \in FirstEpoch(from) : e = f
           /\ \A e, f \in LastEpoch(to) : e = f
<1>1. \A row \in Stored : row.epoch \in Nat
  <2>1. \A i \in DOMAIN rows : rows[i] \in DataPoints
    OBVIOUS
  <2>. QED
    BY <2>1 DEF Stored, DataPoints
<1>2. ASSUME NEW e \in FirstEpoch(from), NEW f \in FirstEpoch(from)
      PROVE  e = f
  <2>1. e \in Nat /\ f \in Nat
    BY <1>1 DEF FirstEpoch
  <2>2. e <= f /\ f <= e
    BY DEF FirstEpoch
  <2>. QED
    BY <2>1, <2>2
<1>3. ASSUME NEW e \in LastEpoch(to), NEW f \in LastEpoch(to)
      PROVE  e = f
  <2>1. e \in Nat /\ f \in Nat
    BY <1>1 DEF LastEpoch
  <2>2. e <= f /\ f <= e
    BY DEF LastEpoch
  <2>. QED
    BY <2>1, <2>2
<1>. QED
  BY <1>2, <1>3

\* A period has at most one interval.
LEMMA IntervalIsUnique ==
    ASSUME rows \in Seq(DataPoints), NEW from, NEW to,
           NEW a \in get_interval_price_for_period(from, to),
           NEW b \in get_interval_price_for_period(from, to)
    PROVE  a = b
<1>1. PICK i, j \in DOMAIN rows : IsEndedBy(a, i, j, from, to)
  BY IntervalHasEnds
<1>2. PICK k, l \in DOMAIN rows : IsEndedBy(b, k, l, from, to)
  BY IntervalHasEnds
<1>3. rows[i].epoch = rows[k].epoch /\ rows[j].epoch = rows[l].epoch
  BY <1>1, <1>2, EpochIsUnique DEF IsEndedBy
<1>4. i = k /\ j = l
  BY <1>1, <1>2, <1>3, FirstRowIsUnique DEF IsEndedBy
<1>. QED
  BY <1>1, <1>2, <1>4 DEF IsEndedBy

\* The price grows from the first row of an epoch to that of a later one.
LEMMA IntervalGrows ==
    ASSUME ListenerInv, NEW from, NEW to,
           NEW interval \in get_interval_price_for_period(from, to),
           interval.begin.epoch <= interval.end.epoch
    PROVE  HasGrown(interval)
<1>1. PICK i, j \in DOMAIN rows : IsEndedBy(interval, i, j, from, to)
  BY IntervalHasEnds
<1>. DEFINE a == rows[i]
            b == rows[j]
<1>2. interval.begin = a /\ interval.end = b
  BY <1>1 DEF IsEndedBy
<1>3. rows \in Seq(DataPoints) /\ a \in DataPoints /\ b \in DataPoints
  BY DEF ListenerInv, TypeOK
<1>4. a.epoch \in Nat /\ b.epoch \in Nat /\ a.epoch <= b.epoch
  BY <1>2, <1>3 DEF DataPoints
<1>5. IsRecorded(a) /\ IsRecorded(b)
  BY DEF ListenerInv, RowsAreRecorded
<1>. HIDE DEF a, b
<1>6. a.slot <= b.slot
  <2>1. a.slot \in Nat /\ b.slot \in Nat
    BY <1>3, ListenerAssumption DEF DataPoints
  <2>2. CASE a.epoch = b.epoch
    <3>1. i = j
      BY <1>1, <1>3, <2>2, FirstRowIsUnique DEF IsEndedBy, a, b
    <3>. QED
      BY <2>1, <3>1 DEF a, b
  <2>3. CASE a.epoch < b.epoch
    BY <1>5, <2>1, <2>3, EpochsOfSlots DEF IsRecorded
  <2>. QED
    BY <1>4, <2>2, <2>3
<1>7. chain \in Seq(Prices \cup {NoStSol})
  BY DEF ListenerInv, TypeOK
<1>8. a.slot + 1 \in DOMAIN chain /\ b.slot + 1 \in DOMAIN chain
      /\ a.slot + 1 <= b.slot + 1
  BY <1>5, <1>6, <1>7 DEF IsRecorded, Slot
<1>9. NotBelow(b.price, a.price)
  BY <1>5, <1>8 DEF ListenerInv, ChainNeverDrops, IsRecorded
<1>. QED
  BY <1>2, <1>9 DEF NotBelow, HasGrown, Price

\* A row between the two ends of a period keeps its interval in order.
LEMMA RowBetweenKeepsOrder ==
    ASSUME rows \in Seq(DataPoints), NEW from \in Int, NEW to \in Int, NEW row \in Stored,
           row.timestamp > from, row.timestamp < to,
           NEW interval \in get_interval_price_for_period(from, to)
    PROVE  interval.begin.epoch <= interval.end.epoch
<1>1. PICK i, j \in DOMAIN rows : IsEndedBy(interval, i, j, from, to)
  BY IntervalHasEnds
<1>2. rows[i].epoch <= row.epoch
  BY <1>1 DEF IsEndedBy, FirstEpoch
<1>3. row.epoch <= rows[j].epoch
  BY <1>1 DEF IsEndedBy, LastEpoch
<1>4. rows[i].epoch \in Nat /\ rows[j].epoch \in Nat /\ row.epoch \in Nat
  <2>1. rows[i] \in DataPoints /\ rows[j] \in DataPoints /\ row \in DataPoints
    BY DEF Stored
  <2>. QED
    BY <2>1 DEF DataPoints
<1>5. rows[i].epoch <= rows[j].epoch
  BY <1>2, <1>3, <1>4
<1>. QED
  BY <1>1, <1>5 DEF IsEndedBy

\* All rows are older than the end of a period that ends now or later: its last epoch
\* is not before any.
LEMMA MovingTargetIsOrdered ==
    ASSUME ListenerInv, NEW from, NEW to \in Int, to >= now,
           NEW interval \in get_interval_price_for_period(from, to)
    PROVE  interval.begin.epoch <= interval.end.epoch
<1>1. PICK i, j \in DOMAIN rows : IsEndedBy(interval, i, j, from, to)
  BY IntervalHasEnds
<1>2. rows[i].timestamp < to
  <2>1. rows[i].timestamp < now /\ rows[i] \in DataPoints /\ now \in Nat
    BY DEF ListenerInv, RowsAreRecorded, TypeOK
  <2>2. rows[i].timestamp \in Nat
    BY <2>1 DEF DataPoints
  <2>. QED
    BY <2>1, <2>2
<1>3. rows[i] \in Stored
  BY DEF Stored
<1>4. rows[i].epoch <= rows[j].epoch
  BY <1>1, <1>2, <1>3 DEF IsEndedBy, LastEpoch
<1>. QED
  BY <1>1, <1>4 DEF IsEndedBy

-----------------------------------------------------------------------------
(* The steps *)

LEMMA InitIsSound == Init => ListenerInv
<1>. SUFFICES ASSUME Init
              PROVE  ListenerInv
  OBVIOUS
<1>1. TypeOK
  <2>1. chain \in Seq(Prices \cup {NoStSol}) /\ Len(chain) = 1
    BY DEF Init
  <2>2. Cardinality(published) <= 1
    BY FS_EmptySet DEF Init
  <2>. QED
    BY <2>1, <2>2, ListenerAssumption DEF Init, TypeOK, Slot, Launch
<1>2. ChainNeverDrops
  BY DEF Init, ChainNeverDrops, NotBelow, NoStSol
<1>. QED
  BY <1>1, <1>2 DEF Init, ListenerInv, RowsAreRecorded, PendingIsRecorded, PublishedHasGrown

LEMMA ReadIsSound ==
    ASSUME ListenerInv, NEW lag \in 0..MaxLag, Read(lag)
    PROVE  ListenerInv'
<1>. DEFINE slot == Slot - lag
            point == [timestamp |-> now, slot |-> slot, epoch |-> EpochOf(slot),
                      price |-> chain[slot + 1]]
<1>1. /\ chain \in Seq(Prices \cup {NoStSol}) /\ Slot \in 0..MaxSlot
      /\ now \in Nat /\ MaxSlot \in Nat /\ MaxLag \in Nat
  BY ListenerAssumption DEF ListenerInv, TypeOK
<1>2. slot \in 0..Slot /\ slot \in 0..MaxSlot /\ slot \in Nat /\ slot + 1 \in DOMAIN chain
  BY <1>1 DEF Read, Slot
<1>3. point \in Points
  <2>1. EpochOf(slot) \in Nat
    BY <1>2, EpochsOfSlots
  <2>2. chain[slot + 1] \in Prices \cup {NoStSol}
    BY <1>1, <1>2
  <2>. QED
    BY <1>1, <1>2, <2>1, <2>2 DEF Points
<1>4. IsRecorded(point)
  BY <1>2 DEF IsRecorded
<1>. HIDE DEF slot, point
<1>5. pending' = {point} /\ now' = now + 1 /\ last_poll' = Slot /\ pc' = "insert"
      /\ UNCHANGED <<chain, rows, published, request, crashes>>
  BY DEF Read, point, slot
<1>6. TypeOK'
  BY <1>1, <1>5 DEF ListenerInv, TypeOK, Slot
<1>7. ChainNeverDrops' /\ PublishedHasGrown'
  BY <1>5 DEF ListenerInv, ChainNeverDrops, PublishedHasGrown
<1>8. RowsAreRecorded'
  <2>. SUFFICES ASSUME NEW i \in DOMAIN rows
                PROVE  IsRecorded(rows[i]) /\ rows[i].timestamp < now + 1
    BY <1>5 DEF RowsAreRecorded, IsRecorded, Slot
  <2>1. rows[i] \in DataPoints /\ IsRecorded(rows[i]) /\ rows[i].timestamp < now
    BY DEF ListenerInv, TypeOK, RowsAreRecorded
  <2>2. rows[i].timestamp \in Nat
    BY <2>1 DEF DataPoints
  <2>. QED
    BY <1>1, <2>1, <2>2
<1>9. PendingIsRecorded'
  <2>1. point.timestamp = now
    BY DEF point
  <2>. QED
    BY <1>1, <1>3, <1>4, <1>5, <2>1 DEF PendingIsRecorded, IsRecorded, Slot
<1>. QED
  BY <1>6, <1>7, <1>8, <1>9 DEF ListenerInv

\* What a row has that meets the constraint of the table.
LEMMA ConstraintMakesDataPoint ==
    ASSUME NEW point \in Points, IsConstraintMet(point)
    PROVE  point \in DataPoints
<1>1. point.price \in Prices
  BY DEF Points, IsConstraintMet, NoStSol
<1>. QED
  BY <1>1, ListenerAssumption DEF Points, DataPoints

LEMMA InsertIsSound ==
    ASSUME ListenerInv, Insert
    PROVE  ListenerInv'
<1>1. pending' = {} /\ UNCHANGED <<chain, now, last_poll, published, request, crashes>>
  BY DEF Insert
<1>2. PICK point \in pending :
          IF IsConstraintMet(point)
          THEN rows' = Append(rows, point) /\ pc' = "query"
          ELSE rows' = rows /\ pc' = "read"
  BY DEF Insert
<1>3. point \in Points /\ IsRecorded(point) /\ point.timestamp < now /\ now \in Nat
  BY DEF ListenerInv, PendingIsRecorded, TypeOK
<1>4. rows \in Seq(DataPoints)
  BY DEF ListenerInv, TypeOK
<1>5. rows' \in Seq(DataPoints)
  BY <1>2, <1>3, <1>4, ConstraintMakesDataPoint
<1>6. TypeOK'
  BY <1>1, <1>2, <1>5 DEF ListenerInv, TypeOK, Slot
<1>7. ChainNeverDrops' /\ PublishedHasGrown' /\ PendingIsRecorded'
  BY <1>1 DEF ListenerInv, ChainNeverDrops, PublishedHasGrown, PendingIsRecorded
<1>8. \A i \in DOMAIN rows' : IsRecorded(rows'[i]) /\ rows'[i].timestamp < now
  <2>1. CASE IsConstraintMet(point)
    <3>1. rows' = Append(rows, point)
      BY <1>2, <2>1
    <3>. SUFFICES ASSUME NEW i \in 1..(Len(rows) + 1)
                  PROVE  IsRecorded(rows'[i]) /\ rows'[i].timestamp < now
      BY <1>4, <3>1
    <3>2. CASE i = Len(rows) + 1
      <4>1. rows'[i] = point
        BY <1>4, <3>1, <3>2
      <4>. QED
        BY <1>3, <4>1
    <3>3. CASE i # Len(rows) + 1
      <4>1. i \in DOMAIN rows /\ rows'[i] = rows[i]
        BY <1>4, <3>1, <3>3
      <4>. QED
        BY <4>1 DEF ListenerInv, RowsAreRecorded
    <3>. QED
      BY <3>2, <3>3
  <2>2. CASE ~IsConstraintMet(point)
    BY <1>2, <2>2 DEF ListenerInv, RowsAreRecorded
  <2>. QED
    BY <2>1, <2>2
<1>9. RowsAreRecorded'
  BY <1>1, <1>8 DEF RowsAreRecorded, IsRecorded, Slot
<1>. QED
  BY <1>6, <1>7, <1>9 DEF ListenerInv

LEMMA QueryIsSound ==
    ASSUME ListenerInv, QueryAndPublish
    PROVE  ListenerInv'
<1>. DEFINE interval == get_interval_price_for_period(now - ThirtyDays, now)
<1>1. /\ published' = IF interval # {} THEN interval ELSE published
      /\ pc' = "read"
      /\ UNCHANGED <<chain, now, rows, pending, last_poll, request, crashes>>
  BY DEF QueryAndPublish
<1>2. rows \in Seq(DataPoints) /\ now \in Nat
  BY DEF ListenerInv, TypeOK
<1>3. ASSUME NEW a \in interval
      PROVE  /\ a \in [begin : DataPoints, end : DataPoints]
             /\ interval = {a}
             /\ HasGrown(a)
  <2>1. PICK i, j \in DOMAIN rows : IsEndedBy(a, i, j, now - ThirtyDays, now)
    BY IntervalHasEnds
  <2>2. rows[i] \in DataPoints /\ rows[j] \in DataPoints
    BY <1>2
  <2>3. a \in [begin : DataPoints, end : DataPoints]
    BY <2>1, <2>2 DEF IsEndedBy
  <2>4. \A b \in interval : b = a
    BY <1>2, IntervalIsUnique
  <2>5. a.begin.epoch <= a.end.epoch
    BY <1>2, MovingTargetIsOrdered
  <2>6. HasGrown(a)
    BY <2>5, IntervalGrows
  <2>. QED
    BY <2>3, <2>4, <2>6
<1>. HIDE DEF interval
<1>4. /\ published' \subseteq [begin : DataPoints, end : DataPoints]
      /\ Cardinality(published') <= 1
      /\ \A a \in published' : HasGrown(a)
  <2>1. CASE interval = {}
    BY <1>1, <2>1 DEF ListenerInv, TypeOK, PublishedHasGrown
  <2>2. CASE interval # {}
    <3>1. PICK a : a \in interval
      BY <2>2
    <3>2. Cardinality({a}) = 1
      BY FS_Singleton
    <3>3. published' = {a}
      BY <1>1, <1>3, <2>2, <3>1
    <3>. QED
      BY <1>3, <3>1, <3>2, <3>3
  <2>. QED
    BY <2>1, <2>2
<1>5. TypeOK'
  BY <1>1, <1>4 DEF ListenerInv, TypeOK, Slot
<1>6. ChainNeverDrops' /\ RowsAreRecorded' /\ PendingIsRecorded'
  BY <1>1 DEF ListenerInv, ChainNeverDrops, RowsAreRecorded, PendingIsRecorded, IsRecorded, Slot
<1>7. PublishedHasGrown'
  BY <1>4 DEF PublishedHasGrown
<1>. QED
  BY <1>5, <1>6, <1>7 DEF ListenerInv

LEMMA CrashIsSound ==
    ASSUME ListenerInv, Crash
    PROVE  ListenerInv'
<1>1. Cardinality(published') <= 1
  BY FS_EmptySet DEF Crash
<1>2. TypeOK'
  BY <1>1, ListenerAssumption DEF Crash, ListenerInv, TypeOK, Slot
<1>3. ChainNeverDrops' /\ RowsAreRecorded' /\ PendingIsRecorded' /\ PublishedHasGrown'
  BY DEF Crash, ListenerInv, ChainNeverDrops, RowsAreRecorded, PendingIsRecorded,
         PublishedHasGrown, IsRecorded, Slot
<1>. QED
  BY <1>2, <1>3 DEF ListenerInv

\* A request only moves the clock on.
LEMMA ReceiveIsSound ==
    ASSUME ListenerInv, Receive
    PROVE  ListenerInv'
<1>1. /\ now \in Nat /\ now' = now + 1 /\ request' = {now}
      /\ UNCHANGED <<chain, rows, pc, pending, last_poll, published, crashes>>
  BY DEF ListenerInv, TypeOK, Receive
<1>2. TypeOK'
  BY <1>1 DEF ListenerInv, TypeOK, Slot
<1>3. ChainNeverDrops' /\ PublishedHasGrown'
  BY <1>1 DEF ListenerInv, ChainNeverDrops, PublishedHasGrown
<1>4. ASSUME NEW t \in Nat, t < now
      PROVE  t < now'
  BY <1>1, <1>4
<1>5. RowsAreRecorded'
  <2>. SUFFICES ASSUME NEW i \in DOMAIN rows
                PROVE  IsRecorded(rows[i]) /\ rows[i].timestamp < now'
    BY <1>1 DEF RowsAreRecorded, IsRecorded, Slot
  <2>1. rows[i] \in DataPoints /\ IsRecorded(rows[i]) /\ rows[i].timestamp < now
    BY DEF ListenerInv, TypeOK, RowsAreRecorded
  <2>. QED
    BY <1>4, <2>1 DEF DataPoints
<1>6. PendingIsRecorded'
  <2>. SUFFICES ASSUME NEW point \in pending
                PROVE  point \in Points /\ IsRecorded(point) /\ point.timestamp < now'
    BY <1>1 DEF PendingIsRecorded, IsRecorded, Slot
  <2>1. point \in Points /\ IsRecorded(point) /\ point.timestamp < now
    BY DEF ListenerInv, PendingIsRecorded
  <2>. QED
    BY <1>4, <2>1 DEF Points
<1>. QED
  BY <1>2, <1>3, <1>5, <1>6 DEF ListenerInv

LEMMA AnswerIsSound ==
    ASSUME ListenerInv, Answer
    PROVE  ListenerInv'
BY DEF Answer, ListenerInv, TypeOK, ChainNeverDrops, RowsAreRecorded, PendingIsRecorded,
       PublishedHasGrown, IsRecorded, Slot

\* The chain records a price that is not below the present one.
LEMMA ChainAdvancesIsSound ==
    ASSUME ListenerInv, ChainAdvances
    PROVE  ListenerInv'
<1>1. PICK price \in NextRates : chain' = Append(chain, price)
  BY DEF ChainAdvances
<1>2. Slot < MaxSlot /\ UNCHANGED <<now, rows, pc, pending, last_poll, published, request, crashes>>
  BY DEF ChainAdvances
<1>3. chain \in Seq(Prices \cup {NoStSol}) /\ Len(chain) > 0 /\ Slot \in 0..MaxSlot
      /\ Slot = Len(chain) - 1 /\ MaxSlot \in Nat
  BY ListenerAssumption DEF ListenerInv, TypeOK, Slot
<1>4. Current \in Prices \cup {NoStSol}
  BY <1>3 DEF Current
<1>5. price \in Prices \cup {NoStSol}
  BY <1>4 DEF NextRates
<1>6. NotBelow(price, Current)
  <2>1. CASE price = Current
    <3>1. Current.numerator \in Nat /\ Current.denominator \in Nat
      BY <1>4, PriceTypes
    <3>. QED
      BY <2>1, <3>1 DEF NotBelow
  <2>2. CASE price # Current
    <3>1. /\ price \in Prices
          /\ price.numerator * Current.denominator >= Current.numerator * price.denominator
      BY <2>2 DEF NextRates
    <3>2. price.denominator # 0
      BY <3>1, ListenerAssumption
    <3>. QED
      BY <3>1, <3>2 DEF NotBelow
  <2>. QED
    BY <2>1, <2>2
<1>7. /\ chain' \in Seq(Prices \cup {NoStSol})
      /\ Len(chain') = Len(chain) + 1
      /\ chain'[Len(chain) + 1] = price
      /\ \A s \in 1..Len(chain) : chain'[s] = chain[s]
  BY <1>1, <1>3, <1>5
<1>8. TypeOK'
  <2>1. Slot' \in 0..MaxSlot
    BY <1>2, <1>3, <1>7 DEF Slot
  <2>. QED
    BY <1>2, <1>7, <2>1 DEF ListenerInv, TypeOK
<1>9. ChainNeverDrops'
  <2>. SUFFICES ASSUME NEW s \in 1..Len(chain'), NEW t \in 1..Len(chain'), s <= t
                PROVE  NotBelow(chain'[t], chain'[s])
    BY <1>7 DEF ChainNeverDrops, NotBelow
  <2>1. CASE t <= Len(chain)
    <3>1. s \in DOMAIN chain /\ t \in DOMAIN chain /\ chain'[s] = chain[s] /\ chain'[t] = chain[t]
      BY <1>3, <1>7, <2>1
    <3>. QED
      BY <3>1 DEF ListenerInv, ChainNeverDrops
  <2>2. CASE t > Len(chain) /\ s <= Len(chain)
    <3>1. chain'[t] = price /\ chain'[s] = chain[s] /\ s \in DOMAIN chain
          /\ Len(chain) \in DOMAIN chain /\ s <= Len(chain)
      BY <1>3, <1>7, <2>2
    <3>2. NotBelow(Current, chain[s])
      BY <3>1 DEF ListenerInv, ChainNeverDrops, Current
    <3>3. chain[s] \in Prices \cup {NoStSol}
      BY <1>3, <3>1
    <3>. QED
      BY <1>4, <1>5, <1>6, <3>1, <3>2, <3>3, NotBelowTransitive
  <2>3. CASE t > Len(chain) /\ s > Len(chain)
    <3>1. chain'[t] = price /\ chain'[s] = price
      BY <1>3, <1>7, <2>3
    <3>2. price.numerator \in Nat /\ price.denominator \in Nat
      BY <1>5, PriceTypes
    <3>. QED
      BY <3>1, <3>2 DEF NotBelow
  <2>. QED
    BY <1>3, <1>7, <2>1, <2>2, <2>3
<1>10. ASSUME NEW p, IsRecorded(p)
       PROVE  /\ p.slot \in 0..(Len(chain') - 1)
              /\ p.epoch = EpochOf(p.slot)
              /\ p.price = chain'[p.slot + 1]
  <2>1. p.slot \in 0..(Len(chain) - 1)
    BY <1>10, <1>3 DEF IsRecorded
  <2>. QED
    BY <1>10, <1>3, <1>7, <2>1 DEF IsRecorded
<1>11. RowsAreRecorded'
  BY <1>2, <1>10 DEF ListenerInv, RowsAreRecorded, IsRecorded, Slot
<1>12. PendingIsRecorded'
  BY <1>2, <1>10 DEF ListenerInv, PendingIsRecorded, IsRecorded, Slot
<1>13. PublishedHasGrown'
  BY <1>2 DEF ListenerInv, PublishedHasGrown
<1>. QED
  BY <1>8, <1>9, <1>11, <1>12, <1>13 DEF ListenerInv

LEMMA StutterIsSound ==
    ASSUME ListenerInv, UNCHANGED vars
    PROVE  ListenerInv'
BY DEF vars, ListenerInv, TypeOK, ChainNeverDrops, RowsAreRecorded, PendingIsRecorded,
       PublishedHasGrown, IsRecorded, Slot

LEMMA StepIsSound == ListenerInv /\ [Next]_vars => ListenerInv'
BY ReadIsSound, InsertIsSound, QueryIsSound, CrashIsSound, ReceiveIsSound, AnswerIsSound,
   ChainAdvancesIsSound, StutterIsSound DEF Next, Halt

-----------------------------------------------------------------------------
(* The theorems *)

\* The inductive invariant holds in every reachable state.
THEOREM ListenerInvariant == Spec => []ListenerInv
<1>1. Init => ListenerInv
  BY InitIsSound
<1>2. ListenerInv /\ [Next]_vars => ListenerInv'
  BY StepIsSound
<1>. QED
  BY <1>1, <1>2, PTL DEF Spec

(***************************************************************************)
(* For every period the price of the later end of the interval that        *)
(* get_interval_price_for_period returns is at least that of the earlier,  *)
(* the published interval has grown, and duration_epochs does not underflow*)
(* for a period that ends when its request is received or later, unless all*)
(* rows behind its begin were taken since; although nodes lag and rows are *)
(* chosen by epoch.                                                        *)
(***************************************************************************)
THEOREM IntervalsStaySound == Spec => []IntervalsAreSound
<1>1. ListenerInv => IntervalsAreSound
  <2>. SUFFICES ASSUME ListenerInv
                PROVE  IntervalsAreSound
    OBVIOUS
  <2>1. YieldIsNotNegative
    BY IntervalGrows DEF YieldIsNotNegative, ListenerInv, PublishedHasGrown
  <2>2. DurationDoesNotUnderflow
    <3>. SUFFICES ASSUME NEW received \in request,
                         NEW from \in Launch..(now + 1), NEW to \in Launch..(now + 1),
                         IsMovingTarget(received, to),
                         NEW interval \in get_interval_price_for_period(from, to),
                         NEW row \in Stored, row.timestamp > from, ~(row.timestamp >= received)
                  PROVE  interval.begin.epoch <= interval.end.epoch
      BY DEF DurationDoesNotUnderflow
    <3>1. rows \in Seq(DataPoints) /\ received \in Nat /\ now \in Nat /\ row \in DataPoints
      BY DEF ListenerInv, TypeOK, Stored
    <3>2. from \in Int /\ to \in Int /\ to >= received
      BY <3>1 DEF IsMovingTarget, Launch
    <3>3. row.timestamp \in Nat
      BY <3>1 DEF DataPoints
    <3>4. row.timestamp < to
      BY <3>1, <3>2, <3>3
    <3>. QED
      BY <3>1, <3>2, <3>4, RowBetweenKeepsOrder
  <2>. QED
    BY <2>1, <2>2 DEF IntervalsAreSound, ListenerInv
<1>. QED
  BY <1>1, ListenerInvariant, PTL

\* A new row is behind all others: the first row of an epoch that has one stays.
LEMMA FirstRowStays ==
    ASSUME rows \in Seq(DataPoints), NEW point, rows' = Append(rows, point),
           NEW e, FirstRow(e) # {}
    PROVE  FirstRow(e)' = FirstRow(e)
<1>. DEFINE min == MinimumSlot(e)
            Fits(row) == row.epoch = e /\ row.slot >= min
            found == {i \in DOMAIN rows : Fits(rows[i])}
            found1 == {i \in DOMAIN rows' : Fits(rows'[i])}
<1>1. /\ FirstRow(e) = {rows[i] : i \in {j \in found : \A k \in found : j <= k}}
      /\ FirstRow(e)' = {rows'[i] : i \in {j \in found1 : \A k \in found1 : j <= k}}
  BY DEF FirstRow, MinimumSlot
<1>2. /\ DOMAIN rows = 1..Len(rows) /\ Len(rows) \in Nat
      /\ DOMAIN rows' = 1..(Len(rows) + 1)
      /\ \A i \in 1..Len(rows) : rows'[i] = rows[i]
  OBVIOUS
<1>. HIDE DEF Fits
<1>3. found \subseteq found1 /\ found1 \subseteq found \cup {Len(rows) + 1}
      /\ found \subseteq 1..Len(rows)
  BY <1>2
<1>4. PICK i \in found : \A k \in found : i <= k
  BY <1>1
<1>5. {j \in found : \A k \in found : j <= k} = {i}
  BY <1>3, <1>4
<1>6. {j \in found1 : \A k \in found1 : j <= k} = {i}
  <2>1. i \in found1 /\ \A k \in found1 : i <= k
    BY <1>2, <1>3, <1>4
  <2>2. ASSUME NEW j \in found1, \A k \in found1 : j <= k
        PROVE  j = i
    <3>1. j \in Nat /\ i \in Nat /\ j <= i /\ i <= j
      BY <1>2, <1>3, <2>1, <2>2
    <3>. QED
      BY <3>1
  <2>. QED
    BY <2>1, <2>2
<1>7. rows'[i] = rows[i]
  BY <1>2, <1>3
<1>. QED
  BY <1>1, <1>5, <1>6, <1>7

LEMMA StoredGrows ==
    ASSUME rows \in Seq(DataPoints), NEW point, rows' = Append(rows, point)
    PROVE  Stored' = Stored \cup {point}
<1>1. /\ DOMAIN rows = 1..Len(rows) /\ Len(rows) \in Nat
      /\ DOMAIN rows' = 1..(Len(rows) + 1)
      /\ \A i \in 1..Len(rows) : rows'[i] = rows[i]
      /\ rows'[Len(rows) + 1] = point
  OBVIOUS
<1>2. 1..(Len(rows) + 1) = 1..Len(rows) \cup {Len(rows) + 1}
  BY <1>1
<1>3. Stored' = {rows'[i] : i \in 1..Len(rows) \cup {Len(rows) + 1}}
  BY <1>1, <1>2 DEF Stored
<1>. QED
  BY <1>1, <1>3 DEF Stored

\* The first epoch of a period that has one stays, when epochs are ordered.
LEMMA FirstEpochStays ==
    ASSUME rows \in Seq(DataPoints), NEW point, rows' = Append(rows, point),
           point.epoch \in Nat, EpochsAreOrdered', NEW from, FirstEpoch(from) # {}
    PROVE  FirstEpoch(from)' = FirstEpoch(from)
<1>. DEFINE epochs == {row.epoch : row \in {r \in Stored : r.timestamp > from}}
            epochs1 == {row.epoch : row \in {r \in Stored' : r.timestamp > from}}
<1>1. /\ FirstEpoch(from) = {e \in epochs : \A f \in epochs : e <= f}
      /\ FirstEpoch(from)' = {e \in epochs1 : \A f \in epochs1 : e <= f}
  BY DEF FirstEpoch
<1>2. epochs \subseteq epochs1 /\ epochs1 \subseteq epochs \cup {point.epoch}
  BY StoredGrows
<1>3. epochs \subseteq Nat
  <2>1. \A i \in DOMAIN rows : rows[i] \in DataPoints
    OBVIOUS
  <2>. QED
    BY <2>1, SMTT(30) DEF Stored, DataPoints
<1>4. \A e \in epochs : e <= point.epoch
  <2>1. /\ DOMAIN rows = 1..Len(rows) /\ Len(rows) \in Nat
        /\ DOMAIN rows' = 1..(Len(rows) + 1)
        /\ \A i \in 1..Len(rows) : rows'[i] = rows[i]
        /\ rows'[Len(rows) + 1] = point
    OBVIOUS
  <2>2. \A i \in 1..Len(rows) : rows[i].epoch <= point.epoch
    BY <2>1 DEF EpochsAreOrdered
  <2>. QED
    BY <2>1, <2>2 DEF Stored
<1>. HIDE DEF epochs, epochs1
<1>5. PICK e \in epochs : \A f \in epochs : e <= f
  BY <1>1
<1>6. FirstEpoch(from) = {e}
  <2>1. \A g \in epochs : (\A f \in epochs : g <= f) => g = e
    BY <1>3, <1>5
  <2>. QED
    BY <1>1, <1>5, <2>1
<1>7. e \in epochs1 /\ \A f \in epochs1 : e <= f
  BY <1>2, <1>4, <1>5
<1>8. ASSUME NEW g \in epochs1, \A f \in epochs1 : g <= f
      PROVE  g = e
  <2>1. g <= e /\ e <= g
    BY <1>7, <1>8
  <2>2. CASE g \in epochs
    BY <1>3, <1>5, <2>1, <2>2
  <2>3. CASE g = point.epoch
    BY <1>3, <1>5, <2>1, <2>3
  <2>. QED
    BY <1>2, <2>2, <2>3
<1>. QED
  BY <1>1, <1>6, <1>7, <1>8

\* A row from behind the end of a period does not change its last epoch.
LEMMA LastEpochStays ==
    ASSUME rows \in Seq(DataPoints), NEW point, rows' = Append(rows, point),
           NEW to, ~(point.timestamp < to)
    PROVE  LastEpoch(to)' = LastEpoch(to)
<1>1. {r \in Stored' : r.timestamp < to} = {r \in Stored : r.timestamp < to}
  BY StoredGrows
<1>. QED
  BY <1>1 DEF LastEpoch

(***************************************************************************)
(* What get_expires_header lets clients keep for a week does not change:   *)
(* the interval of a period in the past stays the same when a row is       *)
(* added, as long as no node lags into an earlier epoch, unless that row   *)
(* was taken before the period ended.                                      *)
(***************************************************************************)
THEOREM PastAnswersStayFinal == Spec => PastAnswersAreFinal
<1>. DEFINE Final ==
        EpochsAreOrdered' =>
          \A from, to \in Launch..(now - 1) :
              (/\ \A point \in pending : to <= point.timestamp
               /\ get_interval_price_for_period(from, to) # {})
              => get_interval_price_for_period(from, to)'
                   = get_interval_price_for_period(from, to)
<1>1. ASSUME ListenerInv, [Next]_vars, rows' # rows
      PROVE  Final
  <2>1. Insert
    BY <1>1 DEF Next, vars, Read, QueryAndPublish, Crash, Receive, Answer, ChainAdvances, Halt
  <2>2. PICK point \in pending : rows' = Append(rows, point)
    BY <1>1, <2>1 DEF Insert
  <2>3. rows \in Seq(DataPoints) /\ now \in Nat
        /\ point.timestamp \in Nat /\ point.epoch \in Nat
    BY <1>1 DEF ListenerInv, TypeOK, PendingIsRecorded, Points
  <2>. SUFFICES ASSUME EpochsAreOrdered', NEW from \in Launch..(now - 1),
                       NEW to \in Launch..(now - 1),
                       \A p \in pending : to <= p.timestamp,
                       get_interval_price_for_period(from, to) # {}
                PROVE  get_interval_price_for_period(from, to)'
                         = get_interval_price_for_period(from, to)
    OBVIOUS
  <2>4. ~(point.timestamp < to)
    BY <2>3 DEF Launch
  <2>5. PICK interval : interval \in get_interval_price_for_period(from, to)
    OBVIOUS
  <2>6. PICK e \in FirstEpoch(from) : interval.begin \in FirstRow(e)
    BY <2>5 DEF get_interval_price_for_period
  <2>7. PICK f \in LastEpoch(to) : interval.end \in FirstRow(f)
    BY <2>5 DEF get_interval_price_for_period
  <2>8. FirstEpoch(from) = {e} /\ LastEpoch(to) = {f}
    BY <2>3, <2>6, <2>7, EpochIsUnique
  <2>9. FirstEpoch(from)' = {e} /\ LastEpoch(to)' = {f}
    BY <2>2, <2>3, <2>4, <2>8, FirstEpochStays, LastEpochStays
  <2>10. FirstRow(e)' = FirstRow(e) /\ FirstRow(f)' = FirstRow(f)
    BY <2>2, <2>3, <2>6, <2>7, FirstRowStays
  <2>11. get_interval_price_for_period(from, to) = [begin : FirstRow(e), end : FirstRow(f)]
    BY <2>8 DEF get_interval_price_for_period
  <2>12. get_interval_price_for_period(from, to)' = [begin : FirstRow(e)', end : FirstRow(f)']
    BY <2>9 DEF get_interval_price_for_period
  <2>. QED
    BY <2>10, <2>11, <2>12
<1>2. ListenerInv /\ [Next]_vars => [Final]_rows
  BY <1>1
<1>3. Spec => [][Final]_rows
  BY <1>2, ListenerInvariant, PTL DEF Spec
<1>. QED
  BY <1>3 DEF PastAnswersAreFinal

=============================================================================
