----------------------------- MODULE DataLemmas -----------------------------
(***************************************************************************)
(* The lemmas about data that the proofs rest on: what the operators of    *)
(* AccountList and Filter return, for every list (the lists of the program,*)
(* the queries of the snapshot client, the owners of the multisig), and how*)
(* sums over finite sets behave (the balances of validators and accounts). *)
(***************************************************************************)
EXTENDS Integers, AccountList, Filter, FiniteSets, Functions, FiniteSetTheorems,
        WellFoundedInduction, TLAPS

-----------------------------------------------------------------------------
(* Lists with keys *)

\* The three ways in which the code writes a list.
Pushes(list, e, new) == new = Append(list, e)
Overwrites(list, p, e, new) == new = [list EXCEPT ![p] = e]
Removes(list, p, new) == new = SwapRemove(list, p)

\* A list that fits its account and holds no key twice.
IsList(E, max, list) == list \in Seq(E) /\ Len(list) <= max /\ HasUniqueKeys(list)

EntryFor(list, key) == list[Position(list, key)]

\* The entries of all keys but one are the same in both lists, wherever they are.
SameBut(k, list, new) ==
    \A key \in Keys(list) : key # k => key \in Keys(new) /\ EntryFor(new, key) = EntryFor(list, key)

\* A key that is in a list has a position there.
LEMMA PositionOfKey ==
    ASSUME NEW list, NEW key \in Keys(list)
    PROVE  Position(list, key) \in DOMAIN list /\ list[Position(list, key)].pubkey = key
<1>1. \E i \in DOMAIN list : list[i].pubkey = key
  BY DEF Keys
<1>. QED
  BY <1>1 DEF Position

\* Keys that occur once are found where they are.
LEMMA PositionIsUnique ==
    ASSUME NEW list, HasUniqueKeys(list), NEW i \in DOMAIN list
    PROVE  Position(list, list[i].pubkey) = i /\ list[i].pubkey \in Keys(list)
<1>1. list[i].pubkey \in Keys(list)
  BY DEF Keys
<1>. QED
  BY <1>1, PositionOfKey DEF HasUniqueKeys

\* `push`: the list grows by an entry, and all other entries stay where they are.
LEMMA PushEntry ==
    ASSUME NEW E, NEW max \in Nat, NEW list, IsList(E, max, list), NEW e \in E,
           CanPush(list, max, e.pubkey), NEW new, Pushes(list, e, new)
    PROVE  /\ IsList(E, max, new)
           /\ Keys(new) = Keys(list) \cup {e.pubkey}
           /\ EntryFor(new, e.pubkey) = e
           /\ SameBut(e.pubkey, list, new)
<1>. USE DEF IsList, EntryFor
<1>1. /\ new \in Seq(E)
      /\ Len(new) = Len(list) + 1
      /\ DOMAIN new = 1 .. (Len(list) + 1)
      /\ DOMAIN list = 1 .. Len(list)
      /\ Len(list) \in Nat
      /\ new[Len(list) + 1] = e
      /\ \A i \in 1 .. Len(list) : new[i] = list[i]
  BY DEF Pushes
<1>2. Len(new) <= max
  <2>1. Len(list) # max
    BY DEF CanPush
  <2>2. Len(list) \in Nat /\ Len(new) = Len(list) + 1
    BY <1>1
  <2>. QED
    BY <2>1, <2>2
<1>3. \A i \in DOMAIN list : list[i].pubkey # e.pubkey
  BY DEF CanPush, Keys
<1>4. ASSUME NEW i \in DOMAIN new, NEW j \in DOMAIN new, new[i].pubkey = new[j].pubkey
      PROVE  i = j
  <2>1. CASE i \in DOMAIN list /\ j \in DOMAIN list
    BY <1>1, <1>4, <2>1 DEF HasUniqueKeys
  <2>2. CASE i \in DOMAIN list /\ j \notin DOMAIN list
    BY <1>1, <1>3, <1>4, <2>2
  <2>3. CASE i \notin DOMAIN list /\ j \in DOMAIN list
    BY <1>1, <1>3, <1>4, <2>3
  <2>4. CASE i \notin DOMAIN list /\ j \notin DOMAIN list
    BY <1>1, <2>4
  <2>. QED
    BY <2>1, <2>2, <2>3, <2>4
<1>5. HasUniqueKeys(new)
  BY <1>4 DEF HasUniqueKeys
<1>6. Keys(new) = Keys(list) \cup {e.pubkey}
  <2>1. ASSUME NEW k \in Keys(new)
        PROVE  k \in Keys(list) \cup {e.pubkey}
    <3>1. PICK i \in DOMAIN new : new[i].pubkey = k
      BY DEF Keys
    <3>2. CASE i \in DOMAIN list
      BY <1>1, <3>1, <3>2 DEF Keys
    <3>3. CASE i = Len(list) + 1
      BY <1>1, <3>1, <3>3
    <3>. QED
      BY <1>1, <3>2, <3>3
  <2>2. ASSUME NEW k \in Keys(list)
        PROVE  k \in Keys(new)
    <3>1. PICK i \in DOMAIN list : list[i].pubkey = k
      BY DEF Keys
    <3>2. i \in DOMAIN new /\ new[i].pubkey = k
      BY <1>1, <3>1
    <3>. QED
      BY <3>2 DEF Keys
  <2>3. e.pubkey \in Keys(new)
    <3>1. Len(list) + 1 \in DOMAIN new
      BY <1>1
    <3>. QED
      BY <1>1, <3>1 DEF Keys
  <2>. QED
    BY <2>1, <2>2, <2>3
<1>7. new[Position(new, e.pubkey)] = e
  <2>1. Len(list) + 1 \in DOMAIN new
    BY <1>1
  <2>. QED
    BY <1>1, <1>5, <2>1, PositionIsUnique
<1>8. ASSUME NEW key \in Keys(list)
      PROVE  new[Position(new, key)] = list[Position(list, key)]
  <2>. DEFINE p == Position(list, key)
  <2>1. p \in DOMAIN list /\ list[p].pubkey = key
    BY PositionOfKey
  <2>. HIDE DEF p
  <2>2. p \in DOMAIN new /\ new[p] = list[p]
    BY <1>1, <2>1
  <2>3. Position(new, key) = p
    BY <1>5, <2>1, <2>2, PositionIsUnique
  <2>. QED
    BY <2>2, <2>3 DEF p
<1>. QED
  BY <1>1, <1>2, <1>5, <1>6, <1>7, <1>8 DEF SameBut

\* Writing an entry without changing its key: all other entries are as before.
LEMMA WriteEntry ==
    ASSUME NEW E, NEW max \in Nat, NEW list, IsList(E, max, list),
           NEW p \in DOMAIN list, NEW e \in E, e.pubkey = list[p].pubkey,
           NEW new, Overwrites(list, p, e, new)
    PROVE  /\ IsList(E, max, new)
           /\ Keys(new) = Keys(list)
           /\ EntryFor(new, e.pubkey) = e
           /\ SameBut(e.pubkey, list, new)
<1>. USE DEF IsList, EntryFor
<1>1. /\ new \in Seq(E)
      /\ Len(new) = Len(list)
      /\ DOMAIN new = DOMAIN list
      /\ new[p] = e
      /\ \A i \in DOMAIN list : i # p => new[i] = list[i]
  BY DEF Overwrites
<1>2. \A i \in DOMAIN list : new[i].pubkey = list[i].pubkey
  BY <1>1
<1>3. HasUniqueKeys(new)
  BY <1>1, <1>2 DEF HasUniqueKeys
<1>4. Keys(new) = Keys(list)
  BY <1>1, <1>2 DEF Keys
<1>5. new[Position(new, e.pubkey)] = e
  BY <1>1, <1>3, PositionIsUnique
<1>6. ASSUME NEW key \in Keys(list) \ {e.pubkey}
      PROVE  new[Position(new, key)] = list[Position(list, key)]
  <2>. DEFINE q == Position(list, key)
  <2>1. q \in DOMAIN list /\ list[q].pubkey = key
    BY PositionOfKey
  <2>. HIDE DEF q
  <2>2. q # p
    BY <1>6, <2>1
  <2>3. Position(new, key) = q
    BY <1>1, <1>2, <1>3, <2>1, PositionIsUnique
  <2>. QED
    BY <1>1, <2>1, <2>2, <2>3 DEF q
<1>. QED
  BY <1>1, <1>3, <1>4, <1>5, <1>6 DEF SameBut

\* `remove`: exactly one entry is gone, although another one has moved.
LEMMA RemoveEntry ==
    ASSUME NEW E, NEW max \in Nat, NEW list, IsList(E, max, list),
           NEW p \in DOMAIN list, NEW new, Removes(list, p, new)
    PROVE  /\ IsList(E, max, new)
           /\ Keys(new) = Keys(list) \ {list[p].pubkey}
           /\ SameBut(list[p].pubkey, list, new)
<1>. USE DEF IsList, EntryFor
<1>. DEFINE n == Len(list)
            src(i) == IF i = p THEN n ELSE i
<1>1. n \in Nat /\ n <= max /\ DOMAIN list = 1 .. n /\ p \in 1 .. n /\ n - 1 \in Nat
  OBVIOUS
<1>2. \A i \in 1 .. n : list[i] \in E
  OBVIOUS
<1>3. new = [i \in 1 .. (n - 1) |-> list[src(i)]]
  BY DEF Removes, SwapRemove
<1>. HIDE DEF n
<1>4. \A i \in 1 .. (n - 1) : src(i) \in 1 .. n /\ src(i) # p
  BY <1>1
<1>5. new \in Seq(E) /\ Len(new) = n - 1 /\ n - 1 <= max /\ DOMAIN new = 1 .. (n - 1)
  BY <1>1, <1>2, <1>3, <1>4
<1>6. \A i \in 1 .. (n - 1) : new[i] = list[src(i)]
  BY <1>3
<1>7. \A i, j \in 1 .. (n - 1) : src(i) = src(j) => i = j
  BY <1>1
<1>8. \A j \in 1 .. n : j # p => \E i \in 1 .. (n - 1) : src(i) = j
  <2>. SUFFICES ASSUME NEW j \in 1 .. n, j # p
                PROVE  \E i \in 1 .. (n - 1) : src(i) = j
    OBVIOUS
  <2>1. CASE j = n
    <3>1. p \in 1 .. (n - 1) /\ src(p) = j
      BY <1>1, <2>1
    <3>. QED
      BY <3>1
  <2>2. CASE j # n
    <3>1. j \in 1 .. (n - 1) /\ src(j) = j
      BY <1>1, <2>2
    <3>. QED
      BY <3>1
  <2>. QED
    BY <2>1, <2>2
<1>. HIDE DEF src
<1>9. HasUniqueKeys(new)
  <2>. SUFFICES ASSUME NEW i \in DOMAIN new, NEW j \in DOMAIN new,
                       new[i].pubkey = new[j].pubkey
                PROVE  i = j
    BY DEF HasUniqueKeys
  <2>1. src(i) = src(j)
    BY <1>1, <1>4, <1>5, <1>6 DEF HasUniqueKeys
  <2>. QED
    BY <1>5, <1>7, <2>1
<1>10. Keys(new) = Keys(list) \ {list[p].pubkey}
  <2>1. ASSUME NEW k \in Keys(new)
        PROVE  k \in Keys(list) /\ k # list[p].pubkey
    <3>1. PICK i \in DOMAIN new : new[i].pubkey = k
      BY DEF Keys
    <3>2. src(i) \in DOMAIN list /\ src(i) # p /\ list[src(i)].pubkey = k
      BY <1>1, <1>4, <1>5, <1>6, <3>1
    <3>. QED
      BY <3>2 DEF Keys, HasUniqueKeys
  <2>2. ASSUME NEW k \in Keys(list), k # list[p].pubkey
        PROVE  k \in Keys(new)
    <3>1. PICK j \in DOMAIN list : list[j].pubkey = k
      BY DEF Keys
    <3>2. PICK i \in 1 .. (n - 1) : src(i) = j
      BY <1>1, <1>8, <2>2, <3>1
    <3>3. i \in DOMAIN new /\ new[i].pubkey = k
      BY <1>5, <1>6, <3>1, <3>2
    <3>. QED
      BY <3>3 DEF Keys
  <2>. QED
    BY <2>1, <2>2
<1>11. ASSUME NEW key \in Keys(new)
       PROVE  new[Position(new, key)] = list[Position(list, key)]
  <2>. DEFINE q == Position(new, key)
  <2>1. q \in DOMAIN new /\ new[q].pubkey = key
    BY PositionOfKey
  <2>. HIDE DEF q
  <2>2. src(q) \in DOMAIN list /\ new[q] = list[src(q)]
    BY <1>1, <1>4, <1>5, <1>6, <2>1
  <2>3. Position(list, key) = src(q)
    BY <2>1, <2>2, PositionIsUnique
  <2>. QED
    BY <2>2, <2>3 DEF q
<1>. QED
  BY <1>5, <1>9, <1>10, <1>11 DEF SameBut

-----------------------------------------------------------------------------
(* Filters *)

\* Among finitely many positions there is an i-th smallest, for every i.
LEMMA NthOfPositions ==
    ASSUME NEW m \in Nat, NEW S \in SUBSET (1..m)
    PROVE  /\ Cardinality(S) \in Nat
           /\ \A i \in 1..Cardinality(S) :
                 /\ Nth(S, i) \in S
                 /\ Cardinality({k \in S : k <= Nth(S, i)}) = i
<1>. DEFINE Upto(j) == {k \in S : k <= j}
            rank == [j \in S |-> Cardinality(Upto(j))]
            n == Cardinality(S)
<1>1. IsFiniteSet(S) /\ S \subseteq Int
  <2>1. IsFiniteSet(1..m)
    BY FS_Interval
  <2>2. IsFiniteSet(S)
    BY <2>1, FS_Subset
  <2>. QED
    BY <2>2
<1>2. n \in Nat
  BY <1>1, FS_CardinalityType
<1>3. ASSUME NEW j \in S
      PROVE  /\ IsFiniteSet(Upto(j))
             /\ Cardinality(Upto(j)) \in 1..n
  <2>1. Upto(j) \in SUBSET S /\ j \in Upto(j)
    OBVIOUS
  <2>2. IsFiniteSet(Upto(j)) /\ Cardinality(Upto(j)) <= n
    BY <1>1, <2>1, FS_Subset
  <2>3. Cardinality(Upto(j)) \in Nat /\ Cardinality(Upto(j)) # 0
    BY <2>1, <2>2, FS_CardinalityType, FS_EmptySet
  <2>. QED
    BY <1>2, <2>2, <2>3
<1>4. ASSUME NEW a \in S, NEW b \in S, a < b, Cardinality(Upto(a)) = Cardinality(Upto(b))
      PROVE  FALSE
  <2>1. Upto(a) \in SUBSET Upto(b)
    <3>1. ASSUME NEW k \in S, k <= a
          PROVE  k <= b
      BY <1>1, <1>4, <3>1
    <3>. QED
      BY <3>1
  <2>2. Upto(b) = Upto(a)
    BY <1>3, <1>4, <2>1, FS_Subset
  <2>. QED
    BY <1>4, <2>2
<1>5. rank \in [S -> 1..n]
  BY <1>3
<1>6. IsInjective(rank)
  <2>. SUFFICES ASSUME NEW a \in S, NEW b \in S, rank[a] = rank[b]
                PROVE  a = b
    BY DEF IsInjective
  <2>1. a < b \/ b < a \/ a = b
    OBVIOUS
  <2>. QED
    BY <1>4, <2>1
<1>7. rank \in Injection(S, 1..n)
  BY <1>5, <1>6 DEF Injection
<1>8. IsFiniteSet(1..n) /\ Cardinality(1..n) = n
  BY <1>2, FS_Interval
<1>9. rank \in Surjection(S, 1..n)
  BY <1>7, <1>8, FS_Injection
<1>10. ASSUME NEW i \in 1..n
       PROVE  Nth(S, i) \in S /\ Cardinality(Upto(Nth(S, i))) = i
  <2>1. \E j \in S : Cardinality(Upto(j)) = i
    BY <1>9 DEF Surjection
  <2>. QED
    BY <2>1 DEF Nth
<1>. QED
  BY <1>2, <1>10

\* A filter returns elements of the list.
LEMMA ElementsAtType ==
    ASSUME NEW E, NEW list \in Seq(E), NEW positions \in SUBSET DOMAIN list
    PROVE  ElementsAt(list, positions) \in Seq(E)
<1>1. Len(list) \in Nat /\ positions \in SUBSET (1..Len(list))
  OBVIOUS
<1>2. /\ Cardinality(positions) \in Nat
      /\ \A i \in 1..Cardinality(positions) : Nth(positions, i) \in positions
  BY <1>1, NthOfPositions
<1>3. \A i \in 1..Cardinality(positions) : list[Nth(positions, i)] \in E
  BY <1>2
<1>. QED
  BY <1>2, <1>3 DEF ElementsAt

-----------------------------------------------------------------------------
(* Sums over finite sets *)

\* A family of subsets of a finite set has a member that no other is part of:
\* the form in which induction over finite sets is used here, on the family of
\* the counterexamples.
LEMMA SetMin ==
    ASSUME NEW S, IsFiniteSet(S), NEW F, F \subseteq SUBSET S, F # {}
    PROVE  \E m \in F : \A u \in F : u \subseteq m => u = m
<1>1. \A T \in F : T \in FiniteSubsetsOf(S)
  BY FS_Subset DEF FiniteSubsetsOf
<1>2. IsWellFoundedOn(StrictSubsetOrdering(S), FiniteSubsetsOf(S))
  BY FS_StrictSubsetOrderingWellFounded
<1>3. PICK m \in F : \A u \in F : ~ (<<u, m>> \in StrictSubsetOrdering(S))
  <2>. HIDE DEF IsWellFoundedOn
  <2>. QED
    BY <1>1, <1>2, WFMin
<1>4. ASSUME NEW u \in F, u \subseteq m PROVE u = m
  BY <1>3, <1>4 DEF StrictSubsetOrdering
<1>. QED
  BY <1>4

\* The element that a fold takes out first, and the equation of its partial sums.
Picked(s) == CHOOSE x \in s : TRUE
IsRunningSum(g, f, D) == g = [s \in D |-> IF s = {} THEN 0 ELSE f[Picked(s)] + g[s \ {Picked(s)}]]

\* What SumFunctionOnSet of the community modules is by its definition.
LEMMA SumIsRunningSum ==
    ASSUME NEW f, NEW S
    PROVE  SumFunctionOnSet(f, S) = (CHOOSE g : IsRunningSum(g, f, SUBSET S))[S]
BY DEF SumFunctionOnSet, FoldFunctionOnSet, MapThenFoldSet, IsRunningSum, Picked

\* Something is taken out.
LEMMA PickedIsMember == ASSUME NEW s, s # {} PROVE Picked(s) \in s
BY DEF Picked

\* The equation determines the partial sums ...
LEMMA RunningSumUnique ==
    ASSUME NEW f, NEW T, IsFiniteSet(T), NEW D, NEW g, NEW h, SUBSET T \subseteq D,
           IsRunningSum(g, f, D), IsRunningSum(h, f, SUBSET T)
    PROVE  \A u \in SUBSET T : g[u] = h[u]
<1>. DEFINE Bad == {u \in SUBSET T : g[u] # h[u]}
<1>. SUFFICES ASSUME Bad # {} PROVE FALSE
  OBVIOUS
<1>1. PICK m \in Bad : \A u \in Bad : u \subseteq m => u = m
  <2>1. Bad \subseteq SUBSET T
    OBVIOUS
  <2>. HIDE DEF Bad
  <2>. QED
    BY <2>1, SetMin
<1>g. g[m] = IF m = {} THEN 0 ELSE f[Picked(m)] + g[m \ {Picked(m)}]
  BY DEF IsRunningSum
<1>h. h[m] = IF m = {} THEN 0 ELSE f[Picked(m)] + h[m \ {Picked(m)}]
  BY DEF IsRunningSum
<1>2. m # {}
  BY <1>g, <1>h
<1>3. Picked(m) \in m
  BY <1>2, PickedIsMember
<1>4. g[m \ {Picked(m)}] = h[m \ {Picked(m)}]
  BY <1>1, <1>3
<1>. QED
  BY <1>1, <1>2, <1>4, <1>g, <1>h

\* ... and has a solution, so that the recursive definition has a meaning.
LEMMA RunningSumExists ==
    ASSUME NEW f, NEW S, IsFiniteSet(S)
    PROVE  \E g : IsRunningSum(g, f, SUBSET S)
<1>. DEFINE Good(T) == \E g : IsRunningSum(g, f, SUBSET T)
           Bad == {T \in SUBSET S : ~Good(T)}
<1>. SUFFICES ASSUME Bad # {} PROVE FALSE
  <2>1. S \in SUBSET S
    OBVIOUS
  <2>. QED
    BY <2>1
<1>1. PICK m \in Bad : \A u \in Bad : u \subseteq m => u = m
  <2>1. Bad \subseteq SUBSET S
    OBVIOUS
  <2>. HIDE DEF Bad
  <2>. QED
    BY <2>1, SetMin
<1>. DEFINE G(u) == CHOOSE g : IsRunningSum(g, f, SUBSET u)
           rest(u) == u \ {Picked(u)}
           h == [u \in SUBSET m |-> IF u = {} THEN 0 ELSE f[Picked(u)] + G(rest(u))[rest(u)]]
<1>2. ASSUME NEW u \in SUBSET m, u # m PROVE IsRunningSum(G(u), f, SUBSET u)
  <2>1. Good(u)
    <3>. HIDE DEF Good
    <3>. QED
      BY <1>1, <1>2
  <2>. QED
    BY <2>1
<1>3. ASSUME NEW u \in SUBSET m, u # m PROVE h[u] = G(u)[u]
  <2>1. IsRunningSum(G(u), f, SUBSET u)
    BY <1>2, <1>3
  <2>2. G(u)[u] = IF u = {} THEN 0 ELSE f[Picked(u)] + G(u)[rest(u)]
    <3>. HIDE DEF G
    <3>. QED
      BY <2>1 DEF IsRunningSum
  <2>3. CASE u = {}
    <3>. HIDE DEF G
    <3>. QED
      BY <2>2, <2>3
  <2>4. CASE u # {}
    <3>1. Picked(u) \in u
      BY <2>4, PickedIsMember
    <3>2. rest(u) \in SUBSET m /\ rest(u) # m
      BY <3>1
    <3>3. IsRunningSum(G(rest(u)), f, SUBSET rest(u))
      <4>. HIDE DEF G, rest
      <4>. QED
        BY <3>2, <1>2
    <3>4. IsFiniteSet(rest(u))
      BY FS_Subset
    <3>5. G(u)[rest(u)] = G(rest(u))[rest(u)]
      <4>1. SUBSET rest(u) \subseteq SUBSET u /\ rest(u) \in SUBSET rest(u)
        OBVIOUS
      <4>. HIDE DEF G, rest
      <4>. QED
        BY <2>1, <3>3, <3>4, <4>1, RunningSumUnique
    <3>. HIDE DEF G, rest
    <3>. QED
      BY <2>2, <2>4, <3>5
  <2>. QED
    BY <2>3, <2>4
<1>4. IsRunningSum(h, f, SUBSET m)
  <2>1. ASSUME NEW u \in SUBSET m, u # {} PROVE G(rest(u))[rest(u)] = h[rest(u)]
    <3>1. Picked(u) \in u
      BY <2>1, PickedIsMember
    <3>2. rest(u) \in SUBSET m /\ rest(u) # m
      BY <3>1
    <3>. HIDE DEF G, rest, h
    <3>. QED
      BY <3>2, <1>3
  <2>2. h = [u \in SUBSET m |-> IF u = {} THEN 0 ELSE f[Picked(u)] + h[u \ {Picked(u)}]]
    <3>. DEFINE k == [u \in SUBSET m |-> IF u = {} THEN 0 ELSE f[Picked(u)] + h[u \ {Picked(u)}]]
    <3>1. \A u \in SUBSET m : h[u] = k[u]
      <4>. SUFFICES ASSUME NEW u \in SUBSET m PROVE h[u] = k[u]
        OBVIOUS
      <4>. DEFINE a == G(rest(u))[rest(u)]
                 b == h[u \ {Picked(u)}]
      <4>1. h[u] = IF u = {} THEN 0 ELSE f[Picked(u)] + a
        OBVIOUS
      <4>2. k[u] = IF u = {} THEN 0 ELSE f[Picked(u)] + b
        <5>. HIDE DEF h
        <5>. QED OBVIOUS
      <4>3. u # {} => a = b
        BY <2>1
      <4>. HIDE DEF h, k, a, b
      <4>. QED
        BY <4>1, <4>2, <4>3
    <3>2. h \in [SUBSET m -> {h[u] : u \in SUBSET m}] /\ k \in [SUBSET m -> {k[u] : u \in SUBSET m}]
      <4>. HIDE DEF G, rest
      <4>. QED OBVIOUS
    <3>3. DOMAIN h = SUBSET m /\ DOMAIN k = SUBSET m /\ h = [u \in DOMAIN h |-> h[u]] /\ k = [u \in DOMAIN k |-> k[u]]
      OBVIOUS
    <3>. HIDE DEF h, k
    <3>4. h = k
      BY <3>1, <3>3
    <3>. QED
      BY <3>4 DEF k
  <2>. HIDE DEF h
  <2>. QED
    BY <2>2 DEF IsRunningSum
<1>5. Good(m)
  BY <1>4
<1>. HIDE DEF Good
<1>. QED
  BY <1>5

\* The recursion in the definition of sums.
LEMMA SumChosen ==
    ASSUME NEW f, NEW S, IsFiniteSet(S)
    PROVE  SumFunctionOnSet(f, S) =
             IF S = {} THEN 0 ELSE f[Picked(S)] + SumFunctionOnSet(f, S \ {Picked(S)})
<1>. DEFINE G(u) == CHOOSE g : IsRunningSum(g, f, SUBSET u)
           rest == S \ {Picked(S)}
<1>1. IsFiniteSet(rest) /\ SUBSET rest \subseteq SUBSET S /\ rest \in SUBSET S /\ S \in SUBSET S /\ rest \in SUBSET rest
  BY FS_Subset
<1>2. IsRunningSum(G(S), f, SUBSET S)
  BY RunningSumExists
<1>3. IsRunningSum(G(rest), f, SUBSET rest)
  <2>. HIDE DEF rest
  <2>. QED
    BY <1>1, RunningSumExists
<1>4. SumFunctionOnSet(f, S) = G(S)[S]
  BY SumIsRunningSum
<1>5. SumFunctionOnSet(f, rest) = G(rest)[rest]
  <2>. HIDE DEF rest
  <2>. QED
    BY SumIsRunningSum
<1>. HIDE DEF G
<1>6. G(S)[S] = IF S = {} THEN 0 ELSE f[Picked(S)] + G(S)[rest]
  BY <1>1, <1>2 DEF IsRunningSum
<1>7. G(S)[rest] = G(rest)[rest]
  <2>. HIDE DEF rest
  <2>. QED
    BY <1>1, <1>2, <1>3, RunningSumUnique
<1>. HIDE DEF rest
<1>8. SumFunctionOnSet(f, S) = IF S = {} THEN 0 ELSE f[Picked(S)] + SumFunctionOnSet(f, rest)
  BY <1>4, <1>5, <1>6, <1>7
<1>. QED
  BY <1>8 DEF rest

\* A sum over nothing.
LEMMA SumEmpty == ASSUME NEW f PROVE SumFunctionOnSet(f, {}) = 0
<1>. DEFINE none == {}
<1>1. IsFiniteSet(none) /\ none = {}
  BY FS_EmptySet
<1>. HIDE DEF none
<1>2. SumFunctionOnSet(f, none) = 0
  BY <1>1, SumChosen
<1>. QED
  BY <1>1, <1>2

\* Sums of integers.
LEMMA SumIsInt ==
    ASSUME NEW f, NEW S, IsFiniteSet(S), \A x \in S : f[x] \in Int
    PROVE  SumFunctionOnSet(f, S) \in Int
<1>. DEFINE Bad == {u \in SUBSET S : SumFunctionOnSet(f, u) \notin Int}
<1>. SUFFICES ASSUME Bad # {} PROVE FALSE
  OBVIOUS
<1>1. PICK m \in Bad : \A u \in Bad : u \subseteq m => u = m
  <2>1. Bad \subseteq SUBSET S
    OBVIOUS
  <2>. HIDE DEF Bad
  <2>. QED
    BY <2>1, SetMin
<1>2. IsFiniteSet(m)
  BY FS_Subset
<1>. DEFINE rest == m \ {Picked(m)}
<1>3. SumFunctionOnSet(f, m) = IF m = {} THEN 0 ELSE f[Picked(m)] + SumFunctionOnSet(f, rest)
  BY <1>2, SumChosen
<1>4. CASE m = {}
  BY <1>3, <1>4
<1>5. CASE m # {}
  <2>1. Picked(m) \in m
    BY <1>5, PickedIsMember
  <2>2. rest \subseteq m /\ rest # m /\ rest \in SUBSET S
    BY <2>1
  <2>3. f[Picked(m)] \in Int
    BY <2>1
  <2>. HIDE DEF rest
  <2>4. SumFunctionOnSet(f, rest) \in Int
    BY <1>1, <2>2
  <2>. QED
    BY <1>3, <1>5, <2>3, <2>4
<1>. QED
  BY <1>4, <1>5

\* The order does not matter: any element can be taken out first.
LEMMA SumTakeOut ==
    ASSUME NEW f, NEW S, IsFiniteSet(S), \A x \in S : f[x] \in Int, NEW e \in S
    PROVE  SumFunctionOnSet(f, S) = f[e] + SumFunctionOnSet(f, S \ {e})
<1>. DEFINE Sum(u) == SumFunctionOnSet(f, u)
           Bad == {u \in SUBSET S : \E x \in u : Sum(u) # f[x] + Sum(u \ {x})}
<1>. SUFFICES ASSUME Bad # {} PROVE FALSE
  <2>1. S \in SUBSET S
    OBVIOUS
  <2>. HIDE DEF Sum
  <2>2. Bad = {} => Sum(S) = f[e] + Sum(S \ {e})
    BY <2>1
  <2>. QED
    BY <2>2 DEF Sum
<1>1. PICK m \in Bad : \A u \in Bad : u \subseteq m => u = m
  <2>1. Bad \subseteq SUBSET S
    OBVIOUS
  <2>. HIDE DEF Bad
  <2>. QED
    BY <2>1, SetMin
<1>2. \A u \in SUBSET S : IsFiniteSet(u) /\ Sum(u) \in Int
  <2>. SUFFICES ASSUME NEW u \in SUBSET S PROVE IsFiniteSet(u) /\ Sum(u) \in Int
    OBVIOUS
  <2>1. IsFiniteSet(u)
    BY FS_Subset
  <2>. QED
    BY <2>1, SumIsInt
<1>3. \A u \in SUBSET S : u # {} => Sum(u) = f[Picked(u)] + Sum(u \ {Picked(u)})
  <2>. SUFFICES ASSUME NEW u \in SUBSET S, u # {} PROVE Sum(u) = f[Picked(u)] + Sum(u \ {Picked(u)})
    BY Zenon
  <2>. QED
    BY <1>2, SumChosen
<1>. HIDE DEF Sum
<1>4. PICK x \in m : Sum(m) # f[x] + Sum(m \ {x})
  BY <1>1
<1>. DEFINE z == Picked(m)
<1>5. z \in m
  BY <1>4, PickedIsMember
<1>6. Sum(m) = f[z] + Sum(m \ {z})
  BY <1>3, <1>4
<1>. HIDE DEF z
<1>7. x # z
  BY <1>4, <1>6
<1>8. Sum(m \ {z}) = f[x] + Sum((m \ {z}) \ {x})
  <2>. DEFINE u == m \ {z}
  <2>1. u \in SUBSET S /\ u \subseteq m /\ u # m /\ x \in u
    BY <1>5, <1>7
  <2>. HIDE DEF u
  <2>2. Sum(u) = f[x] + Sum(u \ {x})
    BY <1>1, <2>1
  <2>. QED
    BY <2>2 DEF u
<1>9. Sum(m \ {x}) = f[z] + Sum((m \ {x}) \ {z})
  <2>. DEFINE u == m \ {x}
  <2>1. u \in SUBSET S /\ u \subseteq m /\ u # m /\ z \in u
    BY <1>5, <1>7
  <2>. HIDE DEF u
  <2>2. Sum(u) = f[z] + Sum(u \ {z})
    BY <1>1, <2>1
  <2>. QED
    BY <2>2 DEF u
<1>10. (m \ {x}) \ {z} = (m \ {z}) \ {x}
  OBVIOUS
<1>11. f[x] \in Int /\ f[z] \in Int /\ Sum((m \ {z}) \ {x}) \in Int
  BY <1>2, <1>5
<1>. DEFINE A == Sum(m \ {z})
           B == Sum(m \ {x})
           C == Sum((m \ {z}) \ {x})
<1>12. B = f[z] + C
  BY <1>9, <1>10, Zenon
<1>13. A = f[x] + C /\ Sum(m) = f[z] + A /\ Sum(m) # f[x] + B /\ C \in Int
  BY <1>4, <1>6, <1>8, <1>11, Zenon
<1>. HIDE DEF A, B, C
<1>. QED
  BY <1>11, <1>12, <1>13

\* Sums of naturals are natural and no less than any of their terms.
LEMMA SumIsNat ==
    ASSUME NEW f, NEW S, IsFiniteSet(S), \A x \in S : f[x] \in Nat
    PROVE  /\ SumFunctionOnSet(f, S) \in Nat
           /\ \A x \in S : f[x] <= SumFunctionOnSet(f, S)
<1>. DEFINE Sum(u) == SumFunctionOnSet(f, u)
           Bad == {u \in SUBSET S : Sum(u) \notin Nat}
<1>1. \A u \in SUBSET S : IsFiniteSet(u)
  BY FS_Subset
<1>2. \A u \in SUBSET S : \A x \in u : Sum(u) = f[x] + Sum(u \ {x})
  <2>. SUFFICES ASSUME NEW u \in SUBSET S, NEW x \in u PROVE Sum(u) = f[x] + Sum(u \ {x})
    BY Zenon
  <2>. QED
    BY <1>1, SumTakeOut
<1>3. \A u : u = {} => Sum(u) = 0
  BY SumEmpty
<1>. HIDE DEF Sum
<1>4. Bad = {}
  <2>. SUFFICES ASSUME Bad # {} PROVE FALSE
    OBVIOUS
  <2>1. PICK m \in Bad : \A u \in Bad : u \subseteq m => u = m
    <3>1. Bad \subseteq SUBSET S
      OBVIOUS
    <3>. HIDE DEF Bad
    <3>. QED
      BY <3>1, SetMin
  <2>2. PICK x \in m : TRUE
    BY <1>3, <2>1
  <2>3. Sum(m) = f[x] + Sum(m \ {x})
    BY <1>2
  <2>4. Sum(m \ {x}) \in Nat
    <3>. DEFINE u == m \ {x}
    <3>1. u \in SUBSET S /\ u \subseteq m /\ u # m
      OBVIOUS
    <3>. HIDE DEF u
    <3>2. Sum(u) \in Nat
      BY <2>1, <3>1
    <3>. QED
      BY <3>2 DEF u
  <2>5. f[x] \in Nat
    OBVIOUS
  <2>. QED
    BY <2>1, <2>3, <2>4, <2>5
<1>5. Sum(S) \in Nat
  BY <1>4
<1>6. ASSUME NEW x \in S PROVE f[x] <= Sum(S)
  <2>1. Sum(S \ {x}) \in Nat /\ S \in SUBSET S
    BY <1>4
  <2>2. Sum(S) = f[x] + Sum(S \ {x})
    BY <1>2, <2>1
  <2>. QED
    BY <1>5, <2>1, <2>2
<1>. QED
  BY <1>5, <1>6 DEF Sum

\* The sum of sums.
LEMMA SumAdds ==
    ASSUME NEW f, NEW g, NEW h, NEW S, IsFiniteSet(S),
           \A x \in S : f[x] \in Int /\ g[x] \in Int /\ h[x] = f[x] + g[x]
    PROVE  SumFunctionOnSet(h, S) = SumFunctionOnSet(f, S) + SumFunctionOnSet(g, S)
<1>. DEFINE F(u) == SumFunctionOnSet(f, u)
           G(u) == SumFunctionOnSet(g, u)
           H(u) == SumFunctionOnSet(h, u)
           Bad == {u \in SUBSET S : H(u) # F(u) + G(u)}
<1>1. \A u \in SUBSET S : IsFiniteSet(u)
  BY FS_Subset
<1>2. \A u \in SUBSET S : \A x \in u : /\ F(u) = f[x] + F(u \ {x})
                                       /\ G(u) = g[x] + G(u \ {x})
                                       /\ H(u) = h[x] + H(u \ {x})
  <2>. SUFFICES ASSUME NEW u \in SUBSET S, NEW x \in u
               PROVE  /\ F(u) = f[x] + F(u \ {x})
                      /\ G(u) = g[x] + G(u \ {x})
                      /\ H(u) = h[x] + H(u \ {x})
    BY Zenon
  <2>. QED
    BY <1>1, SumTakeOut
<1>3. \A u \in SUBSET S : F(u) \in Int /\ G(u) \in Int
  <2>. SUFFICES ASSUME NEW u \in SUBSET S PROVE F(u) \in Int /\ G(u) \in Int
    BY Zenon
  <2>. QED
    BY <1>1, SumIsInt
<1>4. \A u : u = {} => F(u) = 0 /\ G(u) = 0 /\ H(u) = 0
  BY SumEmpty
<1>. SUFFICES ASSUME Bad # {} PROVE FALSE
  <2>1. S \in SUBSET S
    OBVIOUS
  <2>. HIDE DEF F, G, H
  <2>2. Bad = {} => H(S) = F(S) + G(S)
    BY <2>1
  <2>. QED
    BY <2>2 DEF F, G, H
<1>. HIDE DEF F, G, H
<1>5. PICK m \in Bad : \A u \in Bad : u \subseteq m => u = m
  <2>1. Bad \subseteq SUBSET S
    OBVIOUS
  <2>. HIDE DEF Bad
  <2>. QED
    BY <2>1, SetMin
<1>6. PICK x \in m : TRUE
  BY <1>4, <1>5
<1>. DEFINE u == m \ {x}
<1>7. u \in SUBSET S /\ u \subseteq m /\ u # m
  OBVIOUS
<1>8. F(m) = f[x] + F(u) /\ G(m) = g[x] + G(u) /\ H(m) = h[x] + H(u)
  BY <1>2, Zenon
<1>. HIDE DEF u
<1>9. H(u) = F(u) + G(u)
  BY <1>5, <1>7
<1>10. F(u) \in Int /\ G(u) \in Int
  BY <1>3, <1>7
<1>11. f[x] \in Int /\ g[x] \in Int /\ h[x] = f[x] + g[x]
  OBVIOUS
<1>12. H(m) # F(m) + G(m)
  OBVIOUS
<1>. QED
  BY <1>8, <1>9, <1>10, <1>11, <1>12

\* A sum of zeros.
LEMMA SumOfZeros ==
    ASSUME NEW f, NEW S, IsFiniteSet(S), \A x \in S : f[x] = 0
    PROVE  SumFunctionOnSet(f, S) = 0
<1>1. SumFunctionOnSet(f, S) = SumFunctionOnSet(f, S) + SumFunctionOnSet(f, S)
  BY SumAdds
<1>2. SumFunctionOnSet(f, S) \in Int
  BY SumIsInt
<1>. DEFINE t == SumFunctionOnSet(f, S)
<1>3. t = t + t /\ t \in Int
  BY <1>1, <1>2, Zenon
<1>. HIDE DEF t
<1>4. t = 0
  BY <1>3
<1>. QED
  BY <1>4 DEF t

\* Larger terms have a larger sum.
LEMMA SumGrows ==
    ASSUME NEW f, NEW g, NEW S, IsFiniteSet(S),
           \A x \in S : f[x] \in Int /\ g[x] \in Int /\ f[x] <= g[x]
    PROVE  SumFunctionOnSet(f, S) <= SumFunctionOnSet(g, S)
<1>. DEFINE d == [x \in S |-> g[x] - f[x]]
<1>1. \A x \in S : d[x] \in Nat /\ g[x] = f[x] + d[x]
  OBVIOUS
<1>. HIDE DEF d
<1>2. SumFunctionOnSet(g, S) = SumFunctionOnSet(f, S) + SumFunctionOnSet(d, S)
  BY <1>1, SumAdds
<1>3. SumFunctionOnSet(d, S) \in Nat
  BY <1>1, SumIsNat
<1>4. SumFunctionOnSet(f, S) \in Int
  BY SumIsInt
<1>. QED
  BY <1>2, <1>3, <1>4

\* Only the terms in the set matter.
LEMMA SumOfEqual ==
    ASSUME NEW f, NEW g, NEW S, IsFiniteSet(S), \A x \in S : f[x] \in Int /\ g[x] = f[x]
    PROVE  SumFunctionOnSet(f, S) = SumFunctionOnSet(g, S)
<1>1. SumFunctionOnSet(f, S) <= SumFunctionOnSet(g, S)
  BY SumGrows
<1>2. SumFunctionOnSet(g, S) <= SumFunctionOnSet(f, S)
  BY SumGrows
<1>3. SumFunctionOnSet(f, S) \in Int /\ SumFunctionOnSet(g, S) \in Int
  BY SumIsInt
<1>. QED
  BY <1>1, <1>2, <1>3

\* Changing one term.
LEMMA SumWithChange ==
    ASSUME NEW f, NEW g, NEW S, IsFiniteSet(S), NEW e \in S,
           \A x \in S : f[x] \in Int /\ g[x] \in Int /\ (x # e => g[x] = f[x])
    PROVE  SumFunctionOnSet(g, S) = SumFunctionOnSet(f, S) - f[e] + g[e]
<1>. DEFINE rest == S \ {e}
<1>1. IsFiniteSet(rest) /\ \A x \in rest : f[x] \in Int /\ g[x] = f[x]
  BY FS_RemoveElement
<1>2. SumFunctionOnSet(f, S) = f[e] + SumFunctionOnSet(f, rest)
  BY SumTakeOut
<1>3. SumFunctionOnSet(g, S) = g[e] + SumFunctionOnSet(g, rest)
  BY SumTakeOut
<1>. HIDE DEF rest
<1>4. SumFunctionOnSet(g, rest) = SumFunctionOnSet(f, rest)
  BY <1>1, SumOfEqual
<1>5. SumFunctionOnSet(f, rest) \in Int
  BY <1>1, SumIsInt
<1>. QED
  BY <1>2, <1>3, <1>4, <1>5

\* The sum over a part and over the rest.
LEMMA SumSplits ==
    ASSUME NEW f, NEW S, IsFiniteSet(S), \A x \in S : f[x] \in Int, NEW T, T \subseteq S
    PROVE  SumFunctionOnSet(f, S) = SumFunctionOnSet(f, T) + SumFunctionOnSet(f, S \ T)
<1>. DEFINE Sum(u) == SumFunctionOnSet(f, u)
           Worse == {u \in SUBSET T : Sum(S) # Sum(u) + Sum(S \ u)}
<1>1. \A u \in SUBSET S : IsFiniteSet(u)
  BY FS_Subset
<1>2. \A u \in SUBSET S : \A x \in u : Sum(u) = f[x] + Sum(u \ {x})
  <2>. SUFFICES ASSUME NEW u \in SUBSET S, NEW x \in u PROVE Sum(u) = f[x] + Sum(u \ {x})
    BY Zenon
  <2>. QED
    BY <1>1, SumTakeOut
<1>3. \A u \in SUBSET S : Sum(u) \in Int
  <2>. SUFFICES ASSUME NEW u \in SUBSET S PROVE Sum(u) \in Int
    BY Zenon
  <2>. QED
    BY <1>1, SumIsInt
<1>4. \A u : u = {} => Sum(u) = 0
  BY SumEmpty
<1>. SUFFICES ASSUME Worse # {} PROVE FALSE
  <2>1. T \in SUBSET T
    OBVIOUS
  <2>. HIDE DEF Sum
  <2>2. Worse = {} => Sum(S) = Sum(T) + Sum(S \ T)
    BY <2>1
  <2>. QED
    BY <2>2 DEF Sum
<1>. HIDE DEF Sum
<1>5. PICK m \in Worse : \A u \in Worse : u \subseteq m => u = m
  <2>1. Worse \subseteq SUBSET T /\ IsFiniteSet(T)
    BY <1>1
  <2>. HIDE DEF Worse
  <2>. QED
    BY <2>1, SetMin
<1>6. PICK x \in m : TRUE
  <2>. SUFFICES ASSUME m = {} PROVE FALSE
    OBVIOUS
  <2>. DEFINE w == S \ m
  <2>1. w = S /\ Sum(m) = 0 /\ Sum(S) \in Int
    BY <1>3, <1>4
  <2>2. Sum(S) # Sum(m) + Sum(w)
    BY <1>5
  <2>. HIDE DEF w
  <2>. QED
    BY <2>1, <2>2
<1>. DEFINE u == m \ {x}
           v == S \ u
           w == S \ m
<1>7. /\ u \in SUBSET T /\ u \in SUBSET S /\ u \subseteq m /\ u # m
      /\ v \in SUBSET S /\ x \in v /\ v \ {x} = w /\ w \in SUBSET S /\ m \in SUBSET S
  OBVIOUS
<1>8. Sum(S) # Sum(m) + Sum(w)
  BY <1>5
<1>9. Sum(m) = f[x] + Sum(u)
  BY <1>2, <1>7
<1>10. Sum(S) = Sum(u) + Sum(v)
  <2>1. u \notin Worse
    BY <1>5, <1>7
  <2>. QED
    BY <2>1, <1>7
<1>. HIDE DEF u, v, w
<1>11. Sum(v) = f[x] + Sum(w)
  BY <1>2, <1>7
<1>12. Sum(u) \in Int /\ Sum(w) \in Int /\ f[x] \in Int
  BY <1>3, <1>7
<1>. QED
  BY <1>8, <1>9, <1>10, <1>11, <1>12

=============================================================================
