-------------------------- MODULE MaintainerProofs --------------------------
(***************************************************************************)
(* The program that maintainers run: its snapshot client, the arithmetic   *)
(* by which it balances the pool, rounds of maintenance on fresh snapshots,*)
(* and the daemons of several maintainers.  For any history of the chain,  *)
(* any limits of the RPC nodes, any number of validators and maintainers,  *)
(* any amounts, and any order in which transactions are executed or lost.  *)
(***************************************************************************)
EXTENDS SnapshotClient, Rebalance, Daemon, DataLemmas, FiniteSetTheorems,
        SequenceTheorems, TLAPS

-----------------------------------------------------------------------------
(* Ordered sets *)

\* Two sequences of different elements, of which the second has none of the first.
LEMMA ConcatOrdered ==
    ASSUME NEW E, NEW s \in Seq(E), NEW t \in Seq(E), IsOrderedSet(s), IsOrderedSet(t),
           RangeOf(s) \cap RangeOf(t) = {}
    PROVE  s \o t \in Seq(E) /\ IsOrderedSet(s \o t)
<1>. DEFINE u == s \o t
<1>1. /\ u \in Seq(E)
      /\ Len(s) \in Nat /\ Len(t) \in Nat
      /\ DOMAIN s = 1..Len(s) /\ DOMAIN t = 1..Len(t) /\ DOMAIN u = 1..(Len(s) + Len(t))
      /\ \A i \in 1..Len(s) : u[i] = s[i]
      /\ \A i \in (Len(s) + 1)..(Len(s) + Len(t)) : u[i] = t[i - Len(s)]
  OBVIOUS
<1>. HIDE DEF u
<1>2. \A i \in DOMAIN s, j \in DOMAIN t : s[i] # t[j]
  BY DEF RangeOf
<1>3. ASSUME NEW i \in DOMAIN u, NEW j \in DOMAIN u, u[i] = u[j]
      PROVE  i = j
  <2>1. CASE i <= Len(s) /\ j <= Len(s)
    BY <1>1, <1>3, <2>1 DEF IsOrderedSet
  <2>2. CASE i <= Len(s) /\ j > Len(s)
    <3>1. i \in DOMAIN s /\ j - Len(s) \in DOMAIN t /\ u[i] = s[i] /\ u[j] = t[j - Len(s)]
      BY <1>1, <2>2
    <3>. QED
      BY <1>2, <1>3, <3>1
  <2>3. CASE i > Len(s) /\ j <= Len(s)
    <3>1. j \in DOMAIN s /\ i - Len(s) \in DOMAIN t /\ u[j] = s[j] /\ u[i] = t[i - Len(s)]
      BY <1>1, <2>3, SMTT(30)
    <3>. QED
      BY <1>2, <1>3, <3>1
  <2>4. CASE i > Len(s) /\ j > Len(s)
    <3>1. /\ i - Len(s) \in DOMAIN t /\ j - Len(s) \in DOMAIN t
          /\ u[i] = t[i - Len(s)] /\ u[j] = t[j - Len(s)]
      BY <1>1, <2>4, SMTT(30)
    <3>2. i - Len(s) = j - Len(s)
      BY <1>3, <3>1 DEF IsOrderedSet
    <3>. QED
      BY <1>1, <3>2
  <2>. QED
    BY <1>1, <2>1, <2>2, <2>3, <2>4
<1>. QED
  BY <1>1, <1>3 DEF IsOrderedSet, u

\* `union_with` makes an ordered set of two.
LEMMA UnionWithOrdered ==
    ASSUME NEW E, NEW s \in Seq(E), NEW t \in Seq(E), IsOrderedSet(s), IsOrderedSet(t)
    PROVE  UnionWith(s, t) \in Seq(E) /\ IsOrderedSet(UnionWith(s, t))
<1>. DEFINE new == {j \in DOMAIN t : t[j] \notin RangeOf(s)}
            n == Cardinality(new)
            w == [i \in 1..n |-> t[Nth(new, i)]]
<1>1. Len(t) \in Nat /\ DOMAIN t = 1..Len(t) /\ new \in SUBSET (1..Len(t))
  OBVIOUS
<1>2. n \in Nat /\ \A i \in 1..n : Nth(new, i) \in new
                                 /\ Cardinality({k \in new : k <= Nth(new, i)}) = i
  BY <1>1, NthOfPositions
<1>3. \A i, j \in 1..n : Nth(new, i) = Nth(new, j) => i = j
  BY <1>2
<1>4. \A i \in 1..n : Nth(new, i) \in DOMAIN t /\ t[Nth(new, i)] \notin RangeOf(s)
  BY <1>2
<1>5. UnionWith(s, t) = s \o w
  BY DEF UnionWith, ElementsAt
<1>. HIDE DEF new, n
<1>6. w \in Seq(E) /\ DOMAIN w = 1..n
  BY <1>2, <1>4
<1>7. \A i \in 1..n : w[i] = t[Nth(new, i)]
  OBVIOUS
<1>. HIDE DEF w
<1>8. IsOrderedSet(w)
  BY <1>3, <1>4, <1>6, <1>7 DEF IsOrderedSet
<1>9. RangeOf(s) \cap RangeOf(w) = {}
  BY <1>4, <1>6, <1>7 DEF RangeOf
<1>. QED
  BY <1>5, <1>6, <1>8, <1>9, ConcatOrdered

\* An ordered set has no more elements than there are.
LEMMA OrderedSetFits ==
    ASSUME NEW E, IsFiniteSet(E), NEW s \in Seq(E), IsOrderedSet(s)
    PROVE  Len(s) <= Cardinality(E)
<1>1. Len(s) \in Nat /\ DOMAIN s = 1..Len(s) /\ s \in [1..Len(s) -> E]
  OBVIOUS
<1>2. s \in Injection(1..Len(s), E)
  BY <1>1 DEF Injection, IsInjective, IsOrderedSet
<1>3. Cardinality(1..Len(s)) <= Cardinality(E)
  BY <1>2, FS_Injection
<1>4. Cardinality(1..Len(s)) = IF 1 > Len(s) THEN 0 ELSE Len(s) - 1 + 1
  BY <1>1, FS_Interval
<1>. QED
  BY <1>1, <1>3, <1>4

\* The elements of two sequences in a row.
LEMMA ConcatRange ==
    ASSUME NEW E, NEW s \in Seq(E), NEW t \in Seq(E)
    PROVE  RangeOf(s \o t) \subseteq RangeOf(s) \cup RangeOf(t)
<1>. SUFFICES ASSUME NEW i \in DOMAIN (s \o t)
              PROVE  (s \o t)[i] \in RangeOf(s) \cup RangeOf(t)
  BY DEF RangeOf
<1>1. Len(s) \in Nat /\ Len(t) \in Nat /\ i \in 1..(Len(s) + Len(t))
  OBVIOUS
<1>2. CASE i <= Len(s)
  <2>1. i \in DOMAIN s /\ (s \o t)[i] = s[i]
    BY <1>1, <1>2
  <2>. QED
    BY <2>1 DEF RangeOf
<1>3. CASE i > Len(s)
  <2>1. i - Len(s) \in DOMAIN t /\ (s \o t)[i] = t[i - Len(s)]
    BY <1>1, <1>3
  <2>. QED
    BY <2>1 DEF RangeOf
<1>. QED
  BY <1>1, <1>2, <1>3

LEMMA SingletonOrdered ==
    ASSUME NEW E, NEW a \in E
    PROVE  <<a>> \in Seq(E) /\ IsOrderedSet(<<a>>) /\ RangeOf(<<a>>) = {a}
BY DEF IsOrderedSet, RangeOf

LEMMA EmptyOrdered ==
    ASSUME NEW E
    PROVE  <<>> \in Seq(E) /\ IsOrderedSet(<<>>) /\ RangeOf(<<>>) = {}
BY DEF IsOrderedSet, RangeOf

\* The first elements of an ordered set.
LEMMA PrefixOrdered ==
    ASSUME NEW E, NEW s \in Seq(E), IsOrderedSet(s), NEW i \in DOMAIN s
    PROVE  SubSeq(s, 1, i) \in Seq(E) /\ IsOrderedSet(SubSeq(s, 1, i))
<1>1. Len(s) \in Nat /\ i \in 1..Len(s) /\ DOMAIN s = 1..Len(s)
  OBVIOUS
<1>2. /\ SubSeq(s, 1, i) \in Seq(E)
      /\ DOMAIN SubSeq(s, 1, i) = 1..i
      /\ \A k \in 1..i : SubSeq(s, 1, i)[k] = s[k] /\ k \in 1..Len(s)
  BY <1>1
<1>. QED
  BY <1>1, <1>2 DEF IsOrderedSet

-----------------------------------------------------------------------------
(* What the reader references *)

LEMMA VersionsReadExist ==
    ASSUME result \in Seq(Versions), NEW a
    PROVE  VersionRead(a) \subseteq Versions
BY DEF VersionRead

LEMMA WantedOrdered ==
    ASSUME result \in Seq(Versions)
    PROVE  /\ Wanted \in Seq(Addresses) /\ IsOrderedSet(Wanted)
           /\ Infos \cap RangeOf(Wanted) = {}
<1>. DEFINE v == CHOOSE n \in VersionRead(Root) : TRUE
            refs == IF IsPresent(Root) THEN References[v] ELSE <<>>
<1>1. Root \in Addresses /\ Root \notin Infos
  BY SnapshotAssumption DEF Addresses
<1>2. /\ <<Root>> \in Seq(Addresses) /\ IsOrderedSet(<<Root>>) /\ RangeOf(<<Root>>) = {Root}
  BY <1>1, SingletonOrdered
<1>3. /\ refs \in Seq(Addresses) /\ IsOrderedSet(refs)
      /\ ({Root} \cup Infos) \cap RangeOf(refs) = {}
  <2>1. CASE IsPresent(Root)
    <3>1. v \in Versions
      BY <2>1, VersionsReadExist DEF IsPresent
    <3>2. References[v] \in Seq(Addresses)
      BY <3>1, SnapshotAssumption DEF Versions
    <3>. QED
      BY <2>1, <3>1, <3>2, SnapshotAssumption DEF IsOrderedSet
  <2>2. CASE ~IsPresent(Root)
    BY <2>2, EmptyOrdered
  <2>. QED
    BY <2>1, <2>2
<1>4. Wanted = <<Root>> \o refs
  BY DEF Wanted
<1>. HIDE DEF refs
<1>5. Wanted \in Seq(Addresses) /\ IsOrderedSet(Wanted)
  BY <1>2, <1>3, <1>4, ConcatOrdered
<1>6. RangeOf(Wanted) \subseteq RangeOf(<<Root>>) \cup RangeOf(refs)
  BY <1>2, <1>3, <1>4, ConcatRange
<1>. QED
  BY <1>1, <1>2, <1>3, <1>5, <1>6

LEMMA ReadingOrdered ==
    ASSUME result \in Seq(Versions), validator_info_addr \in Infos \cup {NoAddress}
    PROVE  Reading \in Seq(Addresses) /\ IsOrderedSet(Reading)
<1>1. /\ Wanted \in Seq(Addresses) /\ IsOrderedSet(Wanted)
      /\ Infos \cap RangeOf(Wanted) = {}
  BY WantedOrdered
<1>2. CASE validator_info_addr = NoAddress
  BY <1>1, <1>2 DEF Reading
<1>3. CASE validator_info_addr # NoAddress
  <2>. DEFINE a == validator_info_addr
  <2>1. a \in Infos /\ a \in Addresses
    BY <1>3 DEF Addresses
  <2>2. <<a>> \in Seq(Addresses) /\ IsOrderedSet(<<a>>) /\ RangeOf(<<a>>) = {a}
    BY <2>1, SingletonOrdered
  <2>3. RangeOf(Wanted) \cap RangeOf(<<a>>) = {}
    BY <1>1, <2>1, <2>2
  <2>4. Reading = Wanted \o <<a>>
    BY <1>1, <1>3, <2>1 DEF Reading, WantedWithInfo
  <2>. QED
    BY <1>1, <2>2, <2>3, <2>4, ConcatOrdered
<1>. QED
  BY <1>2, <1>3

-----------------------------------------------------------------------------
(* The inductive invariant *)

\* Some node accepts what the client believes to be the limit.
LimitIsPossible == \E limit \in RpcLimits : limit <= max_items_per_call

\* An attempt that is under way, or whose result is read: it never has more chunks than
\* accounts, it has several only if one would be too large, and while it has one, either
\* nothing is read yet or everything, in one call.
AttemptIsSound ==
    pc # "idle" =>
        /\ Len(result) <= Len(accounts_to_query)
        /\ pc = "read" => Len(result) = Len(accounts_to_query)
        /\ num_chunks <= Len(accounts_to_query) \/ num_chunks = 1
        /\ num_chunks > 1 => Len(accounts_to_query) > max_items_per_call
        /\ num_chunks = 1 => \/ result = <<>>
                             \/ Len(result) = Len(accounts_to_query) /\ ~IsTorn

SnapshotInv == ClientTypeOK /\ LimitIsPossible /\ AttemptIsSound

\* The size of the chunks when so many accounts are split into so many chunks.
LEMMA ChunkSize ==
    ASSUME NEW a \in Nat, NEW b \in Nat \ {0}
    PROVE  /\ a \div b \in Nat
           /\ a \div b <= a
           /\ b = 1 => a \div b = a
           /\ b <= a => a \div b >= 1
           /\ a \div b >= 2 => b + 1 <= a
<1>. DEFINE q == a \div b
<1>1. q \in Nat /\ q * b <= a /\ a < (q + 1) * b
  OBVIOUS
<1>2. b = 1 => q = a
  OBVIOUS
<1>. HIDE DEF q
<1>3. q <= q * b
  BY <1>1
<1>4. q <= a
  <2>1. q * b \in Nat
    BY <1>1
  <2>. QED
    BY <1>1, <1>3, <2>1
<1>5. b <= a => q >= 1
  <2>. SUFFICES ASSUME b <= a, q = 0
                PROVE  FALSE
    BY <1>1
  <2>1. (q + 1) * b = b
    OBVIOUS
  <2>. QED
    BY <1>1, <2>1
<1>6. q >= 2 => b + 1 <= a
  <2>. SUFFICES ASSUME q >= 2
                PROVE  b + 1 <= a
    OBVIOUS
  <2>1. 2 * b <= q * b
    BY <1>1
  <2>2. q * b \in Nat /\ 2 * b = b + b
    BY <1>1
  <2>. QED
    BY <1>1, <2>1, <2>2
<1>. QED
  BY <1>1, <1>2, <1>4, <1>5, <1>6 DEF q

\* A call that is about to be made.
LEMMA ChunkFacts ==
    ASSUME SnapshotInv, pc = "query", Len(result) < Len(accounts_to_query)
    PROVE  /\ Len(accounts_to_query) \in Nat /\ Len(result) \in Nat /\ num_chunks \in Nat
           /\ items_per_chunk \in Nat /\ items_per_chunk <= Len(accounts_to_query)
           /\ items_per_chunk >= 1
           /\ num_chunks = 1 => items_per_chunk = Len(accounts_to_query) /\ Len(result) = 0
           /\ items_per_chunk >= 2 => num_chunks + 1 <= Len(accounts_to_query)
           /\ chunk_len \in Nat /\ chunk_len >= 1 /\ chunk_len <= items_per_chunk
           /\ Len(result) + chunk_len <= Len(accounts_to_query)
           /\ items_per_chunk <= Len(accounts_to_query) - Len(result) => chunk_len = items_per_chunk
<1>. DEFINE L == Len(accounts_to_query)
            R == Len(result)
<1>1. L \in Nat /\ R \in Nat /\ num_chunks \in Nat \ {0} /\ R < L
  BY DEF SnapshotInv, ClientTypeOK
<1>2. num_chunks <= L
  BY <1>1 DEF SnapshotInv, AttemptIsSound
<1>3. num_chunks = 1 => R = 0
  BY <1>1 DEF SnapshotInv, AttemptIsSound
<1>4. /\ items_per_chunk \in Nat /\ items_per_chunk <= L /\ items_per_chunk >= 1
      /\ num_chunks = 1 => items_per_chunk = L
      /\ items_per_chunk >= 2 => num_chunks + 1 <= L
  BY <1>1, <1>2, ChunkSize DEF items_per_chunk
<1>5. chunk_len = IF items_per_chunk < L - R THEN items_per_chunk ELSE L - R
  BY DEF chunk_len, Smaller
<1>. QED
  BY <1>1, <1>3, <1>4, <1>5

\* A new attempt.
LEMMA StartQueryInv ==
    ASSUME SnapshotInv, StartQuery, chain' \in Versions,
           accounts_to_query' \in Seq(Addresses), IsOrderedSet(accounts_to_query)',
           validator_info_addr' \in Infos \cup {NoAddress},
           outcome' \in {"none", "ok", "error"}, UNCHANGED <<max_items_per_call, errors>>
    PROVE  SnapshotInv'
<1>1. result' = <<>> /\ num_chunks' = 1 /\ pc' = "query"
  BY DEF StartQuery
<1>2. Cardinality(Addresses) \in Nat
  BY SnapshotAssumption, FS_CardinalityType
<1>3. Len(accounts_to_query') \in Nat /\ Len(result') = 0 /\ result' \in Seq(Versions)
  BY <1>1
<1>4. ClientTypeOK'
  BY <1>1, <1>2, <1>3 DEF SnapshotInv, ClientTypeOK
<1>5. AttemptIsSound'
  BY <1>1, <1>3 DEF AttemptIsSound
<1>. QED
  BY <1>4, <1>5 DEF SnapshotInv, LimitIsPossible

\* The end of a call of with_snapshot.
LEMMA IdleInv ==
    ASSUME SnapshotInv, pc' = "idle", outcome' \in {"none", "ok", "error"},
           accounts_to_query' \in Seq(Addresses), IsOrderedSet(accounts_to_query)',
           validator_info_addr' \in Infos \cup {NoAddress},
           errors' \in 0..MaxErrors, UNCHANGED <<chain, max_items_per_call, num_chunks, result>>
    PROVE  SnapshotInv'
BY DEF SnapshotInv, ClientTypeOK, LimitIsPossible, AttemptIsSound

LEMMA InitSnapshot == ClientInit => SnapshotInv
<1>. SUFFICES ASSUME ClientInit
              PROVE  SnapshotInv
  OBVIOUS
<1>1. Cardinality(Addresses) \in Nat
  BY SnapshotAssumption, FS_CardinalityType
<1>2. 1 \in Versions
  BY SnapshotAssumption DEF Versions
<1>3. PICK limit \in RpcLimits : limit \in 1..UsizeMax
  BY SnapshotAssumption
<1>4. UsizeMax \in 1..UsizeMax /\ limit <= UsizeMax
  BY <1>3, SnapshotAssumption
<1>5. <<>> \in Seq(Addresses) /\ IsOrderedSet(<<>>) /\ <<>> \in Seq(Versions) /\ Len(<<>>) = 0
  BY EmptyOrdered
<1>6. ClientTypeOK
  BY <1>1, <1>2, <1>4, <1>5, SnapshotAssumption DEF ClientInit, ClientTypeOK
<1>. QED
  BY <1>4, <1>6 DEF ClientInit, SnapshotInv, LimitIsPossible, AttemptIsSound

LEMMA NextMoreChunks ==
    ASSUME SnapshotInv, MoreChunks
    PROVE  SnapshotInv'
<1>1. /\ pc = "query" /\ Len(result) < Len(accounts_to_query) /\ num_chunks' = num_chunks + 1
      /\ items_per_chunk > max_items_per_call
      /\ UNCHANGED <<chain, accounts_to_query, validator_info_addr, max_items_per_call, pc,
                     result, outcome, errors>>
  BY DEF MoreChunks, IsTooLarge
<1>2. max_items_per_call \in Nat /\ max_items_per_call >= 1
  BY SnapshotAssumption DEF SnapshotInv, ClientTypeOK
<1>3. /\ num_chunks \in Nat /\ num_chunks + 1 <= Len(accounts_to_query)
      /\ Len(accounts_to_query) > max_items_per_call
      /\ Len(accounts_to_query) \in Nat /\ Len(result) \in Nat
  BY <1>1, <1>2, ChunkFacts
<1>4. ClientTypeOK'
  BY <1>1, <1>3 DEF SnapshotInv, ClientTypeOK, IsOrderedSet
<1>5. num_chunks # 0
  BY DEF SnapshotInv, ClientTypeOK
<1>6. AttemptIsSound'
  BY <1>1, <1>3, <1>5 DEF AttemptIsSound
<1>. QED
  BY <1>1, <1>4, <1>6 DEF SnapshotInv, LimitIsPossible

LEMMA NextTooManyInputs ==
    ASSUME SnapshotInv, TooManyInputs
    PROVE  SnapshotInv'
<1>1. /\ pc = "query" /\ Len(result) < Len(accounts_to_query) /\ num_chunks' = num_chunks + 1
      /\ items_per_chunk <= max_items_per_call
      /\ max_items_per_call' = chunk_len - 1
      /\ result' = <<>>
      /\ UNCHANGED <<chain, accounts_to_query, validator_info_addr, pc, outcome, errors>>
  <2>1. items_per_chunk \in Nat /\ max_items_per_call \in Nat
    BY ChunkFacts, SnapshotAssumption DEF SnapshotInv, ClientTypeOK, TooManyInputs, IsChunkDue
  <2>. QED
    BY <2>1 DEF TooManyInputs, IsChunkDue, IsTooLarge, LearnedLimit
<1>2. PICK limit \in RpcLimits : chunk_len > limit
  BY DEF TooManyInputs
<1>3. limit \in Nat /\ limit >= 1 /\ max_items_per_call \in Nat /\ max_items_per_call <= UsizeMax
  BY SnapshotAssumption DEF SnapshotInv, ClientTypeOK
<1>4. /\ num_chunks \in Nat /\ chunk_len \in Nat /\ items_per_chunk \in Nat
      /\ Len(accounts_to_query) \in Nat
      /\ chunk_len <= items_per_chunk /\ items_per_chunk <= Len(accounts_to_query)
      /\ items_per_chunk >= 2 => num_chunks + 1 <= Len(accounts_to_query)
  BY <1>1, ChunkFacts
<1>5. /\ num_chunks + 1 <= Len(accounts_to_query)
      /\ max_items_per_call' \in 1..UsizeMax
      /\ limit <= max_items_per_call'
      /\ Len(accounts_to_query) > max_items_per_call'
  BY <1>1, <1>2, <1>3, <1>4, SnapshotAssumption
<1>6. Cardinality(Addresses) \in Nat
  BY SnapshotAssumption, FS_CardinalityType
<1>7. Len(result') = 0 /\ result' \in Seq(Versions)
  BY <1>1
<1>8. ClientTypeOK'
  BY <1>1, <1>4, <1>5, <1>6, <1>7 DEF SnapshotInv, ClientTypeOK, IsOrderedSet
<1>9. num_chunks # 0
  BY DEF SnapshotInv, ClientTypeOK
<1>10. AttemptIsSound'
  BY <1>1, <1>4, <1>5, <1>7, <1>9 DEF AttemptIsSound
<1>. QED
  BY <1>5, <1>8, <1>10 DEF SnapshotInv, LimitIsPossible

LEMMA NextGetMultipleAccounts ==
    ASSUME SnapshotInv, GetMultipleAccounts
    PROVE  SnapshotInv'
<1>. DEFINE c == chunk_len
            read == [i \in 1..c |-> chain]
            L == Len(accounts_to_query)
<1>1. /\ pc = "query" /\ Len(result) < L
      /\ result' = result \o read
      /\ UNCHANGED <<chain, accounts_to_query, validator_info_addr, max_items_per_call, pc,
                     num_chunks, outcome, errors>>
  BY DEF GetMultipleAccounts, IsChunkDue
<1>2. /\ L \in Nat /\ Len(result) \in Nat /\ c \in Nat /\ Len(result) + c <= L
      /\ num_chunks = 1 => Len(result) = 0 /\ c = L
  BY <1>1, ChunkFacts
<1>3. chain \in Versions /\ result \in Seq(Versions)
  BY DEF SnapshotInv, ClientTypeOK
<1>. HIDE DEF c
<1>4. read \in Seq(Versions) /\ Len(read) = c
  BY <1>2, <1>3
<1>. HIDE DEF read
<1>5. result' \in Seq(Versions) /\ Len(result') = Len(result) + c
  <2>1. result \o read \in Seq(Versions) /\ Len(result \o read) = Len(result) + Len(read)
    BY <1>3, <1>4
  <2>. QED
    BY <1>1, <1>4, <2>1
<1>6. L <= Cardinality(Addresses) /\ Cardinality(Addresses) \in Nat
  BY OrderedSetFits, SnapshotAssumption, FS_CardinalityType DEF SnapshotInv, ClientTypeOK
<1>7. ClientTypeOK'
  BY <1>1, <1>2, <1>5, <1>6 DEF SnapshotInv, ClientTypeOK, IsOrderedSet
<1>8. num_chunks = 1 => Len(result') = L /\ ~IsTorn'
  <2>. SUFFICES ASSUME num_chunks = 1
                PROVE  Len(result') = L /\ ~IsTorn'
    OBVIOUS
  <2>1. result = <<>> /\ c = L
    BY <1>2, <1>3
  <2>2. result' = read
    BY <1>1, <1>4, <2>1
  <2>3. \A i \in DOMAIN read : read[i] = chain
    BY DEF read
  <2>. QED
    BY <1>4, <2>1, <2>2, <2>3 DEF IsTorn
<1>9. AttemptIsSound'
  BY <1>1, <1>2, <1>5, <1>8 DEF SnapshotInv, AttemptIsSound
<1>. QED
  BY <1>1, <1>7, <1>9 DEF SnapshotInv, LimitIsPossible

LEMMA NextMissingAccount ==
    ASSUME SnapshotInv, MissingAccount
    PROVE  SnapshotInv'
<1>1. ClientTypeOK
  BY DEF SnapshotInv
<1>2. PICK i \in DOMAIN Reading : accounts_to_query' = Extended(SubSeq(Reading, 1, i))
  BY DEF MissingAccount
<1>3. Reading \in Seq(Addresses) /\ IsOrderedSet(Reading)
  BY <1>1, ReadingOrdered DEF ClientTypeOK
<1>4. SubSeq(Reading, 1, i) \in Seq(Addresses) /\ IsOrderedSet(SubSeq(Reading, 1, i))
  BY <1>3, PrefixOrdered
<1>5. accounts_to_query \in Seq(Addresses) /\ IsOrderedSet(accounts_to_query)
  BY <1>1 DEF ClientTypeOK
<1>6. accounts_to_query' \in Seq(Addresses) /\ IsOrderedSet(accounts_to_query')
  BY <1>2, <1>4, <1>5, UnionWithOrdered DEF Extended
<1>7. /\ StartQuery
      /\ UNCHANGED <<chain, validator_info_addr, max_items_per_call, outcome, errors>>
  BY DEF MissingAccount
<1>. QED
  BY <1>1, <1>6, <1>7, StartQueryInv DEF ClientTypeOK, IsOrderedSet

LEMMA NextMissingValidatorIdentity ==
    ASSUME SnapshotInv, MissingValidatorIdentity
    PROVE  SnapshotInv'
<1>1. ClientTypeOK
  BY DEF SnapshotInv
<1>2. /\ validator_info_addr' = InfoAddress[chain]
      /\ UNCHANGED <<chain, accounts_to_query, max_items_per_call, errors>>
      /\ IF IsReloaded
         THEN StartQuery /\ UNCHANGED outcome
         ELSE pc' = "idle" /\ outcome' = "error" /\ UNCHANGED <<num_chunks, result>>
  BY DEF MissingValidatorIdentity
<1>3. validator_info_addr' \in Infos \cup {NoAddress}
  BY <1>1, <1>2 DEF ClientTypeOK, Infos
<1>4. accounts_to_query' \in Seq(Addresses) /\ IsOrderedSet(accounts_to_query)'
  BY <1>1, <1>2 DEF ClientTypeOK, IsOrderedSet
<1>5. CASE IsReloaded
  BY <1>1, <1>2, <1>3, <1>4, <1>5, StartQueryInv DEF ClientTypeOK
<1>6. CASE ~IsReloaded
  BY <1>1, <1>2, <1>3, <1>4, <1>6, IdleInv DEF ClientTypeOK
<1>. QED
  BY <1>5, <1>6

LEMMA NextSucceed ==
    ASSUME SnapshotInv, Succeed
    PROVE  SnapshotInv'
<1>1. ClientTypeOK
  BY DEF SnapshotInv
<1>2. /\ accounts_to_query' = Reading /\ pc' = "idle" /\ outcome' = "ok"
      /\ UNCHANGED <<chain, validator_info_addr, max_items_per_call, num_chunks, result, errors>>
  BY DEF Succeed, Pruned
<1>3. Reading \in Seq(Addresses) /\ IsOrderedSet(Reading)
  BY <1>1, ReadingOrdered DEF ClientTypeOK
<1>4. accounts_to_query' \in Seq(Addresses) /\ IsOrderedSet(accounts_to_query)'
  BY <1>2, <1>3 DEF IsOrderedSet
<1>. QED
  BY <1>1, <1>2, <1>4, IdleInv DEF ClientTypeOK

\* Every step keeps the invariant.
LEMMA NextSnapshot ==
    ASSUME SnapshotInv, [ClientNext]_clientVars
    PROVE  SnapshotInv'
<1>1. ClientTypeOK
  BY DEF SnapshotInv
<1>2. CASE Begin
  <2>1. accounts_to_query' \in Seq(Addresses) /\ IsOrderedSet(accounts_to_query)'
    BY <1>1, <1>2 DEF Begin, ClientTypeOK, IsOrderedSet
  <2>. QED
    BY <1>1, <1>2, <2>1, StartQueryInv DEF Begin, ClientTypeOK
<1>3. CASE MoreChunks
  BY <1>3, NextMoreChunks
<1>4. CASE GetMultipleAccounts
  BY <1>4, NextGetMultipleAccounts
<1>5. CASE TooManyInputs
  BY <1>5, NextTooManyInputs
<1>6. CASE AllQueried
  <2>1. /\ pc = "query" /\ pc' = "read" /\ Len(result) = Len(accounts_to_query)
        /\ UNCHANGED <<chain, accounts_to_query, validator_info_addr, max_items_per_call,
                       num_chunks, result, outcome, errors>>
    BY <1>6 DEF AllQueried
  <2>2. ClientTypeOK'
    BY <1>1, <2>1 DEF ClientTypeOK, IsOrderedSet
  <2>3. AttemptIsSound'
    BY <1>1, <2>1 DEF SnapshotInv, AttemptIsSound, IsTorn, ClientTypeOK
  <2>. QED
    BY <2>1, <2>2, <2>3 DEF SnapshotInv, LimitIsPossible
<1>7. CASE MissingAccount
  BY <1>7, NextMissingAccount
<1>8. CASE OtherError
  <2>1. accounts_to_query' \in Seq(Addresses) /\ IsOrderedSet(accounts_to_query)'
    BY <1>1, <1>8 DEF OtherError, ClientTypeOK, IsOrderedSet
  <2>. QED
    BY <1>1, <1>8, <2>1, IdleInv DEF OtherError, ClientTypeOK
<1>9. CASE MissingValidatorIdentity
  BY <1>9, NextMissingValidatorIdentity
<1>10. CASE Succeed
  BY <1>10, NextSucceed
<1>11. CASE RpcFails
  <2>1. accounts_to_query' \in Seq(Addresses) /\ IsOrderedSet(accounts_to_query)'
    BY <1>1, <1>11 DEF RpcFails, ClientTypeOK, IsOrderedSet
  <2>2. errors' \in 0..MaxErrors
    BY <1>1, <1>11, SnapshotAssumption DEF RpcFails, ClientTypeOK
  <2>. QED
    BY <1>1, <1>11, <2>1, <2>2, IdleInv DEF RpcFails, ClientTypeOK
<1>12. CASE ChainAdvances
  BY <1>1, <1>12 DEF ChainAdvances, SnapshotInv, ClientTypeOK, IsOrderedSet, LimitIsPossible,
                     AttemptIsSound, IsTorn
<1>13. CASE UNCHANGED clientVars
  BY <1>1, <1>13 DEF clientVars, SnapshotInv, ClientTypeOK, IsOrderedSet, LimitIsPossible,
                     AttemptIsSound, IsTorn
<1>. QED
  BY <1>2, <1>3, <1>4, <1>5, <1>6, <1>7, <1>8, <1>9, <1>10, <1>11, <1>12, <1>13
     DEF ClientNext, Progress

-----------------------------------------------------------------------------
(* Theorems *)

\* The invariant of the search for the chunk size.
THEOREM SnapshotInvariant == ClientSpec => []SnapshotInv
<1>1. ClientInit => SnapshotInv
  BY InitSnapshot
<1>2. SnapshotInv /\ [ClientNext]_clientVars => SnapshotInv'
  BY NextSnapshot
<1>. QED
  BY <1>1, <1>2, PTL DEF ClientSpec

\* get_multiple_accounts is only called for accounts that are all different, and with a
\* chunk that is not empty and that some node may accept: the assertion in
\* get_multiple_accounts_chunked never fails, whatever limits the nodes have.
THEOREM CallsStaySound == ClientSpec => []CallsAreSound
<1>1. SnapshotInv => CallsAreSound
  <2>. SUFFICES ASSUME SnapshotInv
                PROVE  CallsAreSound
    OBVIOUS
  <2>1. ClientTypeOK
    BY DEF SnapshotInv
  <2>2. ASSUME pc = "query", accounts_to_query # <<>>
        PROVE  items_per_chunk > 0
    <3>1. Len(accounts_to_query) \in Nat \ {0} /\ num_chunks \in Nat \ {0}
      BY <2>1, <2>2 DEF ClientTypeOK
    <3>2. num_chunks <= Len(accounts_to_query)
      BY <2>2, <3>1 DEF SnapshotInv, AttemptIsSound
    <3>. QED
      BY <3>1, <3>2, ChunkSize DEF items_per_chunk
  <2>. QED
    BY <2>1, <2>2 DEF SnapshotInv, CallsAreSound, ChunksAreNotEmpty, LimitIsPossible
<1>. QED
  BY <1>1, SnapshotInvariant, PTL

\* A snapshot whose accounts are of different versions of the chain is one that the node
\* is known not to return in one call (get_multiple_accounts_chunked starts with one chunk).
THEOREM TornSnapshotsAreTooLarge == ClientSpec => []TornOnlyIfTooLarge
<1>1. SnapshotInv => TornOnlyIfTooLarge
  <2>. SUFFICES ASSUME SnapshotInv, pc = "read", IsTorn
                PROVE  Len(accounts_to_query) > max_items_per_call
    BY DEF TornOnlyIfTooLarge
  <2>1. result # <<>>
    BY DEF IsTorn
  <2>2. num_chunks \in Nat \ {0} /\ num_chunks # 1
    BY <2>1 DEF SnapshotInv, ClientTypeOK, AttemptIsSound
  <2>. QED
    BY <2>2 DEF SnapshotInv, AttemptIsSound
<1>. QED
  BY <1>1, SnapshotInvariant, PTL


-----------------------------------------------------------------------------
(* Sums over sequences (balance.rs sums the balances of validators and of  *)
(* their accounts).  A counterexample to what the recursion computes would *)
(* have a smallest length.                                                 *)

\* A set of numbers has a least one.
LEMMA LeastNumber ==
    ASSUME NEW S \in SUBSET Nat, S # {}
    PROVE  \E m \in S : \A k \in S : m <= k
<1>. DEFINE Order == OpToRel(<, Nat)
<1>1. IsWellFoundedOn(Order, Nat)
  BY NatLessThanWellFounded
<1>2. PICK m \in S : \A k \in S : ~(<<k, m>> \in Order)
  <2>. HIDE DEF Order
  <2>. QED
    BY <1>1, WFMin
<1>3. ASSUME NEW k \in S PROVE m <= k
  <2>1. ~(k < m)
    BY <1>2 DEF OpToRel
  <2>. QED
    BY <2>1
<1>. QED
  BY <1>3

\* The sums of the first elements.
IsUpto(f, numbers) ==
    f = [n \in 0..Len(numbers) |-> IF n = 0 THEN 0 ELSE f[n - 1] + numbers[n]]

LEMMA SumIsUpto ==
    ASSUME NEW numbers
    PROVE  Sum(numbers) = (CHOOSE f : IsUpto(f, numbers))[Len(numbers)]
BY DEF Sum, IsUpto

\* The recursion has a solution ...
LEMMA UptoExists ==
    ASSUME NEW numbers \in Seq(Int)
    PROVE  \E f : IsUpto(f, numbers)
<1>. DEFINE IsPart(f, k) == f = [n \in 0..k |-> IF n = 0 THEN 0 ELSE f[n - 1] + numbers[n]]
            Bad == {k \in 0..Len(numbers) : ~\E f : IsPart(f, k)}
<1>1. Len(numbers) \in Nat
  OBVIOUS
<1>2. ASSUME Bad # {} PROVE FALSE
  <2>1. PICK k \in Bad : \A j \in Bad : k <= j
    <3>1. Bad \in SUBSET Nat
      BY <1>1
    <3>. QED
      BY <1>2, <3>1, LeastNumber
  <2>2. CASE k = 0
    <3>. DEFINE f == [n \in 0..0 |-> 0]
    <3>1. IsPart(f, 0)
      OBVIOUS
    <3>. QED
      BY <2>1, <2>2, <3>1
  <2>3. CASE k # 0
    <3>1. k - 1 \in 0..Len(numbers) /\ k - 1 \notin Bad /\ k \in Nat
      <4>1. k \in 0..Len(numbers)
        BY <2>1
      <4>. HIDE DEF Bad
      <4>. QED
        BY <1>1, <2>1, <2>3, <4>1
    <3>2. PICK g : IsPart(g, k - 1)
      BY <3>1
    <3>. DEFINE f == [n \in 0..k |-> IF n = k THEN g[k - 1] + numbers[k] ELSE g[n]]
    <3>3. \A n \in 0..(k - 1) : g[n] = IF n = 0 THEN 0 ELSE g[n - 1] + numbers[n]
      BY <3>2
    <3>4. ASSUME NEW n \in 0..k
          PROVE  f[n] = IF n = 0 THEN 0 ELSE f[n - 1] + numbers[n]
      <4>1. CASE n = k
        BY <2>3, <3>1, <4>1
      <4>2. CASE n # k
        <5>1. n \in 0..(k - 1) /\ f[n] = g[n]
          BY <3>1, <4>2
        <5>2. n # 0 => n - 1 \in 0..k /\ n - 1 # k /\ f[n - 1] = g[n - 1]
          BY <3>1, <5>1
        <5>. QED
          BY <3>3, <5>1, <5>2
      <4>. QED
        BY <4>1, <4>2
    <3>5. f = [n \in 0..k |-> f[n]]
      OBVIOUS
    <3>. HIDE DEF f
    <3>6. IsPart(f, k)
      BY <3>4, <3>5
    <3>. QED
      BY <2>1, <3>6
  <2>. QED
    BY <2>2, <2>3
<1>3. \E f : IsPart(f, Len(numbers))
  BY <1>1, <1>2
<1>. QED
  BY <1>3 DEF IsUpto

\* ... and no other.
LEMMA UptoUnique ==
    ASSUME NEW numbers \in Seq(Int), NEW f, NEW g, IsUpto(f, numbers),
           g[0] = 0, \A n \in 1..Len(numbers) : g[n] = g[n - 1] + numbers[n]
    PROVE  \A n \in 0..Len(numbers) : f[n] = g[n]
<1>. DEFINE Bad == {n \in 0..Len(numbers) : f[n] # g[n]}
<1>1. Len(numbers) \in Nat
  OBVIOUS
<1>f. \A n \in 0..Len(numbers) : f[n] = IF n = 0 THEN 0 ELSE f[n - 1] + numbers[n]
  BY DEF IsUpto
<1>2. ASSUME Bad # {} PROVE FALSE
  <2>1. PICK k \in Bad : \A j \in Bad : k <= j
    <3>1. Bad \in SUBSET Nat
      BY <1>1
    <3>. QED
      BY <1>2, <3>1, LeastNumber
  <2>2. k # 0
    BY <1>f, <2>1
  <2>3. k - 1 \in 0..Len(numbers) /\ k - 1 \notin Bad /\ k \in 1..Len(numbers)
    BY <1>1, <2>1, <2>2
  <2>4. f[k - 1] = g[k - 1]
    BY <2>3
  <2>5. f[k] = f[k - 1] + numbers[k] /\ g[k] = g[k - 1] + numbers[k]
    BY <1>f, <2>2, <2>3
  <2>. QED
    BY <2>1, <2>4, <2>5
<1>. QED
  BY <1>2

\* A sum is the last of the sums of the first elements.
LEMMA SumByParts ==
    ASSUME NEW numbers \in Seq(Int), NEW g,
           g[0] = 0, \A n \in 1..Len(numbers) : g[n] = g[n - 1] + numbers[n]
    PROVE  Sum(numbers) = g[Len(numbers)]
<1>. DEFINE f == CHOOSE h : IsUpto(h, numbers)
<1>1. IsUpto(f, numbers)
  BY UptoExists
<1>. HIDE DEF f
<1>2. \A n \in 0..Len(numbers) : f[n] = g[n]
  BY <1>1, UptoUnique
<1>3. Len(numbers) \in 0..Len(numbers)
  OBVIOUS
<1>4. Sum(numbers) = f[Len(numbers)]
  BY SumIsUpto DEF f
<1>. QED
  BY <1>2, <1>3, <1>4

\* The sums of the first elements of a sequence of natural numbers.
IsParts(g, numbers) ==
    /\ g \in [0..Len(numbers) -> Nat]
    /\ g[0] = 0
    /\ \A n \in 1..Len(numbers) : g[n] = g[n - 1] + numbers[n]

LEMMA PartsOfSum ==
    ASSUME NEW numbers \in Seq(Nat)
    PROVE  \E g : IsParts(g, numbers) /\ Sum(numbers) = g[Len(numbers)]
<1>1. numbers \in Seq(Int) /\ Len(numbers) \in Nat /\ \A n \in 1..Len(numbers) : numbers[n] \in Nat
  OBVIOUS
<1>2. PICK f : IsUpto(f, numbers)
  BY <1>1, UptoExists
<1>f. /\ f[0] = 0
      /\ \A n \in 1..Len(numbers) : f[n] = f[n - 1] + numbers[n]
      /\ f = [n \in 0..Len(numbers) |-> f[n]]
  <2>1. f = [n \in 0..Len(numbers) |-> IF n = 0 THEN 0 ELSE f[n - 1] + numbers[n]]
    BY <1>2 DEF IsUpto
  <2>2. \A n \in 0..Len(numbers) : f[n] = IF n = 0 THEN 0 ELSE f[n - 1] + numbers[n]
    BY <2>1
  <2>3. f[0] = 0
    BY <1>1, <2>2
  <2>4. \A n \in 1..Len(numbers) : f[n] = f[n - 1] + numbers[n]
    BY <1>1, <2>2
  <2>5. f = [n \in 0..Len(numbers) |-> f[n]]
    BY <2>1, <2>2
  <2>. QED
    BY <2>3, <2>4, <2>5
<1>. DEFINE Bad == {n \in 0..Len(numbers) : f[n] \notin Nat}
<1>3. ASSUME Bad # {} PROVE FALSE
  <2>1. PICK k \in Bad : \A j \in Bad : k <= j
    <3>1. Bad \in SUBSET Nat
      BY <1>1
    <3>. QED
      BY <1>3, <3>1, LeastNumber
  <2>2. k # 0
    BY <1>f, <2>1
  <2>3. k - 1 \in 0..Len(numbers) /\ k - 1 \notin Bad /\ k \in 1..Len(numbers)
    BY <1>1, <2>1, <2>2
  <2>4. f[k] = f[k - 1] + numbers[k] /\ f[k - 1] \in Nat
    BY <1>f, <2>2, <2>3
  <2>. QED
    BY <1>1, <2>1, <2>3, <2>4
<1>4. \A n \in 0..Len(numbers) : f[n] \in Nat
  BY <1>3
<1>5. Sum(numbers) = f[Len(numbers)]
  BY <1>1, <1>f, SumByParts
<1>. QED
  BY <1>f, <1>4, <1>5 DEF IsParts

-----------------------------------------------------------------------------
(* Sequences that are changed at their ends *)

\* The same but for the first element.
IsFollowed(s, b) == Len(s) = Len(b) + 1 /\ \A n \in 1..Len(b) : b[n] = s[n + 1]

LEMMA TailFollows ==
    ASSUME NEW E, NEW s \in Seq(E), s # <<>>
    PROVE  Tail(s) \in Seq(E) /\ IsFollowed(s, Tail(s)) /\ s[1] \in E
<1>1. Len(s) \in Nat /\ Len(s) # 0 /\ s[1] \in E
  OBVIOUS
<1>2. Tail(s) \in Seq(E) /\ Len(Tail(s)) = Len(s) - 1
  OBVIOUS
<1>3. \A n \in 1..(Len(s) - 1) : Tail(s)[n] = s[n + 1]
  OBVIOUS
<1>4. Len(s) = Len(Tail(s)) + 1
  BY <1>1, <1>2
<1>. QED
  BY <1>1, <1>2, <1>3, <1>4, Zenon DEF IsFollowed

LEMMA PrependIsFollowed ==
    ASSUME NEW E, NEW x \in E, NEW b \in Seq(E)
    PROVE  /\ <<x>> \o b \in Seq(E) /\ IsFollowed(<<x>> \o b, b)
           /\ (<<x>> \o b)[1] = x /\ <<x>> \o b # <<>>
<1>. DEFINE a == <<x>>
<1>1. a \in Seq(E) /\ Len(a) = 1 /\ a[1] = x
  OBVIOUS
<1>. HIDE DEF a
<1>2. a \o b \in Seq(E) /\ Len(a \o b) = Len(a) + Len(b) /\ Len(b) \in Nat
  <2>1. Len(b) \in Nat
    OBVIOUS
  <2>. QED
    BY <1>1, <2>1, ConcatProperties, Zenon
<1>l. Len(a \o b) = Len(b) + 1
  BY <1>1, <1>2
<1>3. (a \o b)[1] = x
  BY <1>1, <1>2
<1>4. ASSUME NEW n \in 1..Len(b) PROVE (a \o b)[n + 1] = b[n]
  <2>1. n + 1 \in 1..(Len(a) + Len(b)) /\ ~(n + 1 <= Len(a)) /\ (n + 1) - Len(a) = n
    BY <1>1, <1>2
  <2>2. (a \o b)[n + 1] = b[(n + 1) - Len(a)]
    BY <1>1, <2>1, ConcatProperties
  <2>. QED
    BY <2>1, <2>2
<1>5. a \o b # <<>>
  BY <1>2, <1>l
<1>. QED
  BY <1>2, <1>3, <1>4, <1>5, <1>l DEF IsFollowed, a

LEMMA FirstIsFollowed ==
    ASSUME NEW E, NEW x \in E, NEW s \in Seq(E), s # <<>>
    PROVE  /\ [s EXCEPT ![1] = x] \in Seq(E)
           /\ IsFollowed([s EXCEPT ![1] = x], Tail(s))
           /\ [s EXCEPT ![1] = x][1] = x
           /\ [s EXCEPT ![1] = x] # <<>>
<1>. DEFINE t == [s EXCEPT ![1] = x]
            b == Tail(s)
<1>1. b \in Seq(E) /\ IsFollowed(s, b)
  BY TailFollows
<1>2. t \in Seq(E) /\ Len(t) = Len(s) /\ t[1] = x /\ t # <<>> /\ \A n \in 1..Len(s) : n # 1 => t[n] = s[n]
  OBVIOUS
<1>. HIDE DEF t, b
<1>3. Len(t) = Len(b) + 1 /\ Len(b) \in Nat
  BY <1>1, <1>2 DEF IsFollowed
<1>4. ASSUME NEW n \in 1..Len(b) PROVE b[n] = t[n + 1]
  <2>1. n + 1 \in 1..Len(s) /\ n + 1 # 1
    BY <1>2, <1>3
  <2>2. b[n] = s[n + 1]
    BY <1>1 DEF IsFollowed
  <2>. QED
    BY <1>2, <2>1, <2>2
<1>. QED
  BY <1>2, <1>3, <1>4 DEF IsFollowed, t, b

\* The same but for the last element.
IsLonger(s, r) == Len(s) = Len(r) + 1 /\ \A n \in 1..Len(r) : s[n] = r[n]

LEMMA FrontIsShorter ==
    ASSUME NEW E, NEW s \in Seq(E), s # <<>>, NEW x \in E
    PROVE  \E r \in Seq(E) : /\ IsLonger(s, r)
                             /\ IsLonger([s EXCEPT ![Len(s)] = x], r)
                             /\ [s EXCEPT ![Len(s)] = x] \in Seq(E)
                             /\ Len([s EXCEPT ![Len(s)] = x]) = Len(s)
                             /\ [s EXCEPT ![Len(s)] = x][Len(s)] = x
<1>. DEFINE r == [n \in 1..(Len(s) - 1) |-> s[n]]
            t == [s EXCEPT ![Len(s)] = x]
<1>1. Len(s) \in Nat /\ Len(s) # 0 /\ Len(s) - 1 \in Nat
  OBVIOUS
<1>2. \A n \in 1..(Len(s) - 1) : n \in 1..Len(s) /\ s[n] \in E /\ n # Len(s)
  BY <1>1
<1>3. r \in Seq(E) /\ Len(r) = Len(s) - 1 /\ \A n \in 1..(Len(s) - 1) : r[n] = s[n]
  BY <1>1, <1>2
<1>4. t \in Seq(E) /\ Len(t) = Len(s) /\ t[Len(s)] = x /\ \A n \in 1..Len(s) : n # Len(s) => t[n] = s[n]
  BY <1>1
<1>. HIDE DEF r, t
<1>5. Len(s) = Len(r) + 1
  <2>1. Len(r) = Len(s) - 1
    BY <1>3
  <2>. QED
    BY <1>1, <2>1
<1>6. IsLonger(s, r)
  BY <1>3, <1>5, Zenon DEF IsLonger
<1>7. IsLonger(t, r)
  <2>1. ASSUME NEW n \in 1..Len(r) PROVE t[n] = r[n]
    <3>1. n \in 1..(Len(s) - 1)
      BY <1>3
    <3>2. r[n] = s[n] /\ t[n] = s[n]
      BY <1>2, <1>3, <1>4, <3>1, Zenon
    <3>. QED
      BY <3>2, Zenon
  <2>2. Len(t) = Len(r) + 1
    BY <1>4, <1>5, Zenon
  <2>. QED
    BY <2>1, <2>2, Zenon DEF IsLonger
<1>. QED
  BY <1>3, <1>4, <1>6, <1>7 DEF t

\* What is known of the sums of the first elements.
LEMMA PartsFacts ==
    ASSUME NEW s \in Seq(Nat)
    PROVE  \E g : /\ Sum(s) = g[Len(s)]
                  /\ \A n \in 0..Len(s) : g[n] \in Nat
                  /\ g[0] = 0
                  /\ \A n \in 1..Len(s) : g[n] = g[n - 1] + s[n]
<1>1. PICK g : IsParts(g, s) /\ Sum(s) = g[Len(s)]
  BY PartsOfSum
<1>2. \A n \in 0..Len(s) : g[n] \in Nat
  BY <1>1 DEF IsParts
<1>. QED
  BY <1>1, <1>2 DEF IsParts

\* Sums of natural numbers are natural, and no less than the first of them.
LEMMA SumIsNatural ==
    ASSUME NEW s \in Seq(Nat)
    PROVE  /\ Sum(s) \in Nat
           /\ s # <<>> => s[1] <= Sum(s)
           /\ s = <<>> => Sum(s) = 0
           /\ Len(s) = 1 => Sum(s) = s[1]
<1>1. PICK g : /\ Sum(s) = g[Len(s)]
               /\ \A n \in 0..Len(s) : g[n] \in Nat
               /\ g[0] = 0
               /\ \A n \in 1..Len(s) : g[n] = g[n - 1] + s[n]
  BY PartsFacts
<1>2. Len(s) \in Nat /\ Len(s) \in 0..Len(s) /\ \A n \in 1..Len(s) : s[n] \in Nat
  OBVIOUS
<1>3. Sum(s) \in Nat
  BY <1>1, <1>2
<1>4. s = <<>> => Sum(s) = 0
  BY <1>1
<1>5. Len(s) = 1 => Sum(s) = s[1]
  <2>. SUFFICES ASSUME Len(s) = 1 PROVE Sum(s) = s[1]
    OBVIOUS
  <2>1. 1 \in 1..Len(s) /\ s[1] \in Nat
    BY <1>2
  <2>2. g[1] = g[1 - 1] + s[1]
    BY <1>1, <2>1
  <2>. QED
    BY <1>1, <2>1, <2>2
<1>6. ASSUME s # <<>> PROVE s[1] <= Sum(s)
  <2>. DEFINE Bad == {n \in 1..Len(s) : ~(s[1] <= g[n])}
  <2>0. 1 \in 1..Len(s) /\ s[1] \in Nat /\ Len(s) \in 1..Len(s)
    BY <1>2, <1>6
  <2>1. ASSUME Bad # {} PROVE FALSE
    <3>1. PICK k \in Bad : \A j \in Bad : k <= j
      <4>1. Bad \in SUBSET Nat
        OBVIOUS
      <4>. QED
        BY <2>1, <4>1, LeastNumber
    <3>k. k \in 1..Len(s) /\ ~(s[1] <= g[k])
      BY <3>1
    <3>2. k # 1
      <4>. SUFFICES ASSUME k = 1 PROVE FALSE
        OBVIOUS
      <4>1. g[1] = g[1 - 1] + s[1]
        BY <1>1, <2>0
      <4>2. g[1] = s[1]
        BY <1>1, <2>0, <4>1
      <4>. QED
        BY <2>0, <3>k, <4>2
    <3>3. k - 1 \in 1..Len(s) /\ k - 1 \in 0..Len(s) /\ ~(k <= k - 1)
      BY <1>2, <3>k, <3>2
    <3>4. s[1] <= g[k - 1]
      BY <3>1, <3>3
    <3>5. g[k] = g[k - 1] + s[k] /\ g[k - 1] \in Nat /\ s[k] \in Nat
      BY <1>1, <1>2, <3>3, <3>k
    <3>. HIDE DEF Bad
    <3>6. s[1] <= g[k]
      BY <2>0, <3>4, <3>5
    <3>. QED
      BY <3>k, <3>6
  <2>2. s[1] <= g[Len(s)]
    BY <2>0, <2>1
  <2>. QED
    BY <1>1, <2>2
<1>. QED
  BY <1>3, <1>4, <1>5, <1>6

\* A sequence that begins with another one, and goes on with one more number.
LEMMA SumOfOneMore ==
    ASSUME NEW s \in Seq(Nat), NEW t \in Seq(Nat), Len(t) = Len(s) + 1,
           \A n \in 1..Len(s) : t[n] = s[n]
    PROVE  Sum(t) = Sum(s) + t[Len(t)]
<1>1. PICK g : /\ Sum(t) = g[Len(t)]
               /\ \A n \in 0..Len(t) : g[n] \in Nat
               /\ g[0] = 0
               /\ \A n \in 1..Len(t) : g[n] = g[n - 1] + t[n]
  BY PartsFacts
<1>2. Len(s) \in Nat /\ Len(t) \in 1..Len(t) /\ Len(t) - 1 = Len(s)
  OBVIOUS
<1>3. g[Len(t)] = g[Len(t) - 1] + t[Len(t)]
  BY <1>1, <1>2
<1>4. ASSUME NEW n \in 1..Len(s) PROVE g[n] = g[n - 1] + s[n]
  <2>1. n \in 1..Len(t)
    BY <1>2
  <2>. QED
    BY <1>1, <2>1
<1>5. s \in Seq(Int)
  OBVIOUS
<1>6. Sum(s) = g[Len(s)]
  BY <1>1, <1>4, <1>5, SumByParts
<1>. QED
  BY <1>1, <1>2, <1>3, <1>6

\* One more number.
LEMMA SumOfAppend ==
    ASSUME NEW s \in Seq(Nat), NEW x \in Nat
    PROVE  Sum(Append(s, x)) = Sum(s) + x
<1>. DEFINE t == Append(s, x)
<1>1. t \in Seq(Nat) /\ Len(t) = Len(s) + 1 /\ t[Len(t)] = x /\ \A n \in 1..Len(s) : t[n] = s[n]
  OBVIOUS
<1>. HIDE DEF t
<1>2. Sum(t) = Sum(s) + x
  BY <1>1, SumOfOneMore
<1>. QED
  BY <1>2 DEF t

\* The last number is increased.
LEMMA SumOfLast ==
    ASSUME NEW s \in Seq(Nat), NEW t \in Seq(Nat), NEW r \in Seq(Nat), NEW x \in Int,
           IsLonger(s, r), IsLonger(t, r), t[Len(s)] = s[Len(s)] + x
    PROVE  Sum(t) = Sum(s) + x
<1>1. Len(s) = Len(t) /\ Len(s) \in Nat /\ Len(s) # 0
  BY DEF IsLonger
<1>2. s[Len(s)] \in Nat
  BY <1>1
<1>4. Sum(s) = Sum(r) + s[Len(s)]
  BY SumOfOneMore DEF IsLonger
<1>5. Sum(t) = Sum(r) + t[Len(t)]
  BY SumOfOneMore DEF IsLonger
<1>6. Sum(r) \in Nat
  BY SumIsNatural
<1>. QED
  BY <1>1, <1>2, <1>4, <1>5, <1>6

\* The first numbers, and the others.
IsJoined(s, a, b) ==
    /\ Len(s) = Len(a) + Len(b)
    /\ \A n \in 1..Len(a) : a[n] = s[n]
    /\ \A n \in 1..Len(b) : b[n] = s[n + Len(a)]

LEMMA SumOfTwo ==
    ASSUME NEW s \in Seq(Nat), NEW a \in Seq(Nat), NEW b \in Seq(Nat), IsJoined(s, a, b)
    PROVE  Sum(s) = Sum(a) + Sum(b)
<1>1. PICK g : /\ Sum(s) = g[Len(s)]
               /\ \A n \in 0..Len(s) : g[n] \in Nat
               /\ g[0] = 0
               /\ \A n \in 1..Len(s) : g[n] = g[n - 1] + s[n]
  BY PartsFacts
<1>. DEFINE k == Len(a)
            h == [n \in 0..Len(b) |-> g[n + k] - g[k]]
<1>l. Len(s) \in Nat /\ Len(a) \in Nat /\ Len(b) \in Nat /\ Len(s) = Len(a) + Len(b)
  BY DEF IsJoined
<1>2. k \in Nat /\ Len(b) \in Nat /\ Len(s) = k + Len(b) /\ k \in 0..Len(s) /\ Len(s) \in 0..Len(s)
  BY <1>l
<1>g. g[k] \in Nat /\ g[Len(s)] \in Nat
  BY <1>1, <1>2
<1>3. Sum(a) = g[k]
  <2>1. ASSUME NEW n \in 1..k PROVE g[n] = g[n - 1] + a[n]
    <3>1. n \in 1..Len(s)
      BY <1>2
    <3>2. a[n] = s[n]
      BY DEF IsJoined
    <3>. QED
      BY <1>1, <3>1, <3>2
  <2>2. a \in Seq(Int)
    OBVIOUS
  <2>. QED
    BY <1>1, <2>1, <2>2, SumByParts
<1>b. \A n \in 1..Len(b) : b[n] = s[n + k]
  BY DEF IsJoined
<1>. HIDE DEF k
<1>4. Sum(b) = g[Len(s)] - g[k]
  <2>1. h[0] = 0 /\ h[Len(b)] = g[Len(s)] - g[k]
    <3>1. 0 \in 0..Len(b) /\ Len(b) \in 0..Len(b) /\ Len(b) + k = Len(s) /\ 0 + k = k
      BY <1>2
    <3>2. h[0] = g[0 + k] - g[k] /\ h[Len(b)] = g[Len(b) + k] - g[k]
      BY <3>1
    <3>. QED
      BY <1>2, <1>g, <3>1, <3>2
  <2>2. ASSUME NEW n \in 1..Len(b) PROVE h[n] = h[n - 1] + b[n]
    <3>1. /\ n - 1 \in 0..Len(b) /\ n \in 0..Len(b)
          /\ n + k \in 1..Len(s) /\ n - 1 + k = n + k - 1 /\ n + k - 1 \in 0..Len(s)
      BY <1>2
    <3>2. h[n] = g[n + k] - g[k] /\ h[n - 1] = g[n - 1 + k] - g[k] /\ b[n] = s[n + k]
      BY <1>b, <3>1
    <3>3. g[n + k] = g[n + k - 1] + s[n + k] /\ g[n + k - 1] \in Nat
      <4>. DEFINE c == n + k
                  d == n + k - 1
      <4>1. c \in 1..Len(s) /\ d \in 0..Len(s) /\ d = c - 1
        BY <1>2, <3>1
      <4>. HIDE DEF c, d
      <4>2. g[c] = g[d] + s[c] /\ g[d] \in Nat
        BY <1>1, <4>1, Zenon
      <4>. QED
        BY <4>2 DEF c, d
    <3>5. s[n + k] \in Nat
      BY <3>1
    <3>4. h[n - 1] = g[n + k - 1] - g[k]
      BY <3>1, <3>2
    <3>. HIDE DEF h
    <3>. QED
      BY <1>g, <3>2, <3>3, <3>4, <3>5, SMTT(30)
  <2>3. b \in Seq(Int)
    OBVIOUS
  <2>. HIDE DEF h
  <2>4. Sum(b) = h[Len(b)]
    BY <2>1, <2>2, <2>3, SumByParts
  <2>. QED
    BY <2>1, <2>4
<1>5. Sum(s) = g[Len(s)]
  BY <1>1
<1>. QED
  BY <1>g, <1>3, <1>4, <1>5

\* A sequence cut in two.
LEMMA SumOfSubSeq ==
    ASSUME NEW s \in Seq(Nat), NEW k \in 0..Len(s)
    PROVE  /\ SubSeq(s, 1, k) \in Seq(Nat)
           /\ SubSeq(s, k + 1, Len(s)) \in Seq(Nat)
           /\ Len(SubSeq(s, k + 1, Len(s))) = Len(s) - k
           /\ Sum(SubSeq(s, 1, k)) \in Nat
           /\ Sum(SubSeq(s, k + 1, Len(s))) \in Nat
           /\ Sum(s) = Sum(SubSeq(s, 1, k)) + Sum(SubSeq(s, k + 1, Len(s)))
<1>. DEFINE a == SubSeq(s, 1, k)
            b == SubSeq(s, k + 1, Len(s))
<1>1. k \in Nat /\ Len(s) \in Nat /\ k <= Len(s)
  OBVIOUS
<1>2. a \in Seq(Nat) /\ Len(a) = k /\ \A n \in 1..k : a[n] = s[n]
  BY <1>1
<1>3. b \in Seq(Nat) /\ Len(b) = Len(s) - k /\ \A n \in 1..(Len(s) - k) : b[n] = s[n + k]
  OBVIOUS
<1>. HIDE DEF a, b
<1>4. IsJoined(s, a, b)
  <2>1. Len(s) = Len(a) + Len(b)
    <3>1. Len(a) = k /\ Len(b) = Len(s) - k
      BY <1>2, <1>3
    <3>. QED
      BY <1>1, <3>1
  <2>. QED
    BY <1>2, <1>3, <2>1, Zenon DEF IsJoined
<1>5. Sum(s) = Sum(a) + Sum(b)
  BY <1>2, <1>3, <1>4, SumOfTwo
<1>6. Sum(a) \in Nat /\ Sum(b) \in Nat
  BY <1>2, <1>3, SumIsNatural
<1>. QED
  BY <1>2, <1>3, <1>5, <1>6 DEF a, b

\* The first number, and the others.
LEMMA SumOfTail ==
    ASSUME NEW s \in Seq(Nat), NEW b \in Seq(Nat), IsFollowed(s, b)
    PROVE  Sum(s) = s[1] + Sum(b) /\ s[1] \in Nat /\ Sum(b) \in Nat
<1>. DEFINE a == <<s[1]>>
<1>0. Len(s) \in Nat /\ Len(b) \in Nat /\ Len(s) = Len(b) + 1
  BY DEF IsFollowed
<1>1. s[1] \in Nat
  BY <1>0
<1>2. a \in Seq(Nat) /\ Len(a) = 1 /\ a[1] = s[1]
  BY <1>1
<1>. HIDE DEF a
<1>3. Sum(a) = s[1]
  BY <1>2, SumIsNatural
<1>4. IsJoined(s, a, b)
  <2>1. Len(s) = Len(a) + Len(b)
    BY <1>0, <1>2
  <2>2. \A n \in 1..Len(a) : a[n] = s[n]
    BY <1>2
  <2>. QED
    BY <1>2, <2>1, <2>2 DEF IsJoined, IsFollowed
<1>5. Sum(s) = Sum(a) + Sum(b)
  BY <1>2, <1>4, SumOfTwo
<1>. QED
  BY <1>1, <1>3, <1>5, SumIsNatural

-----------------------------------------------------------------------------
(* The arithmetic of balance.rs *)

\* The validator list as balance.rs sees it.
BookEntries == [active : BOOLEAN, stake : Nat, unstake : Nat]
Books == Seq(BookEntries)

\* What is in an entry.
LEMMA BookEntry ==
    ASSUME NEW list \in Books
    PROVE  /\ Len(list) \in Nat /\ DOMAIN list = 1..Len(list)
           /\ \A i \in 1..Len(list) : /\ list[i].active \in BOOLEAN
                                      /\ list[i].stake \in Nat
                                      /\ list[i].unstake \in Nat
                                      /\ Effective(list, i) \in Int
                                      /\ Effective(list, i) = list[i].stake - list[i].unstake
<1>1. Len(list) \in Nat /\ DOMAIN list = 1..Len(list)
  BY DEF Books
<1>2. \A i \in 1..Len(list) : list[i] \in BookEntries
  BY DEF Books
<1>3. ASSUME NEW i \in 1..Len(list)
      PROVE  list[i].active \in BOOLEAN /\ list[i].stake \in Nat /\ list[i].unstake \in Nat
  BY <1>2 DEF BookEntries
<1>. QED
  BY <1>1, <1>3 DEF Effective, compute_effective_stake_balance

\* All SOL is a natural number.
LEMMA TotalIsNatural ==
    ASSUME NEW list \in Books, NEW reserved \in Nat
    PROVE  Total(reserved, list) \in Nat
<1>. DEFINE s == [i \in DOMAIN list |-> list[i].stake]
<1>1. s \in Seq(Nat)
  BY BookEntry
<1>. HIDE DEF s
<1>2. Sum(s) \in Nat
  BY <1>1, SumIsNatural
<1>. QED
  BY <1>2 DEF Total, s

\* Positions are finitely many.
LEMMA FinitePositions ==
    ASSUME NEW n \in Nat, NEW S \in SUBSET (1..n)
    PROVE  IsFiniteSet(S) /\ Cardinality(S) \in Nat /\ (S # {} => Cardinality(S) # 0)
<1>0. IsFiniteSet(1..n)
  BY FS_Interval
<1>1. IsFiniteSet(S)
  BY <1>0, FS_Subset
<1>. QED
  BY <1>1, FS_CardinalityType, FS_EmptySet

\* The number of active validators up to a position.
RankOf(list, n) == Cardinality({j \in ActiveIn(list) : j <= n})

LEMMA RankGrows ==
    ASSUME NEW list \in Books
    PROVE  /\ \A n \in 0..Len(list) : RankOf(list, n) \in Nat
           /\ RankOf(list, 0) = 0
           /\ RankOf(list, Len(list)) = Cardinality(ActiveIn(list))
           /\ \A n \in 1..Len(list) :
                 /\ RankOf(list, n) = RankOf(list, n - 1) + (IF list[n].active THEN 1 ELSE 0)
                 /\ Cardinality({j \in ActiveIn(list) : j < n}) = RankOf(list, n - 1)
           /\ \A m, n \in 0..Len(list) : m <= n => RankOf(list, m) <= RankOf(list, n)
<1>. DEFINE Upto(n) == {j \in ActiveIn(list) : j <= n}
<1>1. Len(list) \in Nat /\ ActiveIn(list) \in SUBSET (1..Len(list))
  BY BookEntry DEF ActiveIn
<1>2. \A n \in 0..Len(list) : IsFiniteSet(Upto(n)) /\ Cardinality(Upto(n)) \in Nat
  <2>1. \A n \in 0..Len(list) : Upto(n) \in SUBSET (1..Len(list))
    BY <1>1
  <2>. QED
    BY <1>1, <2>1, FinitePositions
<1>3. Cardinality(Upto(0)) = 0
  <2>1. Upto(0) = {}
    BY <1>1
  <2>. QED
    BY <2>1, FS_EmptySet
<1>4. Upto(Len(list)) = ActiveIn(list)
  BY <1>1
<1>5. ASSUME NEW n \in 1..Len(list)
      PROVE  /\ Cardinality(Upto(n)) = Cardinality(Upto(n - 1)) + (IF list[n].active THEN 1 ELSE 0)
             /\ {j \in ActiveIn(list) : j < n} = Upto(n - 1)
  <2>1. n - 1 \in 0..Len(list) /\ n \in Nat
    BY <1>1
  <2>2. CASE list[n].active
    <3>1. n \in ActiveIn(list)
      BY <2>2, BookEntry DEF ActiveIn
    <3>2. Upto(n) = Upto(n - 1) \cup {n} /\ n \notin Upto(n - 1)
      BY <1>1, <2>1, <3>1
    <3>. HIDE DEF Upto
    <3>3. Cardinality(Upto(n - 1) \cup {n}) = Cardinality(Upto(n - 1)) + 1
      BY <1>2, <2>1, <3>2, FS_AddElement
    <3>4. Cardinality(Upto(n)) = Cardinality(Upto(n - 1)) + 1
      BY <3>2, <3>3, Zenon
    <3>5. {j \in ActiveIn(list) : j < n} = Upto(n - 1)
      BY <1>1, <2>1 DEF Upto
    <3>. QED
      BY <2>2, <3>4, <3>5
  <2>3. CASE ~list[n].active
    <3>1. n \notin ActiveIn(list)
      BY <2>3, BookEntry DEF ActiveIn
    <3>2. Upto(n) = Upto(n - 1)
      BY <1>1, <2>1, <3>1
    <3>3. Cardinality(Upto(n - 1)) \in Nat
      BY <1>2, <2>1
    <3>5. {j \in ActiveIn(list) : j < n} = Upto(n - 1)
      BY <1>1, <2>1
    <3>. HIDE DEF Upto
    <3>6. Cardinality(Upto(n)) = Cardinality(Upto(n - 1))
      BY <3>2
    <3>. QED
      BY <2>3, <3>3, <3>5, <3>6
  <2>. QED
    BY <2>2, <2>3
<1>6. ASSUME NEW m \in 0..Len(list), NEW n \in 0..Len(list), m <= n
      PROVE  Cardinality(Upto(m)) <= Cardinality(Upto(n))
  <2>1. Upto(m) \in SUBSET Upto(n)
    BY <1>1, <1>6
  <2>. HIDE DEF Upto
  <2>. QED
    BY <1>2, <2>1, FS_Subset
<1>. QED
  BY <1>2, <1>3, <1>4, <1>5, <1>6 DEF RankOf

\* The target of every validator, by the number of active validators before it.
IsTarget(target, total, list, each, remainder) ==
    /\ total = each * Cardinality(ActiveIn(list)) + remainder
    /\ remainder < Cardinality(ActiveIn(list))
    /\ DOMAIN target = 1..Len(list)
    /\ \A i \in 1..Len(list) :
          target[i] = IF list[i].active
                      THEN IF RankOf(list, i - 1) < remainder THEN each + 1 ELSE each
                      ELSE 0

LEMMA TargetOf ==
    ASSUME NEW list \in Books, NEW reserved \in Nat, ActiveIn(list) # {}
    PROVE  \E each \in Nat, remainder \in Nat :
              IsTarget(get_target_balance(reserved, list), Total(reserved, list), list, each, remainder)
<1>. DEFINE total == Total(reserved, list)
            active == Cardinality(ActiveIn(list))
            each == total \div active
            remainder == total - each * active
            target == get_target_balance(reserved, list)
<1>1. total \in Nat
  BY TotalIsNatural
<1>2. active \in Nat \ {0}
  <2>1. Len(list) \in Nat /\ ActiveIn(list) \in SUBSET (1..Len(list))
    BY BookEntry DEF ActiveIn
  <2>. QED
    BY <2>1, FinitePositions
<1>. HIDE DEF total, active
<1>3. each \in Nat /\ each * active <= total /\ total < each * active + active
  BY <1>1, <1>2
<1>t. target = [i \in DOMAIN list |->
                  IF list[i].active THEN each + Extra(list, i, remainder) ELSE 0]
  BY DEF get_target_balance, total, active
<1>. HIDE DEF each
<1>4. each * active \in Nat
  BY <1>2, <1>3
<1>5. remainder \in Nat /\ total = each * active + remainder /\ remainder < active
  BY <1>1, <1>2, <1>3, <1>4
<1>. HIDE DEF remainder, target
<1>6. Len(list) \in Nat /\ DOMAIN list = 1..Len(list)
  BY BookEntry
<1>7. ASSUME NEW i \in 1..Len(list)
      PROVE  target[i] = IF list[i].active
                         THEN IF RankOf(list, i - 1) < remainder THEN each + 1 ELSE each
                         ELSE 0
  <2>1. target[i] = IF list[i].active THEN each + Extra(list, i, remainder) ELSE 0
    BY <1>t, <1>6
  <2>2. Extra(list, i, remainder) = IF RankOf(list, i - 1) < remainder THEN 1 ELSE 0
    BY RankGrows DEF Extra
  <2>. QED
    BY <1>3, <2>1, <2>2
<1>8. DOMAIN target = 1..Len(list)
  BY <1>t, <1>6
<1>. QED
  BY <1>3, <1>5, <1>7, <1>8 DEF total, active, target, IsTarget

\* get_target_balance distributes all SOL uniformly over the active validators, the first of
\* them get no less than the others, and inactive validators get nothing.
LEMMA TargetIsSound ==
    ASSUME NEW list \in Books, NEW reserved \in Nat, ActiveIn(list) # {},
           NEW target, target = get_target_balance(reserved, list)
    PROVE  /\ target \in Seq(Nat) /\ Len(target) = Len(list)
           /\ Sum(target) = Total(reserved, list)
           /\ \A i \in 1..Len(list) : ~list[i].active => target[i] = 0
           /\ \A i, j \in 1..Len(list) :
                 list[i].active /\ list[j].active =>
                    /\ target[i] - target[j] \in {-1, 0, 1}
                    /\ i <= j => target[j] <= target[i]
<1>. DEFINE c == Cardinality(ActiveIn(list))
            total == Total(reserved, list)
<1>0. PICK each \in Nat, remainder \in Nat : IsTarget(target, total, list, each, remainder)
  BY TargetOf
<1>1. /\ total = each * c + remainder
      /\ remainder < c
      /\ DOMAIN target = 1..Len(list)
      /\ \A i \in 1..Len(list) :
            target[i] = IF list[i].active
                        THEN IF RankOf(list, i - 1) < remainder THEN each + 1 ELSE each
                        ELSE 0
  BY <1>0 DEF IsTarget
<1>2. Len(list) \in Nat /\ DOMAIN list = 1..Len(list) /\ \A i \in 1..Len(list) : list[i].active \in BOOLEAN
  BY BookEntry
<1>r. \A i \in 1..Len(list) : i - 1 \in 0..Len(list) /\ RankOf(list, i - 1) \in Nat
  <2>. SUFFICES ASSUME NEW i \in 1..Len(list)
                PROVE  i - 1 \in 0..Len(list) /\ RankOf(list, i - 1) \in Nat
    OBVIOUS
  <2>1. i - 1 \in 0..Len(list)
    BY <1>2
  <2>. QED
    BY <2>1, RankGrows
<1>t. \A i \in 1..Len(list) : target[i] \in Nat
  BY <1>1, <1>2, <1>r
<1>3. target \in Seq(Nat) /\ Len(target) = Len(list)
  <2>1. target = [i \in 1..Len(list) |-> target[i]]
    <3>1. target = [i \in DOMAIN list |-> target[i]]
      BY <1>2 DEF get_target_balance
    <3>. QED
      BY <1>2, <3>1
  <2>. QED
    BY <1>2, <1>t, <2>1
<1>4. ASSUME NEW i \in 1..Len(list), NEW j \in 1..Len(list), list[i].active, list[j].active
      PROVE  /\ target[i] - target[j] \in {-1, 0, 1}
             /\ i <= j => target[j] <= target[i]
  <2>1. /\ target[i] = IF RankOf(list, i - 1) < remainder THEN each + 1 ELSE each
        /\ target[j] = IF RankOf(list, j - 1) < remainder THEN each + 1 ELSE each
    BY <1>1, <1>4
  <2>2. i <= j => RankOf(list, i - 1) <= RankOf(list, j - 1)
    <3>. SUFFICES ASSUME i <= j PROVE RankOf(list, i - 1) <= RankOf(list, j - 1)
      OBVIOUS
    <3>1. i - 1 \in 0..Len(list) /\ j - 1 \in 0..Len(list) /\ i - 1 <= j - 1
      BY <1>2
    <3>. QED
      BY <3>1, RankGrows
  <2>3. RankOf(list, i - 1) \in Nat /\ RankOf(list, j - 1) \in Nat
    BY <1>r
  <2>. QED
    BY <2>1, <2>2, <2>3
<1>5. Sum(target) = total
  <2>. DEFINE R(n) == RankOf(list, n)
              g == [n \in 0..Len(list) |->
                      each * R(n) + (IF R(n) < remainder THEN R(n) ELSE remainder)]
  <2>1. g[0] = 0
    <3>1. R(0) = 0 /\ 0 \in 0..Len(list)
      BY <1>2, RankGrows
    <3>. HIDE DEF R
    <3>2. g[0] = each * R(0) + (IF R(0) < remainder THEN R(0) ELSE remainder)
      BY <3>1
    <3>3. each * R(0) = 0
      BY <3>1
    <3>. QED
      BY <3>1, <3>2, <3>3
  <2>2. ASSUME NEW n \in 1..Len(list) PROVE g[n] = g[n - 1] + target[n]
    <3>1. n - 1 \in 0..Len(list) /\ n \in 0..Len(list)
      BY <1>2
    <3>2. R(n) = R(n - 1) + (IF list[n].active THEN 1 ELSE 0)
      BY RankGrows
    <3>3. R(n - 1) \in Nat /\ R(n) \in Nat
      BY <3>1, RankGrows
    <3>4. target[n] = IF list[n].active
                      THEN IF R(n - 1) < remainder THEN each + 1 ELSE each
                      ELSE 0
      BY <1>1
    <3>. HIDE DEF R
    <3>5. /\ g[n] = each * R(n) + (IF R(n) < remainder THEN R(n) ELSE remainder)
          /\ g[n - 1] = each * R(n - 1) + (IF R(n - 1) < remainder THEN R(n - 1) ELSE remainder)
      BY <3>1
    <3>. HIDE DEF g
    <3>6. CASE list[n].active
      <4>1. R(n) = R(n - 1) + 1
        BY <3>2, <3>6
      <4>2. each * R(n) = each * R(n - 1) + each /\ each * R(n - 1) \in Nat
        BY <3>3, <4>1
      <4>3. CASE R(n - 1) < remainder
        <5>1. /\ target[n] = each + 1 /\ g[n - 1] = each * R(n - 1) + R(n - 1)
              /\ g[n] = each * R(n) + R(n)
          BY <3>3, <3>4, <3>5, <3>6, <4>1, <4>3, SMTT(30)
        <5>. QED
          BY <3>3, <4>1, <4>2, <5>1
      <4>4. CASE ~(R(n - 1) < remainder)
        <5>1. /\ target[n] = each /\ g[n - 1] = each * R(n - 1) + remainder
              /\ g[n] = each * R(n) + remainder
          BY <3>3, <3>4, <3>5, <3>6, <4>1, <4>4
        <5>. QED
          BY <3>3, <4>1, <4>2, <5>1
      <4>. QED
        BY <4>3, <4>4
    <3>7. CASE ~list[n].active
      <4>1. R(n) = R(n - 1)
        BY <3>2, <3>3, <3>7
      <4>2. each * R(n - 1) \in Nat
        BY <3>3
      <4>. QED
        BY <3>3, <3>4, <3>5, <3>7, <4>1, <4>2
    <3>. QED
      BY <3>6, <3>7
  <2>3. g[Len(list)] = total
    <3>1. Len(list) \in 0..Len(list) /\ R(Len(list)) = c
      BY <1>2, RankGrows
    <3>2. c \in Nat
      BY <3>1, RankGrows
    <3>. HIDE DEF R, c
    <3>3. g[Len(list)] = each * R(Len(list)) + (IF R(Len(list)) < remainder THEN R(Len(list)) ELSE remainder)
      BY <3>1
    <3>4. each * c \in Nat
      BY <3>2
    <3>5. remainder < c /\ total = each * c + remainder
      BY <1>1
    <3>. HIDE DEF g, total
    <3>6. g[Len(list)] = each * c + (IF c < remainder THEN c ELSE remainder)
      BY <3>1, <3>3
    <3>. QED
      BY <3>2, <3>4, <3>5, <3>6
  <2>4. target \in Seq(Int)
    BY <1>3
  <2>. HIDE DEF g
  <2>5. Sum(target) = g[Len(target)]
    BY <1>3, <2>1, <2>2, <2>4, SumByParts
  <2>. QED
    BY <1>3, <2>3, <2>5
<1>6. \A i \in 1..Len(list) : ~list[i].active => target[i] = 0
  BY <1>1
<1>. QED
  BY <1>3, <1>4, <1>5, <1>6 DEF total

\* Among some positions there is a first with the lowest value ...
IsFirstLowest(i, f, S) == i \in S /\ \A j \in S : f[i] <= f[j] /\ (j < i => f[i] < f[j])

LEMMA FirstLowest ==
    ASSUME NEW n \in Nat, NEW S \in SUBSET (1..n), S # {}, NEW f, \A i \in S : f[i] \in Int
    PROVE  \E i \in S : IsFirstLowest(i, f, S)
<1>. DEFINE Upto(k) == {i \in S : i <= k}
            Bad == {k \in 0..n : Upto(k) # {} /\ ~\E i \in S : IsFirstLowest(i, f, Upto(k))}
<1>1. ASSUME Bad # {} PROVE FALSE
  <2>1. PICK k \in Bad : \A j \in Bad : k <= j
    <3>1. Bad \in SUBSET Nat
      OBVIOUS
    <3>. QED
      BY <1>1, <3>1, LeastNumber
  <2>2. k \in 0..n /\ Upto(k) # {} /\ ~\E i \in S : IsFirstLowest(i, f, Upto(k))
    BY <2>1
  <2>3. k \in 1..n /\ k - 1 \in 0..n /\ ~(k <= k - 1)
    <3>1. PICK i \in S : i <= k
      BY <2>2
    <3>2. i \in 1..n /\ k \in 0..n /\ i <= k
      BY <2>2, <3>1
    <3>. HIDE DEF Bad
    <3>. QED
      BY <3>2
  <2>4. k - 1 \notin Bad
    BY <2>1, <2>3
  <2>5. CASE k \notin S
    <3>1. Upto(k) = Upto(k - 1)
      <4>1. ASSUME NEW i \in S PROVE i <= k <=> i <= k - 1
        <5>1. i \in 1..n /\ i # k
          BY <2>5
        <5>. HIDE DEF Bad
        <5>. QED
          BY <2>3, <5>1
      <4>. HIDE DEF Bad
      <4>. QED
        BY <4>1
    <3>. QED
      BY <2>2, <2>3, <2>4, <3>1
  <2>6. CASE k \in S /\ Upto(k - 1) = {}
    <3>1. Upto(k) = {k}
      <4>1. ASSUME NEW i \in S, i <= k, i # k PROVE FALSE
        <5>1. i <= k - 1
          BY <2>3, <4>1
        <5>. QED
          BY <2>6, <5>1
      <4>2. k <= k
        BY <2>3
      <4>. QED
        BY <2>6, <4>1, <4>2
    <3>2. IsFirstLowest(k, f, {k})
      BY <2>3, <2>6 DEF IsFirstLowest
    <3>. QED
      BY <2>2, <2>6, <3>1, <3>2
  <2>7. CASE k \in S /\ Upto(k - 1) # {}
    <3>1. PICK i \in S : IsFirstLowest(i, f, Upto(k - 1))
      BY <2>3, <2>4, <2>7
    <3>2. /\ i \in S /\ i < k /\ f[i] \in Int /\ f[k] \in Int
          /\ \A j \in Upto(k - 1) : f[i] <= f[j] /\ (j < i => f[i] < f[j])
      <4>1. i \in Upto(k - 1)
        BY <3>1 DEF IsFirstLowest
      <4>2. i < k
        BY <2>3, <4>1
      <4>. QED
        BY <2>7, <3>1, <4>2 DEF IsFirstLowest
    <3>3. \A j \in Upto(k) : j = k \/ j \in Upto(k - 1)
      BY <2>3
    <3>4. CASE f[k] < f[i]
      <4>1. ASSUME NEW j \in Upto(k) PROVE f[k] <= f[j] /\ (j < k => f[k] < f[j])
        <5>1. f[j] \in Int /\ j \in Int /\ k \in Int
          BY <2>3
        <5>2. CASE j = k
          BY <5>1, <5>2
        <5>3. CASE j \in Upto(k - 1)
          <6>1. f[i] <= f[j]
            BY <3>2, <5>3
          <6>. HIDE DEF Upto
          <6>. QED
            BY <3>2, <3>4, <5>1, <6>1
        <5>. QED
          BY <3>3, <5>2, <5>3
      <4>2. k \in Upto(k)
        BY <2>3, <2>7
      <4>3. IsFirstLowest(k, f, Upto(k))
        BY <4>1, <4>2 DEF IsFirstLowest
      <4>. QED
        BY <2>2, <2>7, <4>3
    <3>5. CASE ~(f[k] < f[i])
      <4>1. ASSUME NEW j \in Upto(k) PROVE f[i] <= f[j] /\ (j < i => f[i] < f[j])
        <5>2. CASE j = k
          <6>. HIDE DEF Upto
          <6>. QED
            BY <2>3, <3>2, <3>5, <5>2
        <5>3. CASE j \in Upto(k - 1)
          BY <3>2, <5>3
        <5>. QED
          BY <3>3, <5>2, <5>3
      <4>2. i \in Upto(k)
        BY <2>3, <3>2
      <4>3. IsFirstLowest(i, f, Upto(k))
        BY <4>1, <4>2 DEF IsFirstLowest
      <4>. QED
        BY <2>2, <3>2, <4>3
    <3>. QED
      BY <3>4, <3>5
  <2>. QED
    BY <2>5, <2>6, <2>7
<1>2. Upto(n) = S
  <2>1. \A i \in S : i <= n
    OBVIOUS
  <2>. QED
    BY <2>1
<1>3. n \in 0..n
  OBVIOUS
<1>. QED
  BY <1>1, <1>2, <1>3

\* ... and a last with the highest, which is the first with the lowest when counted from the end.
IsLastHighest(i, f, n) == i \in 1..n /\ \A j \in 1..n : f[j] <= f[i] /\ (j > i => f[j] < f[i])

LEMMA LastHighest ==
    ASSUME NEW n \in Nat \ {0}, NEW f, \A i \in 1..n : f[i] \in Int
    PROVE  \E i \in 1..n : IsLastHighest(i, f, n)
<1>. DEFINE e == [k \in 1..n |-> -f[n + 1 - k]]
<1>1. \A k \in 1..n : n + 1 - k \in 1..n /\ e[k] = -f[n + 1 - k] /\ e[k] \in Int
  OBVIOUS
<1>2. 1..n # {} /\ 1..n \in SUBSET (1..n)
  OBVIOUS
<1>. HIDE DEF e
<1>3. PICK k \in 1..n : IsFirstLowest(k, e, 1..n)
  BY <1>1, <1>2, FirstLowest
<1>. DEFINE i == n + 1 - k
<1>4. i \in 1..n /\ e[k] = -f[i] /\ f[i] \in Int
  BY <1>1
<1>5. ASSUME NEW j \in 1..n PROVE f[j] <= f[i] /\ (j > i => f[j] < f[i])
  <2>. DEFINE h == n + 1 - j
  <2>1. h \in 1..n /\ n + 1 - h = j /\ (j > i => h < k)
    OBVIOUS
  <2>2. e[h] = -f[j] /\ f[j] \in Int
    BY <1>1, <2>1
  <2>3. e[k] <= e[h] /\ (h < k => e[k] < e[h])
    BY <1>3, <2>1 DEF IsFirstLowest
  <2>. HIDE DEF h, i
  <2>. QED
    BY <1>4, <2>1, <2>2, <2>3
<1>. QED
  BY <1>4, <1>5 DEF IsLastHighest

\* The validator to stake with is active, and no active one has less.
LEMMA MinimumStake ==
    ASSUME NEW list \in Books, ActiveIn(list) # {}
    PROVE  /\ MinimumStakeIndex(list) \in ActiveIn(list)
           /\ \A j \in ActiveIn(list) :
                 Effective(list, MinimumStakeIndex(list)) <= Effective(list, j)
<1>. DEFINE f == [i \in DOMAIN list |-> Effective(list, i)]
            Good(i) == \A j \in ActiveIn(list) : /\ Effective(list, i) <= Effective(list, j)
                                                 /\ j < i => Effective(list, i) < Effective(list, j)
<1>1. Len(list) \in Nat /\ ActiveIn(list) \in SUBSET (1..Len(list))
  BY BookEntry DEF ActiveIn
<1>2. \A i \in ActiveIn(list) : f[i] \in Int /\ f[i] = Effective(list, i)
  BY <1>1, BookEntry
<1>. HIDE DEF f
<1>3. PICK i \in ActiveIn(list) : IsFirstLowest(i, f, ActiveIn(list))
  BY <1>1, <1>2, FirstLowest
<1>4. Good(i)
  BY <1>2, <1>3 DEF IsFirstLowest
<1>5. MinimumStakeIndex(list) = CHOOSE k \in ActiveIn(list) : Good(k)
  BY DEF MinimumStakeIndex
<1>6. MinimumStakeIndex(list) \in ActiveIn(list) /\ Good(MinimumStakeIndex(list))
  <2>. HIDE DEF Good
  <2>. QED
    BY <1>4, <1>5
<1>. QED
  BY <1>6

\* How far a validator is above its target.
ExcessOf(list, target, i) == SaturatingSub(Effective(list, i), target[i])

\* The validator to unstake from is the last that is furthest above its target.
LEMMA MaximumExcess ==
    ASSUME NEW list \in Books, list # <<>>, NEW target, \A i \in 1..Len(list) : target[i] \in Nat
    PROVE  /\ MaximumExcessIndex(list, target) \in 1..Len(list)
           /\ \A j \in 1..Len(list) :
                 /\ ExcessOf(list, target, j) \in Nat
                 /\ ExcessOf(list, target, j) <= ExcessOf(list, target, MaximumExcessIndex(list, target))
                 /\ j > MaximumExcessIndex(list, target)
                    => ExcessOf(list, target, j) < ExcessOf(list, target, MaximumExcessIndex(list, target))
<1>. DEFINE f == [i \in 1..Len(list) |-> ExcessOf(list, target, i)]
            Good(i) == \A j \in DOMAIN list :
                          /\ ExcessOf(list, target, j) <= ExcessOf(list, target, i)
                          /\ j > i => ExcessOf(list, target, j) < ExcessOf(list, target, i)
<1>1. Len(list) \in Nat \ {0} /\ DOMAIN list = 1..Len(list)
  BY DEF Books
<1>2. \A i \in 1..Len(list) : f[i] \in Int /\ f[i] = ExcessOf(list, target, i) /\ f[i] \in Nat
  BY <1>1, BookEntry DEF ExcessOf, SaturatingSub
<1>. HIDE DEF f
<1>3. PICK i \in 1..Len(list) : IsLastHighest(i, f, Len(list))
  BY <1>1, <1>2, LastHighest
<1>4. Good(i)
  BY <1>1, <1>2, <1>3 DEF IsLastHighest
<1>5. MaximumExcessIndex(list, target) = CHOOSE k \in DOMAIN list : Good(k)
  BY DEF MaximumExcessIndex, ExcessOf
<1>6. MaximumExcessIndex(list, target) \in DOMAIN list /\ Good(MaximumExcessIndex(list, target))
  <2>. HIDE DEF Good
  <2>. QED
    BY <1>1, <1>4, <1>5
<1>. QED
  BY <1>1, <1>2, <1>6

-----------------------------------------------------------------------------
(* Rounds of maintenance: what the instructions do to the stake accounts   *)

Balances == Seq(Nat \ {0})

\* What is in a sequence of balances.
LEMMA BalancesAreNatural ==
    ASSUME NEW s \in Balances
    PROVE  /\ s \in Seq(Nat) /\ Len(s) \in Nat /\ Sum(s) \in Nat
           /\ \A n \in 1..Len(s) : s[n] \in Nat \ {0}
           /\ s # <<>> => Len(s) # 0 /\ s[1] \in Nat \ {0} /\ s[1] <= Sum(s)
<1>1. s \in Seq(Nat) /\ Len(s) \in Nat /\ \A n \in 1..Len(s) : s[n] \in Nat \ {0}
  BY DEF Balances
<1>2. s # <<>> => Len(s) # 0 /\ s[1] \in Nat \ {0}
  BY DEF Balances
<1>. QED
  BY <1>1, <1>2, SumIsNatural

\* The accounts behind the first.
LEMMA WithoutFirst ==
    ASSUME NEW s \in Balances, s # <<>>
    PROVE  /\ Tail(s) \in Balances /\ Len(s) = Len(Tail(s)) + 1
           /\ IsFollowed(s, Tail(s))
           /\ Sum(s) = s[1] + Sum(Tail(s))
<1>1. Tail(s) \in Balances /\ IsFollowed(s, Tail(s))
  BY TailFollows DEF Balances
<1>2. s \in Seq(Nat) /\ Tail(s) \in Seq(Nat)
  BY <1>1, BalancesAreNatural
<1>3. Len(s) = Len(Tail(s)) + 1
  BY <1>1 DEF IsFollowed
<1>. QED
  BY <1>1, <1>2, <1>3, SumOfTail

\* The first account gets another balance.
LEMMA FirstChanges ==
    ASSUME NEW s \in Balances, s # <<>>, NEW x \in Nat \ {0}, NEW t,
           t = <<x>> \o Tail(s) \/ t = [s EXCEPT ![1] = x]
    PROVE  /\ t \in Balances /\ t # <<>> /\ t[1] = x
           /\ Sum(t) = Sum(s) - s[1] + x
<1>. DEFINE b == Tail(s)
<1>1. b \in Balances /\ Sum(s) = s[1] + Sum(b) /\ Len(s) = Len(b) + 1
  BY WithoutFirst
<1>2. t \in Balances /\ IsFollowed(t, b) /\ t[1] = x /\ t # <<>>
  <2>1. CASE t = <<x>> \o b
    BY <1>1, <2>1, PrependIsFollowed DEF Balances
  <2>2. CASE t = [s EXCEPT ![1] = x]
    BY <2>2, FirstIsFollowed DEF Balances
  <2>. QED
    BY <2>1, <2>2
<1>. HIDE DEF b
<1>3. t \in Seq(Nat) /\ b \in Seq(Nat) /\ Sum(b) \in Nat /\ s[1] \in Nat
  BY <1>1, <1>2, BalancesAreNatural
<1>4. Sum(t) = t[1] + Sum(b)
  BY <1>2, <1>3, SumOfTail
<1>. QED
  BY <1>1, <1>2, <1>3, <1>4

LEMMA FirstShrinks ==
    ASSUME NEW s \in Balances, s # <<>>, NEW x \in Nat \ {0}
    PROVE  /\ <<x>> \o Tail(s) \in Balances
           /\ Sum(<<x>> \o Tail(s)) = Sum(s) - s[1] + x
<1>. DEFINE t == <<x>> \o Tail(s)
<1>1. t = <<x>> \o Tail(s) \/ t = [s EXCEPT ![1] = x]
  OBVIOUS
<1>. HIDE DEF t
<1>2. t \in Balances /\ Sum(t) = Sum(s) - s[1] + x
  BY <1>1, FirstChanges
<1>. QED
  BY <1>2 DEF t

\* Without the first two.
LEMMA WithoutTwo ==
    ASSUME NEW s \in Balances, Len(s) > 1
    PROVE  /\ s[1] \in Nat \ {0} /\ s[2] \in Nat \ {0}
           /\ SubSeq(s, 3, Len(s)) \in Balances
           /\ Sum(s) = s[1] + (s[2] + Sum(SubSeq(s, 3, Len(s))))
<1>. DEFINE b == Tail(s)
            c == Tail(b)
            d == SubSeq(s, 3, Len(s))
<1>0. s # <<>> /\ Len(s) \in Nat /\ 1 \in 1..Len(s) /\ 2 \in 1..Len(s)
  BY BalancesAreNatural
<1>1. b \in Balances /\ Len(s) = Len(b) + 1 /\ IsFollowed(s, b) /\ Sum(s) = s[1] + Sum(b)
  BY <1>0, WithoutFirst
<1>s. s[1] \in Nat \ {0} /\ s[2] \in Nat \ {0}
  BY <1>0, BalancesAreNatural
<1>d. d \in Balances /\ Len(d) = Len(s) - 2 /\ \A n \in 1..(Len(s) - 2) : d[n] = s[n + 2]
  <2>1. \A n \in 3..Len(s) : s[n] \in Nat \ {0}
    <3>1. \A n \in 3..Len(s) : n \in 1..Len(s)
      BY <1>0
    <3>. QED
      BY <3>1, BalancesAreNatural
  <2>2. 3 \in Int /\ Len(s) \in Int
    BY <1>0
  <2>3. d \in Balances
    BY <2>1, <2>2, SubSeqProperties DEF Balances
  <2>4. Len(d) = IF 3 <= Len(s) THEN Len(s) - 3 + 1 ELSE 0
    BY <2>1, <2>2, SubSeqProperties
  <2>5. \A i \in 1..(Len(s) - 3 + 1) : d[i] = s[3 + i - 1]
    BY <2>1, <2>2, SubSeqProperties
  <2>6. Len(d) = Len(s) - 2
    <3>. HIDE DEF d
    <3>1. CASE 3 <= Len(s)
      BY <1>0, <2>4, <3>1
    <3>2. CASE Len(s) = 2
      BY <2>4, <3>2
    <3>3. \A l \in Nat : l > 1 => 3 <= l \/ l = 2
      OBVIOUS
    <3>. QED
      BY <1>0, <3>1, <3>2, <3>3
  <2>7. ASSUME NEW n \in 1..(Len(s) - 2) PROVE d[n] = s[n + 2]
    <3>1. n \in 1..(Len(s) - 3 + 1) /\ 3 + n - 1 = n + 2
      BY <1>0
    <3>2. d[n] = s[3 + n - 1]
      BY <2>5, <3>1
    <3>. QED
      BY <3>1, <3>2
  <2>. QED
    BY <2>3, <2>6, <2>7
<1>b. b # <<>> /\ b[1] = s[2]
  <2>. HIDE DEF b
  <2>1. Len(b) \in Nat /\ Len(b) # 0 /\ 1 \in 1..Len(b)
    BY <1>0, <1>1, BalancesAreNatural
  <2>2. b[1] = s[1 + 1]
    BY <1>1, <2>1 DEF IsFollowed
  <2>3. b # <<>>
    BY <2>1
  <2>. QED
    BY <2>2, <2>3
<1>. HIDE DEF b
<1>2. c \in Balances /\ Len(b) = Len(c) + 1 /\ IsFollowed(b, c) /\ Sum(b) = b[1] + Sum(c)
  BY <1>1, <1>b, WithoutFirst
<1>. HIDE DEF c, d
<1>3. c = d
  <2>1. Len(c) = Len(d) /\ Len(c) \in Nat
    <3>1. Len(c) \in Nat /\ Len(b) \in Nat /\ Len(d) = Len(s) - 2
      BY <1>1, <1>2, <1>d, BalancesAreNatural
    <3>. QED
      BY <1>0, <1>1, <1>2, <3>1
  <2>2. ASSUME NEW n \in 1..Len(c) PROVE c[n] = d[n]
    <3>1. n + 1 \in 1..Len(b) /\ n \in 1..(Len(s) - 2) /\ (n + 1) + 1 = n + 2
      <4>1. Len(b) \in Nat /\ Len(d) = Len(s) - 2
        BY <1>1, <1>d, BalancesAreNatural
      <4>. QED
        BY <1>0, <1>1, <1>2, <2>1, <4>1
    <3>2. c[n] = b[n + 1]
      BY <1>2 DEF IsFollowed
    <3>3. b[n + 1] = s[(n + 1) + 1]
      BY <1>1, <3>1 DEF IsFollowed
    <3>4. d[n] = s[n + 2]
      BY <1>d, <3>1
    <3>. QED
      BY <3>1, <3>2, <3>3, <3>4
  <2>3. c \in Seq(Nat \ {0}) /\ d \in Seq(Nat \ {0})
    BY <1>2, <1>d DEF Balances
  <2>4. \A n \in 1..Len(c) : c[n] = d[n]
    BY <2>2
  <2>. QED
    BY <2>1, <2>3, <2>4, SeqEqual
<1>. QED
  BY <1>s, <1>1, <1>2, <1>3, <1>b, <1>d DEF d

\* MergeStake: the second account is merged into the first.
LEMMA FirstTwoMerge ==
    ASSUME NEW s \in Balances, Len(s) > 1, NEW t, t = <<s[1] + s[2]>> \o SubSeq(s, 3, Len(s))
    PROVE  t \in Balances /\ t # <<>> /\ Sum(t) = Sum(s)
<1>. DEFINE d == SubSeq(s, 3, Len(s))
            x == s[1] + s[2]
<1>1. /\ s[1] \in Nat \ {0} /\ s[2] \in Nat \ {0} /\ d \in Balances
      /\ Sum(s) = s[1] + (s[2] + Sum(d))
  BY WithoutTwo
<1>2. x \in Nat \ {0} /\ t = <<x>> \o d
  BY <1>1
<1>. HIDE DEF d, x
<1>3. t \in Balances /\ IsFollowed(t, d) /\ t[1] = x /\ t # <<>>
  <2>1. /\ <<x>> \o d \in Balances /\ IsFollowed(<<x>> \o d, d)
        /\ (<<x>> \o d)[1] = x /\ <<x>> \o d # <<>>
    BY <1>1, <1>2, PrependIsFollowed, Zenon DEF Balances
  <2>. QED
    BY <1>2, <2>1, Zenon
<1>4. t \in Seq(Nat) /\ d \in Seq(Nat) /\ Sum(d) \in Nat
  BY <1>1, <1>3, BalancesAreNatural
<1>5. Sum(t) = t[1] + Sum(d)
  BY <1>3, <1>4, SumOfTail
<1>6. Sum(t) = Sum(s)
  BY <1>1, <1>3, <1>4, <1>5 DEF x
<1>. QED
  BY <1>3, <1>6

\* StakeDeposit: the last account grows, or there is a new one.
LEMMA LastGrows ==
    ASSUME NEW s \in Balances, s # <<>>, NEW x \in Nat, NEW t,
           t = [s EXCEPT ![Len(s)] = @ + x]
    PROVE  t \in Balances /\ t # <<>> /\ Sum(t) = Sum(s) + x
<1>. DEFINE y == s[Len(s)] + x
<1>1. s \in Seq(Nat) /\ Len(s) \in Nat /\ Len(s) # 0 /\ s[Len(s)] \in Nat \ {0}
  BY BalancesAreNatural
<1>2. y \in Nat \ {0} /\ t = [s EXCEPT ![Len(s)] = y]
  BY <1>1
<1>. HIDE DEF y
<1>3. PICK r \in Balances : /\ IsLonger(s, r) /\ IsLonger(t, r) /\ t \in Balances
                            /\ Len(t) = Len(s) /\ t[Len(s)] = y
  <2>. DEFINE u == [s EXCEPT ![Len(s)] = y]
  <2>1. \E r \in Balances : /\ IsLonger(s, r) /\ IsLonger(u, r) /\ u \in Balances
                            /\ Len(u) = Len(s) /\ u[Len(s)] = y
    <3>1. s \in Seq(Nat \ {0}) /\ s # <<>> /\ y \in Nat \ {0}
      BY <1>2 DEF Balances
    <3>2. \E r \in Seq(Nat \ {0}) : /\ IsLonger(s, r) /\ IsLonger(u, r) /\ u \in Seq(Nat \ {0})
                                   /\ Len(u) = Len(s) /\ u[Len(s)] = y
      BY <3>1, FrontIsShorter, Zenon
    <3>. QED
      BY <3>2, Zenon DEF Balances
  <2>2. t = u
    BY <1>2, Zenon
  <2>. HIDE DEF u
  <2>. QED
    BY <2>1, <2>2, Zenon
<1>4. t \in Seq(Nat) /\ r \in Seq(Nat) /\ t # <<>>
  BY <1>1, <1>3, BalancesAreNatural
<1>5. x \in Int /\ t[Len(s)] = s[Len(s)] + x
  BY <1>3 DEF y
<1>6. Sum(t) = Sum(s) + x
  BY <1>1, <1>3, <1>4, <1>5, SumOfLast, ZenonT(30)
<1>. QED
  BY <1>3, <1>4, <1>6

LEMMA OneIsAdded ==
    ASSUME NEW s \in Balances, NEW x \in Nat \ {0}
    PROVE  /\ Append(s, x) \in Balances /\ Append(s, x) # <<>>
           /\ Len(Append(s, x)) = Len(s) + 1 /\ Sum(Append(s, x)) = Sum(s) + x
<1>1. /\ Append(s, x) \in Balances /\ Append(s, x) # <<>> /\ Len(Append(s, x)) = Len(s) + 1
  BY DEF Balances
<1>. QED
  BY <1>1, BalancesAreNatural, SumOfAppend

\* UpdateStakeAccountBalance: the first accounts are gone.
LEMMA FirstAreGone ==
    ASSUME NEW s \in Balances, NEW k \in 0..Len(s)
    PROVE  /\ SubSeq(s, k + 1, Len(s)) \in Balances
           /\ Len(SubSeq(s, k + 1, Len(s))) = Len(s) - k
           /\ Sum(SubSeq(s, 1, k)) \in Nat /\ Sum(SubSeq(s, k + 1, Len(s))) \in Nat
           /\ Sum(s) = Sum(SubSeq(s, 1, k)) + Sum(SubSeq(s, k + 1, Len(s)))
<1>1. SubSeq(s, k + 1, Len(s)) \in Balances
  BY DEF Balances
<1>. QED
  BY <1>1, BalancesAreNatural, SumOfSubSeq

-----------------------------------------------------------------------------
(* Rounds of maintenance: the books agree with the accounts                *)

\* What RoundTypeOK says of one validator.
IsAccounted(entry, stake, new, unstaked, cool) ==
    /\ entry \in BookEntries
    /\ stake \in Balances /\ new \in BOOLEAN /\ (new => stake # <<>>)
    /\ unstaked \in Balances /\ Len(unstaked) <= MAXIMUM_UNSTAKE_ACCOUNTS
    /\ cool \in 0..Len(unstaked)
    /\ entry.unstake = Sum(unstaked)
    /\ entry.stake = Sum(stake) + Sum(unstaked)

Accounted(v) == IsAccounted(validators[v], stakes[v], fresh[v], unstakes[v], cooled[v])

AllAccounted == \A v \in Validators : Accounted(v)

LEMMA RoundIsAccounted ==
    ASSUME RoundTypeOK, NEW v \in Validators
    PROVE  Accounted(v)
<1>1. validators[v] \in BookEntries
  BY DEF RoundTypeOK, BookEntries
<1>2. stakes[v] \in Balances /\ unstakes[v] \in Balances /\ fresh[v] \in BOOLEAN
  BY DEF RoundTypeOK, Balances
<1>. QED
  BY <1>1, <1>2 DEF RoundTypeOK, Accounted, IsAccounted

\* What is known of the state as a whole.
RoundShape ==
    /\ reserve \in Nat
    /\ validators = [v \in Validators |-> validators[v]]
    /\ stakes = [v \in Validators |-> stakes[v]]
    /\ fresh = [v \in Validators |-> fresh[v]]
    /\ unstakes = [v \in Validators |-> unstakes[v]]
    /\ cooled = [v \in Validators |-> cooled[v]]
    /\ inputs \in 0..MaxInputs

LEMMA RoundHasShape == ASSUME RoundTypeOK PROVE RoundShape
BY DEF RoundTypeOK, RoundShape

LEMMA RoundFromAccounts ==
    RoundShape /\ AllAccounted => RoundTypeOK
<1>. SUFFICES ASSUME RoundShape, \A v \in Validators : Accounted(v)
              PROVE  RoundTypeOK
  BY DEF AllAccounted
<1>1. \A v \in Validators :
         /\ validators[v] \in BookEntries
         /\ stakes[v] \in Balances /\ fresh[v] \in BOOLEAN /\ (fresh[v] => stakes[v] # <<>>)
         /\ unstakes[v] \in Balances /\ Len(unstakes[v]) <= MAXIMUM_UNSTAKE_ACCOUNTS
         /\ cooled[v] \in 0..Len(unstakes[v])
         /\ validators[v].unstake = Sum(unstakes[v])
         /\ validators[v].stake = Sum(stakes[v]) + Sum(unstakes[v])
  BY DEF Accounted, IsAccounted
<1>2. validators \in [Validators -> BookEntries]
  BY <1>1 DEF RoundShape
<1>3. stakes \in [Validators -> Balances] /\ unstakes \in [Validators -> Balances]
  BY <1>1 DEF RoundShape
<1>4. fresh \in [Validators -> BOOLEAN]
  BY <1>1 DEF RoundShape
<1>5. cooled \in [Validators -> Nat]
  <2>1. \A v \in Validators : Len(unstakes[v]) \in Nat
    BY <1>1, BalancesAreNatural
  <2>2. \A v \in Validators : cooled[v] \in Nat
    BY <1>1, <2>1
  <2>. QED
    BY <2>2 DEF RoundShape
<1>. QED
  BY <1>1, <1>2, <1>3, <1>4, <1>5 DEF RoundTypeOK, RoundShape, Balances, BookEntries

\* A step that changes the books and the accounts of one validator.
LEMMA RoundStep ==
    ASSUME RoundTypeOK, NEW v \in Validators,
           NEW entry, NEW stake, NEW new, NEW unstaked, NEW cool,
           IsAccounted(entry, stake, new, unstaked, cool),
           validators' = [validators EXCEPT ![v] = entry],
           stakes' = [stakes EXCEPT ![v] = stake],
           fresh' = [fresh EXCEPT ![v] = new],
           unstakes' = [unstakes EXCEPT ![v] = unstaked],
           cooled' = [cooled EXCEPT ![v] = cool],
           reserve' \in Nat, inputs' \in 0..MaxInputs
    PROVE  RoundTypeOK'
<1>0. RoundShape
  BY RoundHasShape
<1>a. /\ validators' = [w \in Validators |-> validators'[w]] /\ validators'[v] = entry
      /\ \A w \in Validators : w # v => validators'[w] = validators[w]
  BY <1>0 DEF RoundShape
<1>b. /\ stakes' = [w \in Validators |-> stakes'[w]] /\ stakes'[v] = stake
      /\ \A w \in Validators : w # v => stakes'[w] = stakes[w]
  BY <1>0 DEF RoundShape
<1>c. /\ fresh' = [w \in Validators |-> fresh'[w]] /\ fresh'[v] = new
      /\ \A w \in Validators : w # v => fresh'[w] = fresh[w]
  BY <1>0 DEF RoundShape
<1>d. /\ unstakes' = [w \in Validators |-> unstakes'[w]] /\ unstakes'[v] = unstaked
      /\ \A w \in Validators : w # v => unstakes'[w] = unstakes[w]
  BY <1>0 DEF RoundShape
<1>e. /\ cooled' = [w \in Validators |-> cooled'[w]] /\ cooled'[v] = cool
      /\ \A w \in Validators : w # v => cooled'[w] = cooled[w]
  BY <1>0 DEF RoundShape
<1>1. RoundShape'
  BY <1>a, <1>b, <1>c, <1>d, <1>e, Zenon DEF RoundShape
<1>2. ASSUME NEW w \in Validators PROVE Accounted(w)'
  <2>1. CASE w = v
    BY <1>a, <1>b, <1>c, <1>d, <1>e, <2>1 DEF Accounted
  <2>2. CASE w # v
    <3>1. Accounted(w)
      BY RoundIsAccounted
    <3>2. /\ validators'[w] = validators[w] /\ stakes'[w] = stakes[w] /\ fresh'[w] = fresh[w]
          /\ unstakes'[w] = unstakes[w] /\ cooled'[w] = cooled[w]
      BY <1>a, <1>b, <1>c, <1>d, <1>e, <2>2, Zenon
    <3>. QED
      BY <3>1, <3>2, Zenon DEF Accounted
  <2>. QED
    BY <2>1, <2>2
<1>3. AllAccounted'
  BY <1>2 DEF AllAccounted, Validators
<1>4. (RoundShape /\ AllAccounted => RoundTypeOK)'
  BY RoundFromAccounts, PTL
<1>. QED
  BY <1>1, <1>3, <1>4

\* Writing back what is there changes nothing.
LEMMA SameRemains ==
    ASSUME NEW S, NEW f, f = [w \in S |-> f[w]], NEW v \in S
    PROVE  f = [f EXCEPT ![v] = f[v]]
OBVIOUS

LEMMA RoundKeeps ==
    ASSUME RoundTypeOK, NEW v \in Validators
    PROVE  /\ validators = [validators EXCEPT ![v] = validators[v]]
           /\ stakes = [stakes EXCEPT ![v] = stakes[v]]
           /\ fresh = [fresh EXCEPT ![v] = fresh[v]]
           /\ unstakes = [unstakes EXCEPT ![v] = unstakes[v]]
           /\ cooled = [cooled EXCEPT ![v] = cooled[v]]
<1>0. RoundShape
  BY RoundHasShape
<1>. QED
  BY <1>0, SameRemains DEF RoundShape

\* The list of validators as balance.rs sees it.
LEMMA RoundBook ==
    ASSUME RoundTypeOK
    PROVE  /\ validators \in Books /\ Len(validators) = N /\ N \in Nat \ {0}
           /\ DOMAIN validators = Validators /\ Validators = 1..N
           /\ validators # <<>>
           /\ ActiveIn(validators) = {v \in Validators : AcceptsStake(v)}
           /\ HasActive <=> ActiveIn(validators) # {}
           /\ \A v \in Validators : /\ EffectiveOf(v) = Effective(validators, v)
                                    /\ EffectiveOf(v) = Sum(stakes[v])
                                    /\ EffectiveOf(v) \in Nat
<1>1. N \in Nat \ {0} /\ Validators = 1..N
  BY RebalanceAssumption DEF Validators
<1>2. validators \in [1..N -> BookEntries]
  BY <1>1 DEF RoundTypeOK, BookEntries
<1>3. validators \in Books /\ Len(validators) = N /\ DOMAIN validators = 1..N /\ validators # <<>>
  BY <1>1, <1>2 DEF Books
<1>4. ActiveIn(validators) = {v \in Validators : AcceptsStake(v)}
  BY <1>1, <1>3 DEF ActiveIn, AcceptsStake
<1>5. ASSUME NEW v \in Validators
      PROVE  /\ EffectiveOf(v) = Effective(validators, v)
             /\ EffectiveOf(v) = Sum(stakes[v])
             /\ EffectiveOf(v) \in Nat
  <2>1. /\ stakes[v] \in Balances /\ unstakes[v] \in Balances
        /\ validators[v].unstake = Sum(unstakes[v])
        /\ validators[v].stake = Sum(stakes[v]) + Sum(unstakes[v])
    BY RoundIsAccounted DEF Accounted, IsAccounted
  <2>2. Sum(stakes[v]) \in Nat /\ Sum(unstakes[v]) \in Nat
    BY <2>1, BalancesAreNatural
  <2>3. EffectiveOf(v) = validators[v].stake - validators[v].unstake
    BY DEF EffectiveOf, compute_effective_stake_balance
  <2>4. EffectiveOf(v) = Sum(stakes[v])
    BY <2>1, <2>2, <2>3
  <2>. QED
    BY <2>2, <2>4 DEF EffectiveOf, Effective
<1>. QED
  BY <1>1, <1>3, <1>4, <1>5 DEF HasActive

\* The targets.
LEMMA RoundTarget ==
    ASSUME RoundTypeOK, HasActive
    PROVE  /\ Target \in Seq(Nat) /\ Len(Target) = N
           /\ \A v \in Validators : Target[v] \in Nat
           /\ Sum(Target) = Total(reserve, validators)
           /\ \A v \in Validators : ~AcceptsStake(v) => Target[v] = 0
           /\ \A v, w \in Validators :
                 AcceptsStake(v) /\ AcceptsStake(w) =>
                    /\ Target[v] - Target[w] \in {-1, 0, 1}
                    /\ v <= w => Target[w] <= Target[v]
<1>1. /\ validators \in Books /\ Len(validators) = N /\ Validators = 1..N /\ ActiveIn(validators) # {}
      /\ N \in Nat
  BY RoundBook
<1>2. reserve \in Nat
  BY DEF RoundTypeOK
<1>3. /\ Target \in Seq(Nat) /\ Len(Target) = Len(validators)
      /\ Sum(Target) = Total(reserve, validators)
      /\ \A i \in 1..Len(validators) : ~validators[i].active => Target[i] = 0
      /\ \A i, j \in 1..Len(validators) :
            validators[i].active /\ validators[j].active =>
               /\ Target[i] - Target[j] \in {-1, 0, 1}
               /\ i <= j => Target[j] <= Target[i]
  BY <1>1, <1>2, TargetIsSound DEF Target
<1>4. \A v \in 1..N : Target[v] \in Nat
  BY <1>1, <1>3
<1>. QED
  BY <1>1, <1>3, <1>4 DEF AcceptsStake

\* The validator that is staked with.
LEMMA RoundMinimum ==
    ASSUME RoundTypeOK, NEW d \in DueStake
    PROVE  /\ d.index \in Validators /\ AcceptsStake(d.index)
           /\ \A w \in Validators : AcceptsStake(w) => EffectiveOf(d.index) <= EffectiveOf(w)
           /\ d.amount \in Nat /\ d.amount >= MINIMUM_STAKE_ACCOUNT_BALANCE /\ d.amount <= reserve
<1>. DEFINE i == MinimumStakeIndex(validators)
            below == SaturatingSub(Target[i], Effective(validators, i))
<1>1. HasActive /\ d = [index |-> i, amount |-> AmountToDeposit(below)] /\ d.amount <= reserve
  BY DEF DueStake, get_minimum_stake_validator_index_amount
<1>2. validators \in Books /\ ActiveIn(validators) # {} /\ ActiveIn(validators) = {v \in Validators : AcceptsStake(v)}
  BY <1>1, RoundBook
<1>3. i \in ActiveIn(validators) /\ \A j \in ActiveIn(validators) : Effective(validators, i) <= Effective(validators, j)
  BY <1>2, MinimumStake
<1>4. i \in Validators /\ AcceptsStake(i)
  BY <1>2, <1>3
<1>5. \A w \in Validators : EffectiveOf(w) = Effective(validators, w) /\ EffectiveOf(w) \in Nat
  BY RoundBook
<1>6. Target[i] \in Nat /\ Effective(validators, i) \in Nat
  BY <1>1, <1>4, <1>5, RoundTarget
<1>7. below \in Nat
  <2>. HIDE DEF i
  <2>. QED
    BY <1>6 DEF SaturatingSub
<1>8. AmountToDeposit(below) \in Nat /\ AmountToDeposit(below) >= MINIMUM_STAKE_ACCOUNT_BALANCE
  <2>1. reserve \in Nat /\ MINIMUM_STAKE_ACCOUNT_BALANCE \in Nat
    BY BalanceAssumption DEF RoundTypeOK
  <2>. HIDE DEF below
  <2>. QED
    BY <1>7, <2>1 DEF AmountToDeposit, MaxOf, MinOf
<1>. HIDE DEF i, below
<1>9. d.index = i /\ d.amount = AmountToDeposit(below)
  BY <1>1
<1>10. \A w \in Validators : AcceptsStake(w) => EffectiveOf(i) <= EffectiveOf(w)
  BY <1>2, <1>3, <1>4, <1>5
<1>. QED
  BY <1>1, <1>4, <1>8, <1>9, <1>10

\* The validator that is unstaked from to restore the balance.
LEMMA RoundMaximum ==
    ASSUME RoundTypeOK, NEW d \in DueUnstakeActive
    PROVE  /\ d.index \in Validators /\ stakes[d.index] # <<>>
           /\ d.amount \in Nat \ {0}
           /\ stakes[d.index][1] - d.amount >= MINIMUM_STAKE_ACCOUNT_BALANCE
<1>. DEFINE i == MaximumExcessIndex(validators, Target)
            amount == SaturatingSub(Effective(validators, i), Target[i])
            most == MinOf(amount, MaximumUnstake(stakes[i][1]))
<1>1. /\ HasActive /\ stakes[i] # <<>>
      /\ d = [index |-> i, amount |-> most]
      /\ d.amount >= MINIMUM_STAKE_ACCOUNT_BALANCE
  <2>1. PICK u \in get_unstake_validator_index(validators, Target, UNBALANCE_THRESHOLD) :
           /\ HasActive /\ stakes[u.index] # <<>>
           /\ d = [index |-> u.index,
                   amount |-> MinOf(u.amount, MaximumUnstake(stakes[u.index][1]))]
           /\ d.amount >= MINIMUM_STAKE_ACCOUNT_BALANCE
    BY DEF DueUnstakeActive
  <2>2. u = [index |-> i, amount |-> amount]
    BY <2>1 DEF get_unstake_validator_index
  <2>. HIDE DEF i, amount
  <2>3. u.index = i /\ u.amount = amount
    BY <2>2
  <2>. QED
    BY <2>1, <2>3
<1>2. i \in Validators
  <2>1. validators \in Books /\ validators # <<>> /\ Len(validators) = N /\ Validators = 1..N
    BY RoundBook
  <2>2. \A v \in 1..N : Target[v] \in Nat
    BY <1>1, <2>1, RoundTarget
  <2>. QED
    BY <2>1, <2>2, MaximumExcess
<1>3. Target[i] \in Nat /\ Effective(validators, i) \in Nat
  BY <1>1, <1>2, RoundTarget, RoundBook
<1>4. stakes[i] \in Balances
  BY <1>2, RoundIsAccounted DEF Accounted, IsAccounted
<1>5. stakes[i][1] \in Nat
  BY <1>1, <1>4, BalancesAreNatural
<1>m. MINIMUM_STAKE_ACCOUNT_BALANCE \in Nat \ {0}
  BY BalanceAssumption
<1>. HIDE DEF i
<1>6. amount \in Nat
  BY <1>3 DEF SaturatingSub
<1>. HIDE DEF amount
<1>7. most \in Int /\ stakes[i][1] - most >= MINIMUM_STAKE_ACCOUNT_BALANCE
  BY <1>5, <1>6, <1>m DEF MinOf, MaximumUnstake
<1>. HIDE DEF most
<1>8. d.index = i /\ d.amount = most
  BY <1>1
<1>9. d.amount \in Nat \ {0}
  BY <1>1, <1>7, <1>8, <1>m
<1>. QED
  BY <1>1, <1>2, <1>7, <1>8, <1>9

\* What is due first concerns a validator.
LEMMA FirstIsMember == ASSUME NEW S, NEW v \in First(S) PROVE v \in S
BY DEF First

LEMMA MergeKeepsBooks ==
    ASSUME RoundTypeOK, NEW v \in DueMerge, MergeStake(v)
    PROVE  RoundTypeOK'
<1>. DEFINE s == stakes[v]
            t == <<s[1] + s[2]>> \o SubSeq(s, 3, Len(s))
<1>1. v \in Validators /\ Len(s) > 1
  BY FirstIsMember DEF DueMerge
<1>2. IsAccounted(validators[v], s, fresh[v], unstakes[v], cooled[v])
  BY <1>1, RoundIsAccounted DEF Accounted
<1>3. t \in Balances /\ t # <<>> /\ Sum(t) = Sum(s)
  <2>1. s \in Balances
    BY <1>2 DEF IsAccounted
  <2>. HIDE DEF s
  <2>. QED
    BY <1>1, <2>1, FirstTwoMerge
<1>4. stakes' = [stakes EXCEPT ![v] = t]
  BY DEF MergeStake
<1>. HIDE DEF t, s
<1>5. IsAccounted(validators[v], t, fresh[v], unstakes[v], cooled[v])
  BY <1>2, <1>3 DEF IsAccounted
<1>6. /\ validators' = [validators EXCEPT ![v] = validators[v]]
      /\ fresh' = [fresh EXCEPT ![v] = fresh[v]]
      /\ unstakes' = [unstakes EXCEPT ![v] = unstakes[v]]
      /\ cooled' = [cooled EXCEPT ![v] = cooled[v]]
      /\ reserve' \in Nat /\ inputs' \in 0..MaxInputs
  BY <1>1, RoundKeeps DEF MergeStake, RoundTypeOK
<1>. QED
  BY <1>1, <1>4, <1>5, <1>6, RoundStep

\* A record with another number.
LEMMA EntryChanges ==
    ASSUME NEW e \in BookEntries, NEW n \in Nat, NEW k \in Nat
    PROVE  /\ [e EXCEPT !.unstake = n] \in BookEntries
           /\ [e EXCEPT !.unstake = n].unstake = n /\ [e EXCEPT !.unstake = n].stake = e.stake
           /\ [e EXCEPT !.stake = n] \in BookEntries
           /\ [e EXCEPT !.stake = n].stake = n /\ [e EXCEPT !.stake = n].unstake = e.unstake
           /\ [e EXCEPT !.unstake = n, !.stake = k] \in BookEntries
           /\ [e EXCEPT !.unstake = n, !.stake = k].unstake = n
           /\ [e EXCEPT !.unstake = n, !.stake = k].stake = k
           /\ [e EXCEPT !.active = ~@] \in BookEntries
           /\ [e EXCEPT !.active = ~@].stake = e.stake
           /\ [e EXCEPT !.active = ~@].unstake = e.unstake
BY DEF BookEntries

LEMMA UnstakeKeepsBooks ==
    ASSUME RoundTypeOK, NEW v \in Validators, NEW amount \in Nat \ {0}, Unstake(v, amount)
    PROVE  RoundTypeOK'
<1>. DEFINE s == stakes[v]
            e == validators[v]
            u == unstakes[v]
            t == IF AcceptsStake(v) THEN <<s[1] - amount>> \o Tail(s) ELSE Tail(s)
            f == [e EXCEPT !.unstake = e.unstake + amount]
            w == Append(u, amount)
            n == fresh[v] /\ t # <<>>
<1>1. IsAccounted(e, s, fresh[v], u, cooled[v])
  BY RoundIsAccounted DEF Accounted
<1>2. /\ s # <<>> /\ Len(u) < MAXIMUM_UNSTAKE_ACCOUNTS
      /\ IF AcceptsStake(v) THEN s[1] - amount >= MINIMUM_STAKE_ACCOUNT_BALANCE ELSE s[1] = amount
  BY DEF Unstake, UnstakeIsAccepted
<1>3. /\ stakes' = [stakes EXCEPT ![v] = t] /\ unstakes' = [unstakes EXCEPT ![v] = w]
      /\ validators' = [validators EXCEPT ![v] = f]
      /\ reserve' \in Nat /\ cooled' = [cooled EXCEPT ![v] = cooled[v]] /\ inputs' \in 0..MaxInputs
  BY RoundKeeps DEF Unstake, RoundTypeOK
<1>4. fresh' = [fresh EXCEPT ![v] = n]
  <2>1. stakes'[v] = t
    BY <1>3, RoundHasShape DEF RoundShape
  <2>. HIDE DEF t
  <2>. QED
    BY <2>1 DEF Unstake
<1>a. /\ s \in Balances /\ u \in Balances /\ e \in BookEntries
      /\ e.unstake = Sum(u) /\ e.stake = Sum(s) + Sum(u) /\ fresh[v] \in BOOLEAN
      /\ cooled[v] \in 0..Len(u)
  BY <1>1 DEF IsAccounted
<1>m. MINIMUM_STAKE_ACCOUNT_BALANCE \in Nat \ {0} /\ MAXIMUM_UNSTAKE_ACCOUNTS \in Nat
  BY BalanceAssumption
<1>b. /\ Sum(s) \in Nat /\ Sum(u) \in Nat /\ s[1] \in Nat /\ Len(u) \in Nat
  BY <1>2, <1>a, BalancesAreNatural
<1>5. t \in Balances /\ Sum(t) = Sum(s) - amount
  <2>1. CASE AcceptsStake(v)
    <3>1. s[1] - amount \in Nat \ {0}
      BY <1>2, <1>b, <1>m, <2>1
    <3>2. t = <<s[1] - amount>> \o Tail(s)
      BY <2>1
    <3>. HIDE DEF t, s
    <3>. DEFINE x == s[1] - amount
    <3>3. x \in Nat \ {0} /\ t = <<x>> \o Tail(s)
      BY <3>1, <3>2
    <3>. HIDE DEF x
    <3>4. t \in Balances /\ Sum(t) = Sum(s) - s[1] + x
      <4>1. s \in Balances /\ s # <<>>
        BY <1>2, <1>a
      <4>. QED
        BY <3>3, <4>1, FirstShrinks
    <3>. QED
      BY <1>b, <3>4 DEF x
  <2>2. CASE ~AcceptsStake(v)
    <3>1. t = Tail(s) /\ s[1] = amount
      BY <1>2, <2>2
    <3>. HIDE DEF t, s
    <3>2. t \in Balances /\ Sum(s) = s[1] + Sum(t)
      BY <1>2, <1>a, <3>1, WithoutFirst
    <3>3. Sum(t) \in Nat
      BY <3>2, BalancesAreNatural
    <3>. QED
      BY <1>b, <3>1, <3>2, <3>3
  <2>. QED
    BY <2>1, <2>2
<1>. HIDE DEF t, s, u
<1>6. w \in Balances /\ Len(w) = Len(u) + 1 /\ Sum(w) = Sum(u) + amount
  BY <1>a, OneIsAdded
<1>. HIDE DEF w
<1>7. f \in BookEntries /\ f.unstake = Sum(u) + amount /\ f.stake = Sum(s) + Sum(u)
  <2>. HIDE DEF e
  <2>. DEFINE k == e.unstake + amount
  <2>1. k \in Nat /\ k = Sum(u) + amount /\ f = [e EXCEPT !.unstake = k]
    BY <1>a, <1>b
  <2>. HIDE DEF k, f
  <2>2. f \in BookEntries /\ f.unstake = k /\ f.stake = e.stake
    BY <1>a, <2>1 DEF BookEntries
  <2>. QED
    BY <1>a, <2>1, <2>2
<1>. HIDE DEF f, e
<1>8. f.unstake = Sum(w) /\ f.stake = Sum(t) + Sum(w)
  <2>1. Sum(t) \in Nat /\ Sum(w) \in Nat
    BY <1>5, <1>6, BalancesAreNatural
  <2>. QED
    BY <1>b, <1>5, <1>6, <1>7, <2>1
<1>9. Len(w) <= MAXIMUM_UNSTAKE_ACCOUNTS /\ cooled[v] \in 0..Len(w)
  BY <1>2, <1>6, <1>a, <1>b, <1>m
<1>10. n \in BOOLEAN /\ (n => t # <<>>)
  BY <1>a
<1>. HIDE DEF n
<1>11. IsAccounted(f, t, n, w, cooled[v])
  BY <1>5, <1>6, <1>7, <1>8, <1>9, <1>10 DEF IsAccounted
<1>. QED
  BY <1>3, <1>4, <1>11, RoundStep

LEMMA UpdateKeepsBooks ==
    ASSUME RoundTypeOK, NEW v \in Validators, UpdateStakeAccountBalance(v)
    PROVE  RoundTypeOK'
<1>. DEFINE s == stakes[v]
            e == validators[v]
            u == unstakes[v]
            c == cooled[v]
            removed == Sum(SubSeq(u, 1, c))
            w == SubSeq(u, c + 1, Len(u))
            f == [e EXCEPT !.unstake = e.unstake - removed, !.stake = e.stake - removed]
<1>1. IsAccounted(e, s, fresh[v], u, c)
  BY RoundIsAccounted DEF Accounted
<1>3. /\ stakes' = [stakes EXCEPT ![v] = s] /\ unstakes' = [unstakes EXCEPT ![v] = w]
      /\ validators' = [validators EXCEPT ![v] = f]
      /\ fresh' = [fresh EXCEPT ![v] = fresh[v]]
      /\ reserve' = reserve + removed /\ cooled' = [cooled EXCEPT ![v] = 0] /\ inputs' \in 0..MaxInputs
  BY RoundKeeps, ZenonT(30) DEF UpdateStakeAccountBalance, RoundTypeOK
<1>a. /\ s \in Balances /\ u \in Balances /\ e \in BookEntries /\ c \in 0..Len(u)
      /\ e.unstake = Sum(u) /\ e.stake = Sum(s) + Sum(u) /\ Len(u) <= MAXIMUM_UNSTAKE_ACCOUNTS
  BY <1>1 DEF IsAccounted
<1>b. /\ Sum(s) \in Nat /\ Sum(u) \in Nat /\ Len(u) \in Nat
  BY <1>a, BalancesAreNatural
<1>. HIDE DEF c, u, s
<1>4. w \in Balances /\ Len(w) = Len(u) - c /\ removed \in Nat /\ Sum(w) \in Nat /\ Sum(u) = removed + Sum(w)
  BY <1>a, FirstAreGone
<1>5. reserve' \in Nat
  BY <1>3, <1>4, SMTT(30) DEF RoundTypeOK
<1>. HIDE DEF w, removed
<1>6. f \in BookEntries /\ f.unstake = Sum(w) /\ f.stake = Sum(s) + Sum(w)
  <2>. HIDE DEF e
  <2>. DEFINE k == e.unstake - removed
              l == e.stake - removed
  <2>1. k \in Nat /\ l \in Nat /\ k = Sum(w) /\ l = Sum(s) + Sum(w)
    BY <1>a, <1>b, <1>4
  <2>2. f = [e EXCEPT !.unstake = k, !.stake = l]
    OBVIOUS
  <2>. HIDE DEF k, l, f
  <2>3. f \in BookEntries /\ f.unstake = k /\ f.stake = l
    BY <1>a, <2>1, <2>2 DEF BookEntries
  <2>. QED
    BY <2>1, <2>3
<1>7. Len(w) <= MAXIMUM_UNSTAKE_ACCOUNTS /\ 0 \in 0..Len(w)
  BY <1>4, <1>a, <1>b, BalanceAssumption
<1>. HIDE DEF f, e
<1>8. IsAccounted(f, s, fresh[v], w, 0)
  BY <1>1, <1>4, <1>6, <1>7 DEF IsAccounted
<1>. QED
  BY <1>3, <1>5, <1>8, RoundStep

LEMMA StakeKeepsBooks ==
    ASSUME RoundTypeOK, NEW v \in Validators, NEW amount \in Nat, StakeDeposit(v, amount)
    PROVE  RoundTypeOK'
<1>. DEFINE s == stakes[v]
            e == validators[v]
            t == IF fresh[v] THEN AddToLast(s, amount) ELSE Append(s, amount)
            f == [e EXCEPT !.stake = e.stake + amount]
<1>1. IsAccounted(e, s, fresh[v], unstakes[v], cooled[v])
  BY RoundIsAccounted DEF Accounted
<1>2. amount \in Nat \ {0} /\ amount <= reserve
  BY BalanceAssumption DEF StakeDeposit, StakeIsAccepted
<1>3. /\ stakes' = [stakes EXCEPT ![v] = t] /\ unstakes' = [unstakes EXCEPT ![v] = unstakes[v]]
      /\ validators' = [validators EXCEPT ![v] = f]
      /\ fresh' = [fresh EXCEPT ![v] = TRUE]
      /\ cooled' = [cooled EXCEPT ![v] = cooled[v]] /\ inputs' \in 0..MaxInputs
  <2>1. /\ stakes' = [stakes EXCEPT ![v] = t] /\ unstakes' = unstakes
        /\ validators' = [validators EXCEPT ![v] = f] /\ fresh' = [fresh EXCEPT ![v] = TRUE]
        /\ cooled' = cooled /\ inputs' = inputs
    BY DEF StakeDeposit
  <2>. HIDE DEF t, f
  <2>2. inputs \in 0..MaxInputs
    BY DEF RoundTypeOK
  <2>. QED
    BY <2>1, <2>2, RoundKeeps
<1>r. reserve' \in Nat
  BY <1>2 DEF StakeDeposit, RoundTypeOK
<1>a. /\ s \in Balances /\ unstakes[v] \in Balances /\ e \in BookEntries /\ fresh[v] \in BOOLEAN
      /\ e.unstake = Sum(unstakes[v]) /\ e.stake = Sum(s) + Sum(unstakes[v])
      /\ (fresh[v] => s # <<>>)
  BY <1>1 DEF IsAccounted
<1>b. /\ Sum(s) \in Nat /\ Sum(unstakes[v]) \in Nat
  BY <1>a, BalancesAreNatural
<1>. HIDE DEF s
<1>4. t \in Balances /\ t # <<>> /\ Sum(t) = Sum(s) + amount
  <2>1. CASE fresh[v]
    <3>1. t = AddToLast(s, amount) /\ s # <<>>
      BY <1>a, <2>1
    <3>. HIDE DEF t
    <3>. QED
      BY <1>a, <3>1, LastGrows DEF AddToLast
  <2>2. CASE ~fresh[v]
    <3>1. t = Append(s, amount)
      BY <2>2
    <3>. HIDE DEF t
    <3>. QED
      BY <1>2, <1>a, <3>1, OneIsAdded
  <2>. QED
    BY <2>1, <2>2
<1>. HIDE DEF t
<1>5. f \in BookEntries /\ f.unstake = Sum(unstakes[v]) /\ f.stake = Sum(t) + Sum(unstakes[v])
  <2>1. e.stake + amount \in Nat /\ e.stake + amount = Sum(t) + Sum(unstakes[v])
    BY <1>4, <1>a, <1>b
  <2>. HIDE DEF e
  <2>. QED
    BY <1>a, <2>1, EntryChanges
<1>. HIDE DEF f, e
<1>6. IsAccounted(f, t, TRUE, unstakes[v], cooled[v])
  BY <1>1, <1>4, <1>5 DEF IsAccounted
<1>. QED
  BY <1>3, <1>6, <1>r, RoundStep

LEMMA WithdrawKeepsBooks ==
    ASSUME RoundTypeOK, NEW v \in Validators, NEW amount \in Nat, Withdraw(v, amount)
    PROVE  RoundTypeOK'
<1>. DEFINE s == stakes[v]
            e == validators[v]
            t == [s EXCEPT ![1] = s[1] - amount]
            f == [e EXCEPT !.stake = e.stake - amount]
<1>1. IsAccounted(e, s, fresh[v], unstakes[v], cooled[v])
  BY RoundIsAccounted DEF Accounted
<1>2. s # <<>> /\ s[1] - amount >= MINIMUM_STAKE_ACCOUNT_BALANCE
  BY DEF Withdraw
<1>3. /\ stakes' = [stakes EXCEPT ![v] = t] /\ unstakes' = [unstakes EXCEPT ![v] = unstakes[v]]
      /\ validators' = [validators EXCEPT ![v] = f]
      /\ fresh' = [fresh EXCEPT ![v] = fresh[v]]
      /\ cooled' = [cooled EXCEPT ![v] = cooled[v]] /\ reserve' \in Nat
  BY RoundKeeps DEF Withdraw, RoundTypeOK
<1>i. inputs' \in 0..MaxInputs
  BY RebalanceAssumption, SMTT(30) DEF Withdraw, IsInput, RoundTypeOK
<1>a. /\ s \in Balances /\ unstakes[v] \in Balances /\ e \in BookEntries /\ fresh[v] \in BOOLEAN
      /\ e.unstake = Sum(unstakes[v]) /\ e.stake = Sum(s) + Sum(unstakes[v])
  BY <1>1 DEF IsAccounted
<1>b. Sum(s) \in Nat /\ Sum(unstakes[v]) \in Nat /\ s[1] \in Nat
  BY <1>2, <1>a, BalancesAreNatural
<1>. HIDE DEF s
<1>x. s[1] - amount \in Nat \ {0}
  BY <1>2, <1>b, BalanceAssumption
<1>4. t \in Balances /\ t # <<>> /\ Sum(t) = Sum(s) - s[1] + (s[1] - amount)
  <2>. DEFINE x == s[1] - amount
  <2>1. x \in Nat \ {0} /\ t = [s EXCEPT ![1] = x]
    BY <1>x
  <2>. HIDE DEF x, t
  <2>2. t \in Balances /\ t # <<>> /\ Sum(t) = Sum(s) - s[1] + x
    BY <1>2, <1>a, <2>1, FirstChanges, ZenonT(60)
  <2>. QED
    BY <2>2 DEF x
<1>. HIDE DEF t
<1>5. f \in BookEntries /\ f.unstake = Sum(unstakes[v]) /\ f.stake = Sum(t) + Sum(unstakes[v])
  <2>1. Sum(t) \in Nat
    BY <1>4, BalancesAreNatural
  <2>2. e.stake - amount \in Nat /\ e.stake - amount = Sum(t) + Sum(unstakes[v])
    BY <1>4, <1>a, <1>b, <2>1
  <2>. HIDE DEF e
  <2>. QED
    BY <1>a, <2>2, EntryChanges
<1>. HIDE DEF f, e
<1>6. IsAccounted(f, t, fresh[v], unstakes[v], cooled[v])
  BY <1>1, <1>4, <1>5 DEF IsAccounted
<1>. QED
  BY <1>3, <1>6, <1>i, RoundStep

LEMMA SwitchKeepsBooks ==
    ASSUME RoundTypeOK, NEW v \in Validators, SwitchStatus(v)
    PROVE  RoundTypeOK'
<1>. DEFINE e == validators[v]
            f == [e EXCEPT !.active = ~@]
<1>1. IsAccounted(e, stakes[v], fresh[v], unstakes[v], cooled[v])
  BY RoundIsAccounted DEF Accounted
<1>3. /\ stakes' = [stakes EXCEPT ![v] = stakes[v]]
      /\ unstakes' = [unstakes EXCEPT ![v] = unstakes[v]]
      /\ validators' = [validators EXCEPT ![v] = f]
      /\ fresh' = [fresh EXCEPT ![v] = fresh[v]]
      /\ cooled' = [cooled EXCEPT ![v] = cooled[v]] /\ reserve' \in Nat
  BY RoundKeeps DEF SwitchStatus, RoundTypeOK
<1>i. inputs' \in 0..MaxInputs
  BY RebalanceAssumption DEF SwitchStatus, IsInput, RoundTypeOK
<1>5. f \in BookEntries /\ f.unstake = e.unstake /\ f.stake = e.stake
  <2>1. e \in BookEntries
    BY <1>1 DEF IsAccounted
  <2>. HIDE DEF e
  <2>. QED
    BY <2>1, EntryChanges
<1>. HIDE DEF f, e
<1>6. IsAccounted(f, stakes[v], fresh[v], unstakes[v], cooled[v])
  BY <1>1, <1>5 DEF IsAccounted
<1>. QED
  BY <1>3, <1>6, <1>i, RoundStep

LEMMA RoundInitIsAccounted == RoundInit => RoundTypeOK
<1>. SUFFICES ASSUME RoundInit PROVE RoundTypeOK
  OBVIOUS
<1>1. RoundShape
  BY RebalanceAssumption DEF RoundInit, RoundShape
<1>2. ASSUME NEW v \in Validators PROVE Accounted(v)
  <2>. DEFINE none == <<>>
              e == [active |-> TRUE, stake |-> 0, unstake |-> 0]
  <2>1. none \in Balances /\ Len(none) = 0
    BY DEF Balances
  <2>2. Sum(none) = 0
    <3>1. none \in Seq(Nat) /\ none = <<>>
      OBVIOUS
    <3>. HIDE DEF none
    <3>. QED
      BY <3>1, SumIsNatural
  <2>3. e \in BookEntries /\ e.stake = 0 /\ e.unstake = 0
    BY DEF BookEntries
  <2>4. /\ validators[v] = e /\ stakes[v] = none /\ fresh[v] = FALSE /\ unstakes[v] = none
        /\ cooled[v] = 0
    BY DEF RoundInit
  <2>5. 0 <= MAXIMUM_UNSTAKE_ACCOUNTS
    BY BalanceAssumption
  <2>. HIDE DEF none, e
  <2>6. IsAccounted(e, none, FALSE, none, 0)
    BY <2>1, <2>2, <2>3, <2>5 DEF IsAccounted
  <2>. QED
    BY <2>4, <2>6 DEF Accounted
<1>. QED
  BY <1>1, <1>2, RoundFromAccounts DEF AllAccounted

\* Every step keeps the books in agreement with the accounts.
LEMMA RoundStepIsAccounted == RoundTypeOK /\ [RoundNext]_roundVars => RoundTypeOK'
<1>. SUFFICES ASSUME RoundTypeOK, [RoundNext]_roundVars
              PROVE  RoundTypeOK'
  OBVIOUS
<1>1. CASE PerformMaintenance
  <2>1. ASSUME NEW v \in DueMerge, MergeStake(v) PROVE RoundTypeOK'
    BY <2>1, MergeKeepsBooks
  <2>2. ASSUME NEW v \in DueUnstakeInactive, Unstake(v, stakes[v][1]) PROVE RoundTypeOK'
    <3>1. v \in Validators /\ stakes[v] # <<>>
      BY FirstIsMember DEF DueUnstakeInactive
    <3>2. stakes[v] \in Balances
      BY <3>1, RoundIsAccounted DEF Accounted, IsAccounted
    <3>3. stakes[v][1] \in Nat \ {0}
      BY <3>1, <3>2, BalancesAreNatural
    <3>. QED
      BY <2>2, <3>1, <3>3, UnstakeKeepsBooks
  <2>3. ASSUME NEW v \in DueUpdate, UpdateStakeAccountBalance(v) PROVE RoundTypeOK'
    <3>1. v \in Validators
      BY FirstIsMember DEF DueUpdate
    <3>. QED
      BY <2>3, <3>1, UpdateKeepsBooks
  <2>4. ASSUME NEW d \in DueStake, StakeDeposit(d.index, d.amount) PROVE RoundTypeOK'
    BY <2>4, RoundMinimum, StakeKeepsBooks
  <2>5. ASSUME NEW d \in DueUnstakeActive, Unstake(d.index, d.amount) PROVE RoundTypeOK'
    BY <2>5, RoundMaximum, UnstakeKeepsBooks
  <2>. QED
    BY <1>1, <2>1, <2>2, <2>3, <2>4, <2>5 DEF PerformMaintenance
<1>2. CASE NextEpoch
  <2>0. RoundShape
    BY RoundHasShape
  <2>1. /\ reserve' = reserve /\ validators' = validators /\ stakes' = stakes
        /\ unstakes' = unstakes /\ inputs' = inputs
        /\ fresh' = [v \in Validators |-> FALSE]
        /\ cooled' = [v \in Validators |-> Len(unstakes[v])]
    BY <1>2 DEF NextEpoch
  <2>2. RoundShape'
    BY <2>0, <2>1 DEF RoundShape, Validators
  <2>3. ASSUME NEW v \in Validators PROVE Accounted(v)'
    <3>1. IsAccounted(validators[v], stakes[v], fresh[v], unstakes[v], cooled[v])
      BY RoundIsAccounted DEF Accounted
    <3>2. Len(unstakes[v]) \in 0..Len(unstakes[v])
      <4>1. unstakes[v] \in Balances
        BY <3>1 DEF IsAccounted
      <4>2. Len(unstakes[v]) \in Nat
        BY <4>1, BalancesAreNatural
      <4>. QED
        BY <4>2
    <3>3. IsAccounted(validators[v], stakes[v], FALSE, unstakes[v], Len(unstakes[v]))
      BY <3>1, <3>2 DEF IsAccounted
    <3>4. fresh'[v] = FALSE /\ cooled'[v] = Len(unstakes[v])
      BY <2>1
    <3>. QED
      BY <2>1, <3>3, <3>4 DEF Accounted
  <2>4. AllAccounted'
    BY <2>3 DEF AllAccounted, Validators
  <2>5. (RoundShape /\ AllAccounted => RoundTypeOK)'
    BY RoundFromAccounts, PTL
  <2>. QED
    BY <2>2, <2>4, <2>5
<1>3. ASSUME NEW amount \in Amounts, UserDeposit(amount) PROVE RoundTypeOK'
  <2>1. amount \in Nat
    BY RebalanceAssumption
  <2>2. reserve' \in Nat /\ inputs' \in 0..MaxInputs
    BY <1>3, <2>1, RebalanceAssumption DEF UserDeposit, IsInput, RoundTypeOK
  <2>3. UNCHANGED <<validators, stakes, fresh, unstakes, cooled>>
    BY <1>3 DEF UserDeposit
  <2>. QED
    BY <2>2, <2>3 DEF RoundTypeOK, Validators
<1>4. ASSUME NEW v \in Validators, SwitchStatus(v) PROVE RoundTypeOK'
  BY <1>4, SwitchKeepsBooks
<1>5. ASSUME NEW v \in Validators, NEW amount \in Amounts, Withdraw(v, amount) PROVE RoundTypeOK'
  <2>1. amount \in Nat
    BY RebalanceAssumption
  <2>. QED
    BY <1>5, <2>1, WithdrawKeepsBooks
<1>6. CASE UNCHANGED roundVars
  BY <1>6 DEF roundVars, RoundTypeOK, Validators
<1>. QED
  BY <1>1, <1>2, <1>3, <1>4, <1>5, <1>6 DEF RoundNext

\* The books agree with the accounts, at all times.
THEOREM BooksAgree == RoundSpec => []RoundTypeOK
<1>. QED
  BY RoundInitIsAccounted, RoundStepIsAccounted, PTL DEF RoundSpec

\* When nothing of a kind is due, there is no validator for which it could be.
LEMMA FirstIsEmpty ==
    ASSUME NEW S \in SUBSET Validators, First(S) = {}
    PROVE  S = {}
<1>1. S \in SUBSET Nat
  BY RebalanceAssumption DEF Validators
<1>. SUFFICES ASSUME S # {} PROVE FALSE
  OBVIOUS
<1>2. PICK m \in S : \A k \in S : m <= k
  BY <1>1, LeastNumber
<1>. QED
  BY <1>2 DEF First

LEMMA RoomIsUsed ==
    ASSUME DueUnstakeInactive = {}, NEW v \in Validators, ~AcceptsStake(v), HasRoom(v)
    PROVE  stakes[v] = <<>>
<1>. DEFINE S == {w \in Validators : /\ ~AcceptsStake(w)
                                     /\ Len(unstakes[w]) < MAXIMUM_UNSTAKE_ACCOUNTS
                                     /\ stakes[w] # <<>>}
<1>1. S \in SUBSET Validators /\ First(S) = {}
  BY DEF DueUnstakeInactive
<1>. HIDE DEF S
<1>2. S = {}
  BY <1>1, FirstIsEmpty
<1>. QED
  BY <1>2 DEF S, HasRoom

\* What is computed from sound books is sound.
LEMMA BooksMakeInstructionsSound == RoundTypeOK => InstructionsAreSound
<1>. SUFFICES ASSUME RoundTypeOK PROVE InstructionsAreSound
  OBVIOUS
<1>1. TargetIsUniform
  BY RoundTarget DEF TargetIsUniform
<1>2. InstructionsAreAccepted
  <2>. SUFFICES ASSUME DueMerge = {}, DueUnstakeInactive = {}, DueUpdate = {}
                PROVE  /\ \A d \in DueStake : StakeIsAccepted(d.index, d.amount)
                       /\ DueStake = {} => \A d \in DueUnstakeActive :
                                 HasRoom(d.index) => UnstakeIsAccepted(d.index, d.amount)
    BY DEF InstructionsAreAccepted
  <2>1. ASSUME NEW d \in DueStake PROVE StakeIsAccepted(d.index, d.amount)
    BY RoundMinimum DEF StakeIsAccepted
  <2>2. ASSUME NEW d \in DueUnstakeActive, HasRoom(d.index)
        PROVE  UnstakeIsAccepted(d.index, d.amount)
    <3>1. /\ d.index \in Validators /\ stakes[d.index] # <<>>
          /\ stakes[d.index][1] - d.amount >= MINIMUM_STAKE_ACCOUNT_BALANCE
      BY RoundMaximum
    <3>2. AcceptsStake(d.index)
      BY <2>2, <3>1, RoomIsUsed
    <3>. QED
      BY <2>2, <3>1, <3>2 DEF UnstakeIsAccepted, HasRoom
  <2>. QED
    BY <2>1, <2>2
<1>. QED
  BY <1>1, <1>2 DEF InstructionsAreSound

(***************************************************************************)
(* What maintainers send is sound, for any number of validators, any       *)
(* amounts and any history of deposits, withdrawals and status changes: the*)
(* targets distribute all SOL uniformly, and the choice of balance.rs      *)
(* passes the checks of process_stake_deposit and process_unstake.         *)
(***************************************************************************)
THEOREM InstructionsStaySound == RoundSpec => []InstructionsAreSound
<1>. QED
  BY BooksAgree, BooksMakeInstructionsSound, PTL

\* Numbers that are nowhere below others and once above them have a greater sum.
IsBelow(s, t) == \A n \in 1..Len(s) : s[n] <= t[n]

LEMMA SumsCompare ==
    ASSUME NEW a \in Nat, NEW b \in Nat, NEW x \in Nat, NEW y \in Nat, a <= b, x <= y
    PROVE  a + x <= b + y /\ (a < b \/ x < y => a + x < b + y)
OBVIOUS

LEMMA SumIsLess ==
    ASSUME NEW s \in Seq(Nat), NEW t \in Seq(Nat), Len(t) = Len(s), IsBelow(s, t),
           NEW k \in 1..Len(s), s[k] < t[k]
    PROVE  Sum(s) < Sum(t)
<1>1. PICK g : /\ Sum(s) = g[Len(s)]
               /\ \A n \in 0..Len(s) : g[n] \in Nat
               /\ g[0] = 0
               /\ \A n \in 1..Len(s) : g[n] = g[n - 1] + s[n]
  BY PartsFacts
<1>2. PICK h : /\ Sum(t) = h[Len(s)]
               /\ \A n \in 0..Len(s) : h[n] \in Nat
               /\ h[0] = 0
               /\ \A n \in 1..Len(s) : h[n] = h[n - 1] + t[n]
  BY PartsFacts
<1>3. Len(s) \in Nat /\ \A n \in 1..Len(s) : s[n] \in Nat /\ t[n] \in Nat
  BY SMTT(30)
<1>. DEFINE Bad == {n \in 0..Len(s) : ~(g[n] <= h[n] /\ (k <= n => g[n] < h[n]))}
<1>4. ASSUME Bad # {} PROVE FALSE
  <2>1. PICK n \in Bad : \A j \in Bad : n <= j
    <3>1. Bad \in SUBSET Nat
      OBVIOUS
    <3>. QED
      BY <1>4, <3>1, LeastNumber
  <2>2. n \in 0..Len(s) /\ ~(g[n] <= h[n] /\ (k <= n => g[n] < h[n]))
    BY <2>1
  <2>3. n # 0
    BY <1>1, <1>2, <2>2
  <2>4. n \in 1..Len(s) /\ n - 1 \in 0..Len(s) /\ ~(n <= n - 1)
    BY <1>3, <2>2, <2>3
  <2>5. g[n - 1] <= h[n - 1] /\ (k <= n - 1 => g[n - 1] < h[n - 1])
    BY <2>1, <2>4
  <2>6. /\ g[n] = g[n - 1] + s[n] /\ h[n] = h[n - 1] + t[n]
        /\ g[n - 1] \in Nat /\ h[n - 1] \in Nat /\ s[n] \in Nat /\ t[n] \in Nat
    BY <1>1, <1>2, <1>3, <2>4
  <2>7. s[n] <= t[n] /\ (k = n => s[n] < t[n])
    BY <2>4 DEF IsBelow
  <2>. HIDE DEF Bad
  <2>. DEFINE a == g[n - 1]
              b == h[n - 1]
              x == s[n]
              y == t[n]
  <2>10. /\ a \in Nat /\ b \in Nat /\ x \in Nat /\ y \in Nat
         /\ g[n] = a + x /\ h[n] = b + y
         /\ a <= b /\ x <= y /\ (k <= n - 1 => a < b) /\ (k = n => x < y)
    BY <2>5, <2>6, <2>7
  <2>. HIDE DEF a, b, x, y
  <2>8. g[n] <= h[n]
    BY <2>10, SumsCompare
  <2>9. ASSUME k <= n PROVE g[n] < h[n]
    <3>1. k = n \/ k <= n - 1
      BY <1>3, <2>4, <2>9
    <3>. QED
      BY <2>10, <3>1, SumsCompare
  <2>. QED
    BY <2>2, <2>8, <2>9
<1>5. Len(s) \in 0..Len(s) /\ k <= Len(s)
  BY <1>3
<1>6. g[Len(s)] < h[Len(s)]
  BY <1>4, <1>5
<1>. QED
  BY <1>1, <1>2, <1>6

\* When no stake is due, the reserve is below the minimum.
LEMMA RestingReserve ==
    ASSUME RoundTypeOK, HasActive, DueStake = {}
    PROVE  reserve < MINIMUM_STAKE_ACCOUNT_BALANCE
<1>. DEFINE min == get_minimum_stake_validator_index_amount(validators, Target)
            d == [index |-> min.index, amount |-> AmountToDeposit(min.amount)]
            i == MinimumStakeIndex(validators)
<1>1. i \in Validators
  BY RoundBook, MinimumStake
<1>2. Target[i] \in Nat /\ Effective(validators, i) \in Nat
  BY <1>1, RoundBook, RoundTarget
<1>3. min.amount = SaturatingSub(Target[i], Effective(validators, i))
  BY DEF get_minimum_stake_validator_index_amount
<1>4. min.amount \in Nat
  <2>. HIDE DEF min, i
  <2>. QED
    BY <1>2, <1>3 DEF SaturatingSub
<1>5. d \notin DueStake => ~(d.amount <= reserve)
  BY DEF DueStake
<1>6. ~(AmountToDeposit(min.amount) <= reserve)
  BY <1>5
<1>7. reserve \in Nat
  BY DEF RoundTypeOK
<1>. HIDE DEF min
<1>. QED
  BY <1>4, <1>6, <1>7, BalanceAssumption DEF AmountToDeposit, MaxOf, MinOf

\* When nothing can be merged and nothing is fresh, a validator has one stake account.
LEMMA OneStakeAccount ==
    ASSUME RoundTypeOK, DueMerge = {}, NEW v \in Validators, ~fresh[v], stakes[v] # <<>>
    PROVE  stakes[v][1] \in Nat /\ EffectiveOf(v) = stakes[v][1]
<1>. DEFINE S == {w \in Validators : Len(stakes[w]) > 1 /\ ~(fresh[w] /\ Len(stakes[w]) = 2)}
<1>1. S \in SUBSET Validators /\ First(S) = {}
  BY DEF DueMerge
<1>. HIDE DEF S
<1>2. S = {}
  BY <1>1, FirstIsEmpty
<1>3. ~(Len(stakes[v]) > 1)
  BY <1>2 DEF S
<1>4. stakes[v] \in Seq(Nat)
  BY RoundIsAccounted, BalancesAreNatural DEF Accounted, IsAccounted
<1>5. Len(stakes[v]) = 1 /\ stakes[v][1] \in Nat
  <2>. DEFINE s == stakes[v]
  <2>1. s \in Seq(Nat) /\ s # <<>> /\ ~(Len(s) > 1)
    BY <1>3, <1>4
  <2>. HIDE DEF s
  <2>2. Len(s) \in Nat /\ Len(s) # 0 /\ (Len(s) = 1 => s[1] \in Nat)
    BY <2>1
  <2>3. \A n \in Nat : n # 0 /\ ~(n > 1) => n = 1
    OBVIOUS
  <2>4. Len(s) = 1
    BY <2>1, <2>2, <2>3, Zenon
  <2>. QED
    BY <2>2, <2>4 DEF s
<1>. QED
  BY <1>4, <1>5, SumIsNatural, RoundBook

\* A balance that is far above its target, when no validator is to be unstaked from.
LEMMA NoneIsAbove ==
    ASSUME RoundTypeOK, HasActive, DueUnstakeActive = {},
           NEW i, i = MaximumExcessIndex(validators, Target), i \in Validators,
           stakes[i] # <<>>, stakes[i][1] \in Nat,
           stakes[i][1] >= 2 * MINIMUM_STAKE_ACCOUNT_BALANCE,
           NEW excess \in Nat, excess = ExcessOf(validators, Target, i),
           excess >= MINIMUM_STAKE_ACCOUNT_BALANCE
    PROVE  /\ ~AtLeast(excess, Target[i], UNBALANCE_THRESHOLD)
           /\ ~NeedsUnstake(validators, Target, UNBALANCE_THRESHOLD)
<1>. SUFFICES ASSUME \/ AtLeast(excess, Target[i], UNBALANCE_THRESHOLD)
                     \/ NeedsUnstake(validators, Target, UNBALANCE_THRESHOLD)
              PROVE  FALSE
  OBVIOUS
<1>. DEFINE u == [index |-> i, amount |-> excess]
            d == [index |-> u.index,
                  amount |-> MinOf(u.amount, MaximumUnstake(stakes[u.index][1]))]
<1>1. validators # <<>>
  BY RoundBook
<1>2. u \in get_unstake_validator_index(validators, Target, UNBALANCE_THRESHOLD)
  BY <1>1 DEF get_unstake_validator_index, ExcessOf
<1>3. u.index = i /\ u.amount = excess
  OBVIOUS
<1>4. MinOf(excess, MaximumUnstake(stakes[i][1])) >= MINIMUM_STAKE_ACCOUNT_BALANCE
  BY BalanceAssumption DEF MinOf, MaximumUnstake
<1>5. d.amount >= MINIMUM_STAKE_ACCOUNT_BALANCE
  BY <1>3, <1>4
<1>. HIDE DEF u
<1>6. d \in DueUnstakeActive
  BY <1>2, <1>3, <1>5 DEF DueUnstakeActive
<1>. QED
  BY <1>6

\* The threshold is also reached by what is further above a target that is not higher, or
\* only one Lamport higher.
LEMMA ThresholdIsReached ==
    ASSUME NEW a \in Nat, NEW b \in Nat, NEW x \in Nat, NEW y \in Nat,
           AtLeast(a, x, UNBALANCE_THRESHOLD), y # 0,
           \/ a <= b /\ y <= x
           \/ a < b /\ y = x + 1
    PROVE  AtLeast(b, y, UNBALANCE_THRESHOLD)
<1>. DEFINE num == UNBALANCE_THRESHOLD.numerator
            den == UNBALANCE_THRESHOLD.denominator
<1>1. num \in Nat /\ den \in Nat /\ num <= den
  BY BalanceAssumption
<1>2. a * den >= num * x
  BY DEF AtLeast
<1>. HIDE DEF num, den
<1>3. b * den >= num * y
  <2>1. CASE a <= b /\ y <= x
    <3>1. PICK p \in Nat, q \in Nat : b = a + p /\ x = y + q
      <4>1. b - a \in Nat /\ x - y \in Nat /\ b = a + (b - a) /\ x = y + (x - y)
        BY <2>1
      <4>. QED
        BY <4>1
    <3>2. b * den = a * den + p * den /\ num * x = num * y + num * q
      BY <1>1, <3>1
    <3>3. p * den \in Nat /\ num * q \in Nat /\ a * den \in Nat /\ num * y \in Nat
      BY <1>1
    <3>. QED
      BY <1>2, <3>2, <3>3
  <2>2. CASE a < b /\ y = x + 1
    <3>1. PICK p \in Nat : b = a + 1 + p
      <4>1. b - a - 1 \in Nat /\ b = a + 1 + (b - a - 1)
        BY <2>2
      <4>. QED
        BY <4>1
    <3>2. b * den = a * den + den + p * den /\ num * y = num * x + num
      BY <1>1, <2>2, <3>1
    <3>3. p * den \in Nat /\ a * den \in Nat /\ num * x \in Nat
      BY <1>1
    <3>. QED
      BY <1>1, <1>2, <3>2, <3>3
  <2>. QED
    BY <2>1, <2>2
<1>. QED
  BY <1>3 DEF AtLeast, num, den

\* If a target of at most one Lamport is not reached, the threshold is.
LEMMA EveryTargetIsReached ==
    ASSUME RoundTypeOK, HasActive, NEW j \in Validators, Target[j] <= 1,
           ~NeedsUnstake(validators, Target, UNBALANCE_THRESHOLD)
    PROVE  Target[j] <= EffectiveOf(j)
<1>1. Target[j] \in Nat /\ EffectiveOf(j) \in Nat /\ EffectiveOf(j) = Effective(validators, j)
  BY RoundTarget, RoundBook
<1>. SUFFICES ASSUME ~(Target[j] <= EffectiveOf(j)) PROVE FALSE
  OBVIOUS
<1>2. Target[j] = 1 /\ Effective(validators, j) = 0
  BY <1>1
<1>3. SaturatingSub(Target[j], Effective(validators, j)) = 1
  BY <1>2 DEF SaturatingSub
<1>4. AtLeast(1, 1, UNBALANCE_THRESHOLD)
  BY BalanceAssumption DEF AtLeast
<1>5. j \in DOMAIN validators
  BY RoundBook
<1>. QED
  BY <1>2, <1>3, <1>4, <1>5 DEF NeedsUnstake

\* A validator that is too far above its target would have been unstaked from.
LEMMA NoneIsFarAbove ==
    ASSUME RoundTypeOK, Rests, NEW v \in Validators,
           AtLeast(MaxOf(EffectiveOf(v) - Target[v], 0), Target[v], UNBALANCE_THRESHOLD),
           ~(EffectiveOf(v) - Target[v] < 2 * MINIMUM_STAKE_ACCOUNT_BALANCE)
    PROVE  FALSE
<1>. DEFINE i == MaximumExcessIndex(validators, Target)
            Excess(j) == ExcessOf(validators, Target, j)
<1>0. /\ HasActive /\ DueMerge = {} /\ DueUnstakeInactive = {} /\ DueUnstakeActive = {}
      /\ \A w \in Validators : unstakes[w] = <<>> /\ ~fresh[w]
  BY DEF Rests, Idle
<1>1. /\ \A w \in Validators : Target[w] \in Nat /\ EffectiveOf(w) \in Nat
      /\ \A w \in Validators : Excess(w) = SaturatingSub(EffectiveOf(w), Target[w])
      /\ \A w \in Validators : ~AcceptsStake(w) => Target[w] = 0
      /\ \A w, u \in Validators : AcceptsStake(w) /\ AcceptsStake(u) =>
            Target[w] - Target[u] \in {-1, 0, 1} /\ (w <= u => Target[u] <= Target[w])
  BY <1>0, RoundTarget, RoundBook DEF ExcessOf
<1>2. /\ i \in Validators
      /\ \A w \in Validators : /\ Excess(w) \in Nat /\ Excess(w) <= Excess(i)
                               /\ w > i => Excess(w) < Excess(i)
  BY <1>1, RoundBook, MaximumExcess
<1>. HIDE DEF i, Excess
<1>m. MINIMUM_STAKE_ACCOUNT_BALANCE \in Nat /\ MINIMUM_STAKE_ACCOUNT_BALANCE > 0
  BY BalanceAssumption
<1>3. /\ Excess(v) = EffectiveOf(v) - Target[v] /\ Excess(v) \in Nat
      /\ Excess(v) >= 2 * MINIMUM_STAKE_ACCOUNT_BALANCE
      /\ EffectiveOf(v) > Target[v]
      /\ AtLeast(Excess(v), Target[v], UNBALANCE_THRESHOLD)
  <2>1. Target[v] \in Nat /\ EffectiveOf(v) \in Nat /\ Excess(v) = SaturatingSub(EffectiveOf(v), Target[v])
    BY <1>1
  <2>2. EffectiveOf(v) - Target[v] >= 2 * MINIMUM_STAKE_ACCOUNT_BALANCE
        /\ EffectiveOf(v) > Target[v]
    BY <1>m, <2>1
  <2>3. Excess(v) = EffectiveOf(v) - Target[v]
    BY <2>1, <2>2 DEF SaturatingSub
  <2>4. MaxOf(EffectiveOf(v) - Target[v], 0) = Excess(v)
    BY <2>1, <2>2, <2>3 DEF MaxOf
  <2>. QED
    BY <2>1, <2>2, <2>3, <2>4
<1>4. Target[v] # 0
  BY <1>3 DEF AtLeast
<1>5. AcceptsStake(v)
  BY <1>1, <1>4
<1>6. /\ Excess(i) \in Nat /\ Excess(v) <= Excess(i)
      /\ Excess(i) >= 2 * MINIMUM_STAKE_ACCOUNT_BALANCE
      /\ EffectiveOf(i) \in Nat /\ Target[i] \in Nat
      /\ EffectiveOf(i) >= 2 * MINIMUM_STAKE_ACCOUNT_BALANCE
  <2>1. /\ Excess(i) \in Nat /\ Excess(v) <= Excess(i) /\ EffectiveOf(i) \in Nat
        /\ Target[i] \in Nat /\ Excess(i) = SaturatingSub(EffectiveOf(i), Target[i])
    BY <1>1, <1>2
  <2>2. Excess(i) >= 2 * MINIMUM_STAKE_ACCOUNT_BALANCE
    BY <1>3, <1>m, <2>1
  <2>3. EffectiveOf(i) >= 2 * MINIMUM_STAKE_ACCOUNT_BALANCE
    BY <1>m, <2>1, <2>2 DEF SaturatingSub
  <2>. QED
    BY <2>1, <2>2, <2>3
<1>7. stakes[i] # <<>>
  <2>1. stakes[i] = <<>> => Sum(stakes[i]) = 0
    BY <1>2, SumIsNatural, RoundIsAccounted, BalancesAreNatural DEF Accounted, IsAccounted
  <2>2. EffectiveOf(i) = Sum(stakes[i])
    BY <1>2, RoundBook
  <2>. QED
    BY <1>6, <1>m, <2>1, <2>2
<1>8. AcceptsStake(i)
  <2>1. HasRoom(i)
    BY <1>0, <1>2, BalanceAssumption DEF HasRoom
  <2>. QED
    BY <1>0, <1>2, <1>7, <2>1, RoomIsUsed
<1>9. stakes[i][1] \in Nat /\ EffectiveOf(i) = stakes[i][1]
  BY <1>0, <1>2, <1>7, OneStakeAccount
<1>10. /\ ~AtLeast(Excess(i), Target[i], UNBALANCE_THRESHOLD)
       /\ ~NeedsUnstake(validators, Target, UNBALANCE_THRESHOLD)
  <2>1. Excess(i) >= MINIMUM_STAKE_ACCOUNT_BALANCE /\ stakes[i][1] >= 2 * MINIMUM_STAKE_ACCOUNT_BALANCE
    BY <1>6, <1>9, <1>m
  <2>2. i = MaximumExcessIndex(validators, Target) /\ Excess(i) = ExcessOf(validators, Target, i)
    BY DEF i, Excess
  <2>. QED
    BY <1>0, <1>2, <1>6, <1>7, <1>9, <2>1, <2>2, NoneIsAbove
<1>11. Target[v] - Target[i] \in {-1, 0, 1} /\ Target[v] \in Nat
  BY <1>1, <1>2, <1>5, <1>8
<1>12. Target[i] = 0
  <2>. SUFFICES ASSUME Target[i] # 0 PROVE FALSE
    OBVIOUS
  <2>1. CASE Target[i] <= Target[v]
    BY <1>3, <1>6, <1>10, <1>11, <2>1, ThresholdIsReached
  <2>2. CASE ~(Target[i] <= Target[v])
    <3>1. Target[i] = Target[v] + 1
      BY <1>6, <1>11, <2>2
    <3>2. ~(v <= i)
      BY <1>1, <1>2, <1>5, <1>8, <2>2
    <3>3. v > i
      BY <1>2, <3>2, RebalanceAssumption DEF Validators
    <3>4. Excess(v) < Excess(i)
      BY <1>2, <3>3
    <3>. QED
      BY <1>3, <1>6, <1>10, <1>11, <3>1, <3>4, ThresholdIsReached
  <2>. QED
    BY <2>1, <2>2
<1>13. ASSUME NEW w \in Validators PROVE Target[w] <= EffectiveOf(w)
  <2>1. Target[w] <= 1
    <3>1. CASE AcceptsStake(w)
      <4>1. Target[w] - Target[i] \in {-1, 0, 1} /\ Target[w] \in Nat
        BY <1>1, <1>2, <1>8, <3>1
      <4>. QED
        BY <1>12, <4>1
    <3>2. CASE ~AcceptsStake(w)
      BY <1>1, <3>2
    <3>. QED
      BY <3>1, <3>2
  <2>. QED
    BY <1>0, <1>10, <2>1, EveryTargetIsReached
<1>. DEFINE s == [w \in DOMAIN validators |-> validators[w].stake]
<1>14. /\ s \in Seq(Nat) /\ Len(s) = N /\ \A w \in Validators : s[w] = EffectiveOf(w)
  <2>1. DOMAIN validators = 1..N /\ Validators = 1..N /\ N \in Nat
    BY RoundBook
  <2>2. ASSUME NEW w \in Validators
        PROVE  validators[w].stake \in Nat /\ validators[w].stake = EffectiveOf(w)
    <3>1. /\ validators[w] \in BookEntries
          /\ validators[w].stake = Sum(stakes[w]) + Sum(unstakes[w])
      BY RoundIsAccounted DEF Accounted, IsAccounted
    <3>2. Sum(unstakes[w]) = 0
      BY <1>0, SumIsNatural, RoundIsAccounted, BalancesAreNatural DEF Accounted, IsAccounted
    <3>3. Sum(stakes[w]) = EffectiveOf(w) /\ EffectiveOf(w) \in Nat
      BY RoundBook
    <3>. QED
      BY <3>1, <3>2, <3>3
  <2>. QED
    BY <2>1, <2>2
<1>15. Total(reserve, validators) = reserve + Sum(s)
  BY DEF Total
<1>. HIDE DEF s
<1>16. /\ Target \in Seq(Nat) /\ Len(Target) = N /\ Sum(Target) = Total(reserve, validators)
       /\ Validators = 1..N
  BY <1>0, RoundTarget, RoundBook
<1>. DEFINE t == Target
<1>17. /\ t \in Seq(Nat) /\ Len(t) = N /\ IsBelow(t, s) /\ v \in 1..N /\ t[v] < s[v]
       /\ Sum(t) = reserve + Sum(s)
  BY <1>3, <1>11, <1>1, <1>13, <1>14, <1>15, <1>16 DEF IsBelow
<1>. HIDE DEF t
<1>18. Sum(t) < Sum(s)
  BY <1>14, <1>17, SumIsLess
<1>19. reserve \in Nat /\ Sum(s) \in Nat
  BY <1>14, SumIsNatural DEF RoundTypeOK
<1>. QED
  BY <1>17, <1>18, <1>19

LEMMA RestIsBalanced == RoundTypeOK => BalancedAtRest
<1>. SUFFICES ASSUME RoundTypeOK, Rests
              PROVE  /\ reserve < MINIMUM_STAKE_ACCOUNT_BALANCE
                     /\ \A v \in Validators : ~AcceptsStake(v) => stakes[v] = <<>>
                     /\ \A v \in Validators :
                           LET target == Target[v]
                               above == EffectiveOf(v) - target
                           IN  \/ ~AtLeast(MaxOf(above, 0), target, UNBALANCE_THRESHOLD)
                               \/ above < 2 * MINIMUM_STAKE_ACCOUNT_BALANCE
  BY DEF BalancedAtRest
<1>1. reserve < MINIMUM_STAKE_ACCOUNT_BALANCE
  BY RestingReserve DEF Rests, Idle
<1>2. ASSUME NEW v \in Validators, ~AcceptsStake(v) PROVE stakes[v] = <<>>
  <2>1. unstakes[v] = <<>> /\ DueUnstakeInactive = {}
    BY DEF Rests, Idle
  <2>2. HasRoom(v)
    BY <2>1, BalanceAssumption DEF HasRoom
  <2>. QED
    BY <1>2, <2>1, <2>2, RoomIsUsed
<1>. QED
  BY <1>1, <1>2, NoneIsFarAbove

(***************************************************************************)
(* At rest the pool is balanced, for any number of validators and any      *)
(* amounts: what try_perform_maintenance leaves undone when no instruction *)
(* is due is less than the minimum in the reserve, and less than the       *)
(* threshold or twice the minimum above the target of a validator.         *)
(***************************************************************************)
THEOREM PoolRestsBalanced == RoundSpec => []BalancedAtRest
<1>. QED
  BY BooksAgree, RestIsBalanced, PTL

-----------------------------------------------------------------------------
(* The daemons: what holds of the state at all times *)

Kinds == {"MergeStake", "UpdateExchangeRate", "UpdateOnchainValidatorPerf",
          "UpdateOffchainValidatorPerf", "ReactivateIfComplies", "DeactivateIfViolates",
          "Unstake", "UpdateStakeAccountBalance", "StakeDeposit", "RemoveValidator"}

\* What a maintainer may send.
Instructions ==
    {UpdateRate} \cup [kind : Kinds \ {"UpdateExchangeRate"}, index : Nat, pubkey : STRING,
                       seeds : Seq(Int), amount : Nat]

\* A list of maintainers, each of which occurs once.
Entries == [pubkey : Maintainers]
IsRoster(list) == list \in Seq(Entries) /\ HasUniqueKeys(list) /\ list # <<>>

\* Whose slice it is at a time, and whether it is in the pause at the end of the slice.
Turn(list, at) == ((at \div SLICE_LENGTH) % Len(list)) + 1
IsPause(at) == at % SLICE_LENGTH >= SLICE_LENGTH - PAUSE_LENGTH
OnDuty(list, m, at) == ~IsPause(at) /\ list[Turn(list, at)].pubkey = m

Transactions ==
    [by : Maintainers, at : Nat, ins : Instructions, age : Nat, list : Seq(Entries),
     awaited : BOOLEAN]

\* A transaction is younger than its blockhash allows, and was sent when its sender was on duty.
IsUnderWay(p) ==
    /\ p \in Transactions
    /\ p.age < Expiry
    /\ IsRoster(p.list)
    /\ OnDuty(p.list, p.by, slot + EpochLength - p.age)

\* A daemon waits for a transaction, and for no other.
IsAwaited(p) ==
    p.awaited => /\ daemon[p.by].mode = "waiting"
                 /\ \A q \in pending : q.by = p.by /\ q.awaited => q = p

(***************************************************************************)
(* The inductive invariant: the types, that no validator and no maintainer *)
(* is listed twice, that no stake account is below the minimum, that every *)
(* transaction under way was sent by the maintainer that was on duty, and  *)
(* that a daemon waits for at most one of them.                            *)
(***************************************************************************)
DaemonInv ==
    /\ slot \in 0 .. (EpochLength - 1)
    /\ IsRoster(maintainers) /\ Reliable \in Keys(maintainers)
    /\ IsPool(pool)
    /\ daemon \in [Maintainers -> DaemonStates]
    /\ \A p \in pending : IsUnderWay(p) /\ IsAwaited(p)

-----------------------------------------------------------------------------
(* Duty slices *)

\* Division with remainder.
LEMMA DivMod ==
    ASSUME NEW a \in Nat, NEW b \in Nat \ {0}
    PROVE  /\ a \div b \in Nat /\ a % b \in Nat /\ a % b < b
           /\ a = b * (a \div b) + (a % b)
OBVIOUS

LEMMA DivModIsUnique ==
    ASSUME NEW a \in Nat, NEW b \in Nat \ {0}, NEW q \in Nat, NEW r \in Nat, r < b, a = b * q + r
    PROVE  a \div b = q /\ a % b = r
<1>. DEFINE x == a \div b
            y == a % b
<1>1. x \in Nat /\ y \in Nat /\ y < b /\ a = b * x + y
  BY DivMod
<1>. HIDE DEF x, y
<1>2. b * x + y = b * q + r
  BY <1>1
<1>3. ~(x < q)
  <2>. SUFFICES ASSUME x < q PROVE FALSE
    OBVIOUS
  <2>1. PICK d \in Nat : q = x + 1 + d
    <3>1. q - x - 1 \in Nat /\ q = x + 1 + (q - x - 1)
      BY <1>1
    <3>. QED
      BY <3>1
  <2>2. b * q = b * x + b + b * d /\ b * d \in Nat /\ b * x \in Nat
    BY <1>1, <2>1
  <2>. QED
    BY <1>1, <1>2, <2>2
<1>4. ~(q < x)
  <2>. SUFFICES ASSUME q < x PROVE FALSE
    OBVIOUS
  <2>1. PICK d \in Nat : x = q + 1 + d
    <3>1. x - q - 1 \in Nat /\ x = q + 1 + (x - q - 1)
      BY <1>1
    <3>. QED
      BY <3>1
  <2>2. b * x = b * q + b + b * d /\ b * d \in Nat /\ b * q \in Nat
    BY <1>1, <2>1
  <2>. QED
    BY <1>1, <1>2, <2>2
<1>5. x = q
  BY <1>1, <1>3, <1>4
<1>6. y = r
  <2>1. b * x = b * q /\ b * q \in Nat
    BY <1>1, <1>5
  <2>. QED
    BY <1>1, <1>2, <2>1
<1>. QED
  BY <1>5, <1>6 DEF x, y

\* Slices and turns repeat after any multiple of the cycle.
Repeats(x, n, s, e) ==
    (x + e) % s = x % s /\ ((x + e) \div s) % n = (x \div s) % n

LEMMA TurnsRepeat ==
    ASSUME NEW x \in Nat, NEW n \in Nat \ {0}, NEW s \in Nat \ {0}, NEW e \in Nat,
           e % (n * s) = 0
    PROVE  Repeats(x, n, s, e)
<1>. DEFINE cycle == n * s
<1>1. cycle \in Nat \ {0} /\ cycle = n * s /\ e % cycle = 0
  OBVIOUS
<1>. HIDE DEF cycle
<1>2. PICK k \in Nat : e = (n * s) * k
  <2>1. e \div cycle \in Nat /\ e = cycle * (e \div cycle) + (e % cycle)
    BY <1>1, DivMod
  <2>2. cycle * (e \div cycle) \in Nat
    BY <1>1, <2>1
  <2>3. e = cycle * (e \div cycle)
    BY <1>1, <2>1, <2>2
  <2>. QED
    BY <1>1, <2>1, <2>3
<1>3. PICK a \in Nat, r \in Nat : x = s * a + r /\ r < s /\ x \div s = a /\ x % s = r
  BY DivMod
<1>4. PICK c \in Nat, d \in Nat : a = n * c + d /\ d < n /\ a % n = d
  BY DivMod
<1>5. x + e = s * (a + n * k) + r /\ a + n * k \in Nat
  BY <1>2, <1>3
<1>6. x + e \in Nat
  OBVIOUS
<1>7. (x + e) \div s = a + n * k /\ (x + e) % s = r
  BY <1>3, <1>5, <1>6, DivModIsUnique
<1>8. a + n * k = n * (c + k) + d /\ c + k \in Nat
  BY <1>4
<1>9. (a + n * k) % n = d
  BY <1>4, <1>5, <1>8, DivModIsUnique
<1>. QED
  BY <1>3, <1>4, <1>7, <1>9 DEF Repeats

\* The constants that measure time.
LEMMA TimeConstants ==
    /\ SLICE_LENGTH \in Nat \ {0} /\ PAUSE_LENGTH \in Nat /\ PAUSE_LENGTH < SLICE_LENGTH
    /\ EpochLength \in Nat /\ EpochLength > 1
    /\ Expiry \in Nat \ {0} /\ Expiry < EpochLength
    /\ PollInterval \in Nat \ {0}
BY MaintenanceAssumption, DaemonAssumption

\* A list in which nobody occurs twice is no longer than there are maintainers.
LEMMA RosterLength ==
    ASSUME NEW list, IsRoster(list)
    PROVE  /\ Len(list) \in Nat \ {0} /\ Len(list) <= Cardinality(Maintainers)
           /\ DOMAIN list = 1..Len(list)
           /\ \A i \in 1..Len(list) : list[i].pubkey \in Maintainers
           /\ Keys(list) \subseteq Maintainers
<1>0. list \in Seq(Entries) /\ list # <<>>
  BY DEF IsRoster
<1>1. Len(list) \in Nat \ {0} /\ DOMAIN list = 1..Len(list)
  BY <1>0
<1>2. \A i \in 1..Len(list) : list[i] \in Entries
  BY <1>0
<1>3. \A i \in 1..Len(list) : list[i].pubkey \in Maintainers
  BY <1>2 DEF Entries
<1>4. Keys(list) \subseteq Maintainers
  BY <1>1, <1>3 DEF Keys
<1>. DEFINE f == [i \in 1..Len(list) |-> list[i].pubkey]
<1>5. f \in Injection(1..Len(list), Maintainers)
  <2>1. f \in [1..Len(list) -> Maintainers]
    BY <1>3
  <2>2. \A i, j \in 1..Len(list) : f[i] = f[j] => i = j
    BY <1>1 DEF IsRoster, HasUniqueKeys
  <2>. QED
    BY <2>1, <2>2 DEF Injection, IsInjective
<1>6. IsFiniteSet(Maintainers)
  BY DaemonAssumption
<1>7. IsFiniteSet(1..Len(list)) /\ Cardinality(1..Len(list)) = Len(list)
  BY <1>1, FS_Interval
<1>8. Cardinality(1..Len(list)) <= Cardinality(Maintainers)
  BY <1>5, <1>6, FS_Injection
<1>. QED
  BY <1>1, <1>3, <1>4, <1>7, <1>8

\* Whose turn it is, is in the list.
LEMMA TurnIsInList ==
    ASSUME NEW list, IsRoster(list), NEW at \in Nat
    PROVE  Turn(list, at) \in 1..Len(list)
<1>1. Len(list) \in Nat \ {0}
  BY RosterLength
<1>2. at \div SLICE_LENGTH \in Nat
  BY TimeConstants, DivMod
<1>3. (at \div SLICE_LENGTH) % Len(list) \in Nat /\ (at \div SLICE_LENGTH) % Len(list) < Len(list)
  BY <1>1, <1>2, DivMod
<1>. QED
  BY <1>1, <1>3 DEF Turn

\* The slot of the epoch determines who is on duty.
LEMMA DutyRepeats ==
    ASSUME NEW list, IsRoster(list), NEW at \in Nat
    PROVE  /\ Turn(list, at + EpochLength) = Turn(list, at)
           /\ (at + EpochLength) % SLICE_LENGTH = at % SLICE_LENGTH
           /\ IsPause(at + EpochLength) <=> IsPause(at)
           /\ \A m : OnDuty(list, m, at + EpochLength) <=> OnDuty(list, m, at)
<1>. DEFINE n == Len(list)
<1>1. n \in Nat \ {0} /\ n <= Cardinality(Maintainers)
  BY RosterLength
<1>2. Cardinality(Maintainers) \in Nat
  BY DaemonAssumption, FS_CardinalityType
<1>3. n \in 1 .. Cardinality(Maintainers)
  BY <1>1, <1>2
<1>. HIDE DEF n
<1>4. EpochLength % (n * SLICE_LENGTH) = 0
  BY <1>3, DaemonAssumption
<1>5. /\ (at + EpochLength) % SLICE_LENGTH = at % SLICE_LENGTH
      /\ ((at + EpochLength) \div SLICE_LENGTH) % n = (at \div SLICE_LENGTH) % n
  <2>1. SLICE_LENGTH \in Nat \ {0} /\ EpochLength \in Nat /\ n \in Nat \ {0}
    BY <1>1, TimeConstants
  <2>2. Repeats(at, n, SLICE_LENGTH, EpochLength)
    BY <1>4, <2>1, TurnsRepeat, Zenon
  <2>. QED
    BY <2>2 DEF Repeats
<1>. QED
  BY <1>5 DEF Turn, IsPause, OnDuty, n

\* Two that are on duty are apart by more than the pause.
LEMMA DutiesAreApart ==
    ASSUME NEW list, IsRoster(list), NEW x \in Nat, NEW y \in Nat, NEW m, NEW k, m # k,
           OnDuty(list, m, x), OnDuty(list, k, y), x <= y
    PROVE  y - x > PAUSE_LENGTH
<1>. DEFINE s == SLICE_LENGTH
            a == x \div s
            b == y \div s
            r == x % s
            t == y % s
<1>0. s \in Nat \ {0} /\ PAUSE_LENGTH \in Nat /\ PAUSE_LENGTH < s
  BY TimeConstants
<1>. HIDE DEF s
<1>1. a \in Nat /\ r \in Nat /\ r < s /\ x = s * a + r
  BY <1>0, DivMod
<1>2. b \in Nat /\ t \in Nat /\ t < s /\ y = s * b + t
  BY <1>0, DivMod
<1>3. a # b
  BY DEF OnDuty, Turn, s
<1>4. r < s - PAUSE_LENGTH
  <2>1. ~(r >= s - PAUSE_LENGTH)
    BY DEF OnDuty, IsPause, s
  <2>. HIDE DEF r
  <2>. QED
    BY <1>0, <1>1, <2>1
<1>. HIDE DEF a, b, r, t
<1>5. ~(b < a)
  <2>. SUFFICES ASSUME b < a PROVE FALSE
    OBVIOUS
  <2>1. PICK d \in Nat : a = b + 1 + d
    <3>1. a - b - 1 \in Nat /\ a = b + 1 + (a - b - 1)
      BY <1>1, <1>2
    <3>. QED
      BY <3>1
  <2>2. s * a = s * b + s + s * d /\ s * d \in Nat /\ s * b \in Nat
    BY <1>0, <1>2, <2>1
  <2>. QED
    BY <1>0, <1>1, <1>2, <2>2
<1>6. PICK d \in Nat : b = a + 1 + d
  <2>1. b - a - 1 \in Nat /\ b = a + 1 + (b - a - 1)
    BY <1>1, <1>2, <1>3, <1>5
  <2>. QED
    BY <2>1
<1>7. s * b = s * a + s + s * d /\ s * d \in Nat /\ s * a \in Nat
  BY <1>0, <1>1, <1>6
<1>. QED
  BY <1>0, <1>1, <1>2, <1>4, <1>7

\* Transactions of two maintainers, sent with the same list.
LEMMA RacesAreDelayed ==
    ASSUME slot \in 0 .. (EpochLength - 1), NEW p, NEW q, IsUnderWay(p), IsUnderWay(q),
           p.by # q.by, p.list = q.list
    PROVE  p.age - q.age > PAUSE_LENGTH \/ q.age - p.age > PAUSE_LENGTH
<1>1. /\ p.age \in Nat /\ p.age < Expiry /\ q.age \in Nat /\ q.age < Expiry
      /\ IsRoster(p.list)
      /\ OnDuty(p.list, p.by, slot + EpochLength - p.age)
      /\ OnDuty(p.list, q.by, slot + EpochLength - q.age)
  BY DEF IsUnderWay, Transactions
<1>. DEFINE x == slot + EpochLength - p.age
            y == slot + EpochLength - q.age
<1>2. /\ x \in Nat /\ y \in Nat /\ x - y = q.age - p.age /\ y - x = p.age - q.age
      /\ x <= y \/ y <= x
  BY <1>1, TimeConstants
<1>3. OnDuty(p.list, p.by, x) /\ OnDuty(p.list, q.by, y)
  BY <1>1
<1>. HIDE DEF x, y
<1>4. CASE x <= y
  BY <1>1, <1>2, <1>3, <1>4, DutiesAreApart
<1>5. CASE y <= x
  BY <1>1, <1>2, <1>3, <1>5, DutiesAreApart
<1>. QED
  BY <1>2, <1>4, <1>5

\* The arithmetic of get_next_maintainer_duty_slot: no slice of the maintainer begins before.
IsNextStart(cycle, first, at, target) ==
    /\ target \in Nat /\ target > at
    /\ \A c \in Nat : cycle * c + first > at => cycle * c + first >= target

LEMMA NextStart ==
    ASSUME NEW n \in Nat \ {0}, NEW s \in Nat \ {0}, NEW k \in Nat, k < n,
           NEW cycle \in Nat, cycle = n * s, NEW first \in Nat, first = k * s,
           NEW at \in Nat, NEW a \in Nat, NEW r \in Nat, at = cycle * a + r, r < cycle,
           NEW start \in Nat, start = a * cycle + first,
           NEW target, target = IF start <= at THEN start + cycle ELSE start
    PROVE  IsNextStart(cycle, first, at, target)
<1>1. first < cycle
  <2>1. PICK d \in Nat : n = k + 1 + d
    <3>1. n - k - 1 \in Nat /\ n = k + 1 + (n - k - 1)
      OBVIOUS
    <3>. QED
      BY <3>1
  <2>2. n * s = k * s + s + d * s /\ d * s \in Nat
    BY <2>1
  <2>. QED
    BY <2>2
<1>2. cycle * a \in Nat /\ a * cycle = cycle * a
  OBVIOUS
<1>3. target \in Nat /\ target > at
  BY <1>2
<1>4. ASSUME NEW c \in Nat, cycle * c + first > at PROVE cycle * c + first >= target
  <2>0. cycle * c \in Nat
    OBVIOUS
  <2>1. CASE c < a
    <3>1. PICK d \in Nat : a = c + 1 + d
      <4>1. a - c - 1 \in Nat /\ a = c + 1 + (a - c - 1)
        BY <2>1
      <4>. QED
        BY <4>1
    <3>2. cycle * a = cycle * c + cycle + cycle * d /\ cycle * d \in Nat
      BY <3>1
    <3>. QED
      BY <1>1, <1>2, <1>4, <2>0, <3>2
  <2>2. CASE c = a
    BY <1>2, <1>4, <2>2
  <2>3. CASE c > a
    <3>1. PICK d \in Nat : c = a + 1 + d
      <4>1. c - a - 1 \in Nat /\ c = a + 1 + (c - a - 1)
        BY <2>3
      <4>. QED
        BY <4>1
    <3>2. cycle * c = cycle * a + cycle + cycle * d /\ cycle * d \in Nat
      BY <3>1
    <3>. QED
      BY <1>2, <2>0, <3>2
  <2>. QED
    BY <2>1, <2>2, <2>3
<1>. QED
  BY <1>3, <1>4 DEF IsNextStart

\* get_next_maintainer_duty_slot is the next slot in which a slice of the maintainer begins.
LEMMA NextDuty ==
    ASSUME IsRoster(maintainers), NEW m \in Keys(maintainers), NEW at \in Nat
    PROVE  \E target \in Nat :
              /\ get_next_maintainer_duty_slot(m, at) = {target}
              /\ target > at
              /\ \A u \in Nat : u > at /\ DutyBegins(m, u) => u >= target
<1>. DEFINE n == Len(maintainers)
            s == SLICE_LENGTH
            k == Position(maintainers, m) - 1
            cycle == n * s
            first == k * s
            a == at \div cycle
            r == at % cycle
            start == a * cycle + first
            target == IF start <= at THEN start + cycle ELSE start
<1>1. /\ n \in Nat \ {0} /\ s \in Nat \ {0} /\ k \in Nat /\ k < n
      /\ Position(maintainers, m) = k + 1 /\ k + 1 \in DOMAIN maintainers
      /\ maintainers[k + 1].pubkey = m
  BY RosterLength, TimeConstants, PositionOfKey
<1>2. get_next_maintainer_duty_slot(m, at) = {target}
  BY <1>1 DEF get_next_maintainer_duty_slot
<1>. HIDE DEF n, s, k
<1>3. cycle \in Nat /\ cycle # 0 /\ first \in Nat
  BY <1>1
<1>4. cycle = n * s /\ first = k * s
  OBVIOUS
<1>. HIDE DEF cycle, first
<1>5. a \in Nat /\ r \in Nat /\ r < cycle /\ at = cycle * a + r
  BY <1>3, DivMod
<1>. HIDE DEF a, r
<1>6. start \in Nat
  BY <1>3, <1>5
<1>7. start = a * cycle + first /\ target = IF start <= at THEN start + cycle ELSE start
  OBVIOUS
<1>. HIDE DEF start, target
<1>8. /\ target \in Nat /\ target > at
      /\ \A c \in Nat : cycle * c + first > at => cycle * c + first >= target
  <2>1. IsNextStart(cycle, first, at, target)
    BY <1>1, <1>3, <1>4, <1>5, <1>6, <1>7, NextStart, Zenon
  <2>. QED
    BY <2>1 DEF IsNextStart
<1>9. ASSUME NEW u \in Nat, u > at, DutyBegins(m, u) PROVE u >= target
  <2>. DEFINE b == u \div s
              c == b \div n
  <2>1. /\ u % s = 0
        /\ maintainers[(b % n) + 1].pubkey = m
    BY <1>9 DEF DutyBegins, n, s
  <2>2. b \in Nat /\ u = s * b + (u % s)
    BY <1>1, DivMod
  <2>3. u = s * b
    BY <1>1, <2>1, <2>2
  <2>. HIDE DEF b
  <2>4. c \in Nat /\ b % n \in Nat /\ b % n < n /\ b = n * c + (b % n)
    BY <1>1, <2>2, DivMod
  <2>. DEFINE e == b % n
  <2>. HIDE DEF c
  <2>11. e \in Nat /\ e < n /\ b = n * c + e /\ maintainers[e + 1].pubkey = m
    BY <2>1, <2>4
  <2>. HIDE DEF e
  <2>5. e + 1 \in DOMAIN maintainers
    <3>1. DOMAIN maintainers = 1..n
      BY RosterLength DEF n
    <3>. QED
      BY <1>1, <2>11, <3>1
  <2>6. e + 1 = k + 1
    BY <1>1, <2>11, <2>5 DEF IsRoster, HasUniqueKeys
  <2>7. e = k
    BY <1>1, <2>11, <2>6
  <2>8. u = cycle * c + first
    <3>1. b = n * c + k
      BY <2>11, <2>7
    <3>2. s * (n * c + k) = (n * s) * c + k * s
      BY <1>1, <2>4
    <3>. QED
      BY <1>4, <2>3, <3>1, <3>2
  <2>. QED
    BY <1>8, <1>9, <2>4, <2>8
<1>. QED
  BY <1>2, <1>8, <1>9

-----------------------------------------------------------------------------
(* What instructions do to a validator *)

\* Balances that are no less than the minimum.
Sufficient == {n \in Nat : n >= MINIMUM_STAKE_ACCOUNT_BALANCE}

IsEntry(v) == v \in ValidatorState /\ IsSound(v)

LEMMA EntryFacts ==
    ASSUME NEW v, IsEntry(v)
    PROVE  /\ v.pubkey \in STRING
           /\ v.status \in {"AcceptingStakes", "StakesSuspended", "PendingRemoval"}
           /\ v.vote \in {"low", "high", "closed"} /\ v.commission \in {"none", "low", "high"}
           /\ v.commission_is_new \in BOOLEAN /\ v.rest_is_new \in BOOLEAN
           /\ v.stakes \in Seq(Sufficient) /\ v.stakes \in Seq(Nat) /\ Len(v.stakes) \in Nat
           /\ v.begin \in Nat /\ v.fresh \in BOOLEAN
           /\ v.unstakes \in Seq(Nat) /\ Len(v.unstakes) \in Nat
           /\ v.unstake_begin \in Nat /\ v.cooled \in Nat /\ v.tracked \in Nat
           /\ v.cooled <= Len(v.unstakes)
           /\ v.commission_is_new => v.commission # "none"
<1>1. v.stakes \in Seq(Nat) /\ v.unstakes \in Seq(Nat)
  BY DEF IsEntry, ValidatorState
<1>2. \A k \in DOMAIN v.stakes : v.stakes[k] >= MINIMUM_STAKE_ACCOUNT_BALANCE
  BY DEF IsEntry, IsSound
<1>. DEFINE s == v.stakes
<1>3. s \in Seq(Nat) /\ \A k \in DOMAIN s : s[k] >= MINIMUM_STAKE_ACCOUNT_BALANCE
  BY <1>1, <1>2
<1>. HIDE DEF s
<1>4. DOMAIN s = 1..Len(s) /\ Len(s) \in Nat /\ \A k \in 1..Len(s) : s[k] \in Sufficient
  BY <1>3 DEF Sufficient
<1>5. s \in Seq(Sufficient)
  <2>1. s = [k \in 1..Len(s) |-> s[k]]
    BY <1>3, <1>4
  <2>. QED
    BY <1>4, <2>1
<1>6. v.stakes \in Seq(Sufficient) /\ Len(v.stakes) \in Nat /\ Len(v.unstakes) \in Nat
  BY <1>1, <1>4, <1>5 DEF s
<1>7. /\ v.cooled <= Len(v.unstakes)
      /\ v.commission_is_new => v.commission # "none"
  BY DEF IsEntry, IsSound
<1>8. v \in ValidatorState
  BY DEF IsEntry
<1>. QED
  BY <1>1, <1>6, <1>7, <1>8 DEF ValidatorState

\* Balances of stake accounts.
LEMMA SufficientFacts ==
    ASSUME NEW s \in Seq(Sufficient)
    PROVE  /\ s \in Seq(Nat) /\ \A k \in DOMAIN s : s[k] >= MINIMUM_STAKE_ACCOUNT_BALANCE
           /\ s # <<>> => s[1] \in Nat /\ s[1] >= MINIMUM_STAKE_ACCOUNT_BALANCE
           /\ Len(s) > 1 => s[2] \in Nat /\ s[2] >= MINIMUM_STAKE_ACCOUNT_BALANCE
<1>1. \A k \in DOMAIN s : s[k] \in Sufficient
  OBVIOUS
<1>2. DOMAIN s = 1..Len(s) /\ Len(s) \in Nat /\ s = [k \in 1..Len(s) |-> s[k]]
  OBVIOUS
<1>3. \A k \in 1..Len(s) : s[k] \in Nat /\ s[k] >= MINIMUM_STAKE_ACCOUNT_BALANCE
  BY <1>1, <1>2 DEF Sufficient
<1>4. s \in Seq(Nat)
  BY <1>2, <1>3
<1>5. s # <<>> => 1 \in 1..Len(s)
  BY <1>2
<1>6. Len(s) > 1 => 2 \in 1..Len(s)
  BY <1>2
<1>. QED
  BY <1>2, <1>3, <1>4, <1>5, <1>6

Merged(v) ==
    [v EXCEPT !.stakes = <<@[1] + @[2]>> \o SubSeq(@, 3, Len(@)), !.begin = @ + 1]

RecordedCommission(v) == [v EXCEPT !.commission = v.vote, !.commission_is_new = TRUE]

RecordedRest(v) ==
    [v EXCEPT !.rest_is_new = TRUE, !.commission = IF @ = "none" THEN "low" ELSE @]

Reactivated(v) ==
    [v EXCEPT !.status = IF /\ @ = "StakesSuspended"
                            /\ does_perform_well(v.vote, v.commission)
                         THEN "AcceptingStakes" ELSE @]

Deactivated(v) ==
    [v EXCEPT !.status = IF /\ @ = "AcceptingStakes"
                            /\ ~does_perform_well(v.vote, v.commission)
                         THEN "StakesSuspended" ELSE @]

Unstaked(v, amount) ==
    [v EXCEPT !.stakes = IF IsActive(v) THEN <<@[1] - amount>> \o Tail(@) ELSE Tail(@),
              !.begin = IF IsActive(v) THEN @ ELSE @ + 1,
              !.fresh = @ /\ (IsActive(v) \/ Len(v.stakes) > 1),
              !.unstakes = Append(@, amount)]

Updated(v) ==
    [v EXCEPT !.unstakes = SubSeq(@, v.cooled + 1, Len(@)),
              !.unstake_begin = @ + v.cooled,
              !.cooled = 0,
              !.tracked = Sum(v.stakes) + Sum(SubSeq(v.unstakes, v.cooled + 1, Len(v.unstakes)))]

Staked(v, merges, amount) ==
    [v EXCEPT !.stakes = IF merges THEN AddToLast(@, amount) ELSE Append(@, amount),
              !.fresh = TRUE,
              !.tracked = @ + amount]

\* The validator is the same, and while it is active its first stake account remains.
Succeeds(v, w) ==
    /\ IsEntry(w)
    /\ w.pubkey = v.pubkey
    /\ IsActive(v) /\ IsActive(w) /\ v.stakes # <<>> => w.stakes # <<>>

LEMMA MergedEntry ==
    ASSUME NEW v, IsEntry(v), Len(v.stakes) > 1
    PROVE  Succeeds(v, Merged(v)) /\ Merged(v).begin = v.begin + 1 /\ v.begin + 1 # v.begin
<1>. DEFINE s == v.stakes
            t == <<s[1] + s[2]>> \o SubSeq(s, 3, Len(s))
            w == Merged(v)
<1>0. s \in Seq(Sufficient) /\ Len(s) > 1 /\ Len(s) \in Nat
  BY EntryFacts
<1>1. w = [v EXCEPT !.stakes = t, !.begin = @ + 1]
  BY DEF Merged
<1>. HIDE DEF s
<1>2. t \in Seq(Sufficient) /\ t # <<>>
  <2>. DEFINE d == SubSeq(s, 3, Len(s))
              x == s[1] + s[2]
  <2>1. x \in Sufficient
    BY <1>0, SufficientFacts, BalanceAssumption DEF Sufficient
  <2>2. d \in Seq(Sufficient)
    <3>1. \A k \in 3..Len(s) : s[k] \in Sufficient
      <4>1. \A k \in 1..Len(s) : s[k] \in Sufficient
        BY <1>0
      <4>2. \A k \in 3..Len(s) : k \in 1..Len(s)
        BY <1>0
      <4>. QED
        BY <4>1, <4>2
    <3>. QED
      BY <1>0, <3>1, SubSeqProperties
  <2>. HIDE DEF d, x
  <2>3. <<x>> \o d \in Seq(Sufficient) /\ <<x>> \o d # <<>>
    BY <2>1, <2>2, PrependIsFollowed, Zenon
  <2>. QED
    BY <2>3 DEF x, d
<1>. HIDE DEF t
<1>3. t \in Seq(Nat) /\ \A k \in DOMAIN t : t[k] >= MINIMUM_STAKE_ACCOUNT_BALANCE
  BY <1>2, SufficientFacts
<1>4. v \in ValidatorState /\ IsSound(v) /\ v.begin \in Nat
  BY EntryFacts DEF IsEntry
<1>. DEFINE b == v.begin + 1
<1>7. b \in Nat /\ w = [v EXCEPT !.stakes = t, !.begin = b]
  BY <1>1, <1>4
<1>8. b = v.begin + 1 /\ b # v.begin
  BY <1>4
<1>. HIDE DEF w, b
<1>9. w \in ValidatorState
  BY <1>3, <1>4, <1>7 DEF ValidatorState
<1>5. /\ w.stakes = t /\ w.begin = b /\ w.pubkey = v.pubkey
      /\ w.cooled = v.cooled /\ w.unstakes = v.unstakes
      /\ w.commission = v.commission /\ w.commission_is_new = v.commission_is_new
  BY <1>4, <1>7 DEF ValidatorState
<1>6. IsSound(w)
  BY <1>3, <1>4, <1>5 DEF IsSound
<1>. QED
  BY <1>2, <1>5, <1>6, <1>8, <1>9 DEF Succeeds, IsEntry, w

\* What is not about stake.
LEMMA OtherFields ==
    ASSUME NEW v, IsEntry(v), NEW w, w \in ValidatorState, w.pubkey = v.pubkey,
           w.stakes = v.stakes, w.unstakes = v.unstakes, w.cooled = v.cooled,
           w.commission_is_new => w.commission # "none"
    PROVE  Succeeds(v, w)
<1>1. IsSound(v)
  BY DEF IsEntry
<1>2. IsSound(w)
  BY <1>1 DEF IsSound
<1>. QED
  BY <1>2 DEF Succeeds, IsEntry

LEMMA RecordedCommissionEntry ==
    ASSUME NEW v, IsEntry(v), IsOpen(v)
    PROVE  /\ Succeeds(v, RecordedCommission(v))
           /\ RecordedCommission(v).commission_is_new = TRUE
           /\ RecordedCommission(v).commission = v.vote
           /\ RecordedCommission(v).vote = v.vote
<1>. DEFINE w == RecordedCommission(v)
<1>1. w = [v EXCEPT !.commission = v.vote, !.commission_is_new = TRUE]
  BY DEF RecordedCommission
<1>2. v.vote \in {"low", "high"}
  BY EntryFacts DEF IsOpen
<1>3. v \in ValidatorState
  BY DEF IsEntry
<1>. HIDE DEF w
<1>4. w \in ValidatorState
  BY <1>1, <1>2, <1>3 DEF ValidatorState
<1>5. /\ w.pubkey = v.pubkey /\ w.stakes = v.stakes /\ w.unstakes = v.unstakes
      /\ w.cooled = v.cooled /\ w.vote = v.vote
      /\ w.commission = v.vote /\ w.commission_is_new = TRUE
  BY <1>1, <1>3 DEF ValidatorState
<1>6. Succeeds(v, w)
  BY <1>2, <1>4, <1>5, OtherFields
<1>. QED
  BY <1>5, <1>6 DEF w

LEMMA RecordedRestEntry ==
    ASSUME NEW v, IsEntry(v)
    PROVE  /\ Succeeds(v, RecordedRest(v))
           /\ RecordedRest(v).rest_is_new = TRUE
<1>. DEFINE w == RecordedRest(v)
            c == IF v.commission = "none" THEN "low" ELSE v.commission
<1>1. w = [v EXCEPT !.rest_is_new = TRUE, !.commission = c]
  BY DEF RecordedRest
<1>2. c \in {"none", "low", "high"} /\ c # "none"
  BY EntryFacts
<1>3. v \in ValidatorState
  BY DEF IsEntry
<1>. HIDE DEF w, c
<1>4. w \in ValidatorState
  BY <1>1, <1>2, <1>3 DEF ValidatorState
<1>5. /\ w.pubkey = v.pubkey /\ w.stakes = v.stakes /\ w.unstakes = v.unstakes
      /\ w.cooled = v.cooled /\ w.commission = c /\ w.rest_is_new = TRUE
  BY <1>1, <1>3 DEF ValidatorState
<1>6. Succeeds(v, w)
  BY <1>2, <1>4, <1>5, OtherFields
<1>. QED
  BY <1>5, <1>6 DEF w

\* A status is changed.
LEMMA StatusEntry ==
    ASSUME NEW v, IsEntry(v), NEW status \in {"AcceptingStakes", "StakesSuspended", "PendingRemoval"},
           NEW w, w = [v EXCEPT !.status = status]
    PROVE  /\ Succeeds(v, w)
           /\ w.status = status /\ w.vote = v.vote /\ w.commission = v.commission
           /\ status = v.status => w = v
<1>3. v \in ValidatorState /\ IsSound(v)
  BY DEF IsEntry
<1>4. w \in ValidatorState
  BY <1>3 DEF ValidatorState
<1>5. /\ w.pubkey = v.pubkey /\ w.stakes = v.stakes /\ w.unstakes = v.unstakes
      /\ w.cooled = v.cooled /\ w.commission = v.commission /\ w.vote = v.vote
      /\ w.commission_is_new = v.commission_is_new
      /\ w.status = status
  BY <1>3 DEF ValidatorState
<1>6. Succeeds(v, w)
  BY <1>3, <1>4, <1>5, OtherFields DEF IsSound
<1>7. status = v.status => w = v
  BY <1>3 DEF ValidatorState
<1>. QED
  BY <1>5, <1>6, <1>7

LEMMA ReactivatedEntry ==
    ASSUME NEW v, IsEntry(v)
    PROVE  /\ Succeeds(v, Reactivated(v))
           /\ Reactivated(v) = v \/ Reactivated(v).status = "AcceptingStakes"
           /\ v.status = "StakesSuspended" /\ does_perform_well(v.vote, v.commission)
              => Reactivated(v).status = "AcceptingStakes"
<1>. DEFINE s == IF v.status = "StakesSuspended" /\ does_perform_well(v.vote, v.commission)
                 THEN "AcceptingStakes" ELSE v.status
            w == Reactivated(v)
<1>1. w = [v EXCEPT !.status = s]
  BY DEF Reactivated
<1>2. s \in {"AcceptingStakes", "StakesSuspended", "PendingRemoval"}
  BY EntryFacts
<1>3. /\ s = v.status \/ s = "AcceptingStakes"
      /\ v.status = "StakesSuspended" /\ does_perform_well(v.vote, v.commission)
         => s = "AcceptingStakes"
  OBVIOUS
<1>. HIDE DEF s, w
<1>4. Succeeds(v, w) /\ w.status = s /\ (s = v.status => w = v)
  BY <1>1, <1>2, StatusEntry
<1>. QED
  BY <1>3, <1>4 DEF w

LEMMA DeactivatedEntry ==
    ASSUME NEW v, IsEntry(v)
    PROVE  /\ Succeeds(v, Deactivated(v))
           /\ Deactivated(v) = v \/ Deactivated(v).status = "StakesSuspended"
           /\ v.status = "AcceptingStakes" /\ ~does_perform_well(v.vote, v.commission)
              => Deactivated(v).status = "StakesSuspended"
<1>. DEFINE s == IF v.status = "AcceptingStakes" /\ ~does_perform_well(v.vote, v.commission)
                 THEN "StakesSuspended" ELSE v.status
            w == Deactivated(v)
<1>1. w = [v EXCEPT !.status = s]
  BY DEF Deactivated
<1>2. s \in {"AcceptingStakes", "StakesSuspended", "PendingRemoval"}
  BY EntryFacts
<1>3. /\ s = v.status \/ s = "StakesSuspended"
      /\ v.status = "AcceptingStakes" /\ ~does_perform_well(v.vote, v.commission)
         => s = "StakesSuspended"
  OBVIOUS
<1>. HIDE DEF s, w
<1>4. Succeeds(v, w) /\ w.status = s /\ (s = v.status => w = v)
  BY <1>1, <1>2, StatusEntry
<1>. QED
  BY <1>3, <1>4 DEF w

\* Both are without effect once they have had one.
LEMMA StatusIsStable ==
    ASSUME NEW v, IsEntry(v)
    PROVE  /\ v.status = "AcceptingStakes" => Reactivated(v) = v
           /\ v.status = "StakesSuspended" => Deactivated(v) = v
<1>1. ASSUME v.status = "AcceptingStakes" PROVE Reactivated(v) = v
  <2>1. Reactivated(v) = [v EXCEPT !.status = v.status]
    BY <1>1 DEF Reactivated
  <2>2. v.status \in {"AcceptingStakes", "StakesSuspended", "PendingRemoval"}
    BY EntryFacts
  <2>. QED
    BY <2>1, <2>2, StatusEntry
<1>2. ASSUME v.status = "StakesSuspended" PROVE Deactivated(v) = v
  <2>1. Deactivated(v) = [v EXCEPT !.status = v.status]
    BY <1>2 DEF Deactivated
  <2>2. v.status \in {"AcceptingStakes", "StakesSuspended", "PendingRemoval"}
    BY EntryFacts
  <2>. QED
    BY <2>1, <2>2, StatusEntry
<1>. QED
  BY <1>1, <1>2

\* A vote account changes.
LEMMA VoteEntry ==
    ASSUME NEW v, IsEntry(v), NEW vote \in {"low", "high", "closed"}, NEW w, w = [v EXCEPT !.vote = vote]
    PROVE  Succeeds(v, w)
<1>3. v \in ValidatorState /\ IsSound(v)
  BY DEF IsEntry
<1>4. w \in ValidatorState
  BY <1>3 DEF ValidatorState
<1>5. /\ w.pubkey = v.pubkey /\ w.stakes = v.stakes /\ w.unstakes = v.unstakes
      /\ w.cooled = v.cooled /\ w.commission = v.commission
      /\ w.commission_is_new = v.commission_is_new
  BY <1>3 DEF ValidatorState
<1>. QED
  BY <1>3, <1>4, <1>5, OtherFields DEF IsSound

\* An epoch begins.
LEMMA AgedEntry ==
    ASSUME NEW v, IsEntry(v)
    PROVE  Succeeds(v, Aged(v))
<1>. DEFINE w == Aged(v)
            c == Len(v.unstakes)
<1>1. w = [v EXCEPT !.commission_is_new = FALSE, !.rest_is_new = FALSE, !.fresh = FALSE, !.cooled = c]
  BY DEF Aged
<1>2. c \in Nat /\ c = Len(v.unstakes)
  BY EntryFacts
<1>3. v \in ValidatorState /\ IsSound(v)
  BY DEF IsEntry
<1>. HIDE DEF w, c
<1>4. w \in ValidatorState
  BY <1>1, <1>2, <1>3 DEF ValidatorState
<1>5. /\ w.pubkey = v.pubkey /\ w.stakes = v.stakes /\ w.unstakes = v.unstakes
      /\ w.cooled = c /\ w.commission_is_new = FALSE
  BY <1>1, <1>3 DEF ValidatorState
<1>6. IsSound(w)
  <2>1. w.cooled <= Len(w.unstakes)
    BY <1>2, <1>5
  <2>. QED
    BY <1>3, <1>5, <2>1 DEF IsSound
<1>. QED
  BY <1>4, <1>5, <1>6 DEF Succeeds, IsEntry, w

\* Another balance on the first stake account.
LEMMA RewardedEntry ==
    ASSUME NEW v, IsEntry(v), v.stakes # <<>>, NEW w, w = [v EXCEPT !.stakes[1] = @ + 1]
    PROVE  Succeeds(v, w)
<1>. DEFINE s == v.stakes
            x == s[1] + 1
            t == [s EXCEPT ![1] = x]
<1>1. w = [v EXCEPT !.stakes = t]
  OBVIOUS
<1>2. s \in Seq(Sufficient) /\ s # <<>>
  BY EntryFacts
<1>. HIDE DEF s
<1>3. x \in Sufficient
  BY <1>2, SufficientFacts, BalanceAssumption DEF Sufficient
<1>. HIDE DEF x
<1>4. t \in Seq(Sufficient) /\ t # <<>>
  BY <1>2, <1>3, FirstIsFollowed
<1>. HIDE DEF t
<1>5. t \in Seq(Nat) /\ \A k \in DOMAIN t : t[k] >= MINIMUM_STAKE_ACCOUNT_BALANCE
  BY <1>4, SufficientFacts
<1>6. v \in ValidatorState /\ IsSound(v)
  BY DEF IsEntry
<1>7. w \in ValidatorState
  BY <1>1, <1>5, <1>6 DEF ValidatorState
<1>8. /\ w.stakes = t /\ w.pubkey = v.pubkey
      /\ w.cooled = v.cooled /\ w.unstakes = v.unstakes
      /\ w.commission = v.commission /\ w.commission_is_new = v.commission_is_new
  BY <1>1, <1>6 DEF ValidatorState
<1>9. IsSound(w)
  BY <1>5, <1>6, <1>8 DEF IsSound
<1>. QED
  BY <1>4, <1>7, <1>8, <1>9 DEF Succeeds, IsEntry

LEMMA UnstakedEntry ==
    ASSUME NEW v, IsEntry(v), v.stakes # <<>>, NEW amount \in Nat, LeavesEnough(v, amount)
    PROVE  /\ Succeeds(v, Unstaked(v, amount))
           /\ UnstakeEnd(Unstaked(v, amount)) = UnstakeEnd(v) + 1
           /\ UnstakeEnd(v) \in Nat
           /\ Unstaked(v, amount).unstakes # v.unstakes
<1>. DEFINE s == v.stakes
            x == s[1] - amount
            t == IF IsActive(v) THEN <<x>> \o Tail(s) ELSE Tail(s)
            b == IF IsActive(v) THEN v.begin ELSE v.begin + 1
            f == v.fresh /\ (IsActive(v) \/ Len(v.stakes) > 1)
            u == Append(v.unstakes, amount)
            w == Unstaked(v, amount)
<1>1. w = [v EXCEPT !.stakes = t, !.begin = b, !.fresh = f, !.unstakes = u]
  BY DEF Unstaked
<1>2. s \in Seq(Sufficient) /\ s # <<>> /\ b \in Nat /\ f \in BOOLEAN
  BY EntryFacts
<1>3. /\ v.unstakes \in Seq(Nat) /\ Len(v.unstakes) \in Nat /\ v.unstake_begin \in Nat
      /\ v.cooled \in Nat /\ v.cooled <= Len(v.unstakes)
  BY EntryFacts
<1>4. u \in Seq(Nat) /\ Len(u) = Len(v.unstakes) + 1
  <2>. DEFINE o == v.unstakes
  <2>1. o \in Seq(Nat)
    BY <1>3
  <2>. HIDE DEF o
  <2>2. Append(o, amount) \in Seq(Nat) /\ Len(Append(o, amount)) = Len(o) + 1
    BY <2>1
  <2>. QED
    BY <2>2 DEF o
<1>5. t \in Seq(Sufficient) /\ (IsActive(v) => t # <<>>)
  <2>0. Tail(s) \in Seq(Sufficient)
    <3>. HIDE DEF s
    <3>. QED
      BY <1>2, TailFollows
  <2>1. CASE IsActive(v)
    <3>1. x >= MINIMUM_STAKE_ACCOUNT_BALANCE /\ s[1] \in Nat
      BY <1>2, <2>1, SufficientFacts DEF LeavesEnough
    <3>2. x \in Sufficient
      <4>. HIDE DEF s
      <4>. QED
        BY <3>1, BalanceAssumption DEF Sufficient
    <3>3. t = <<x>> \o Tail(s)
      BY <2>1
    <3>. HIDE DEF s, x, t
    <3>4. <<x>> \o Tail(s) \in Seq(Sufficient) /\ <<x>> \o Tail(s) # <<>>
      BY <2>0, <3>2, PrependIsFollowed, Zenon
    <3>. QED
      BY <3>3, <3>4, Zenon
  <2>2. CASE ~IsActive(v)
    BY <2>0, <2>2
  <2>. QED
    BY <2>1, <2>2
<1>. HIDE DEF s, x, t, b, f, u, w
<1>6. t \in Seq(Nat) /\ \A k \in DOMAIN t : t[k] >= MINIMUM_STAKE_ACCOUNT_BALANCE
  BY <1>5, SufficientFacts
<1>7. v \in ValidatorState /\ IsSound(v)
  BY DEF IsEntry
<1>8. w \in ValidatorState
  BY <1>1, <1>2, <1>4, <1>6, <1>7 DEF ValidatorState
<1>9. /\ w.stakes = t /\ w.pubkey = v.pubkey /\ w.unstakes = u
      /\ w.cooled = v.cooled /\ w.unstake_begin = v.unstake_begin
      /\ w.commission = v.commission /\ w.commission_is_new = v.commission_is_new
  BY <1>1, <1>7 DEF ValidatorState
<1>10. w.cooled <= Len(w.unstakes)
  BY <1>3, <1>4, <1>9
<1>11. IsSound(w)
  BY <1>6, <1>7, <1>9, <1>10 DEF IsSound
<1>12. UnstakeEnd(w) = UnstakeEnd(v) + 1 /\ UnstakeEnd(v) \in Nat
  <2>. DEFINE a == v.unstake_begin
              l == Len(v.unstakes)
  <2>1. a \in Nat /\ l \in Nat /\ UnstakeEnd(v) = a + l /\ UnstakeEnd(w) = a + (l + 1)
    BY <1>3, <1>4, <1>9 DEF UnstakeEnd
  <2>. HIDE DEF a, l
  <2>. QED
    BY <2>1
<1>13. w.unstakes # v.unstakes
  BY <1>3, <1>4, <1>9
<1>. QED
  BY <1>5, <1>8, <1>9, <1>11, <1>12, <1>13 DEF Succeeds, IsEntry, w

LEMMA StakedEntry ==
    ASSUME NEW v, IsEntry(v), NEW merges \in BOOLEAN, NEW amount \in Nat,
           amount >= MINIMUM_STAKE_ACCOUNT_BALANCE
    PROVE  /\ Succeeds(v, Staked(v, merges, amount))
           /\ End(v) \in Nat
           /\ ~merges => End(Staked(v, merges, amount)) = End(v) + 1
<1>. DEFINE s == v.stakes
            t == IF merges THEN AddToLast(s, amount) ELSE Append(s, amount)
            x == v.tracked + amount
            w == Staked(v, merges, amount)
<1>1. w = [v EXCEPT !.stakes = t, !.fresh = TRUE, !.tracked = x]
  BY DEF Staked
<1>2. s \in Seq(Sufficient) /\ Len(s) \in Nat /\ x \in Nat /\ v.begin \in Nat
  BY EntryFacts
<1>s. s = v.stakes
  OBVIOUS
<1>. HIDE DEF s
<1>3. t \in Seq(Sufficient) /\ (s # <<>> => t # <<>>) /\ (~merges => Len(t) = Len(s) + 1)
  <2>1. CASE merges
    <3>. DEFINE a == AddToLast(s, amount)
    <3>1. a = [k \in 1..Len(s) |-> IF k = Len(s) THEN s[k] + amount ELSE s[k]]
      BY <1>2 DEF AddToLast
    <3>2. \A k \in 1..Len(s) : s[k] \in Nat /\ s[k] >= MINIMUM_STAKE_ACCOUNT_BALANCE
      <4>1. \A k \in 1..Len(s) : s[k] \in Sufficient
        BY <1>2
      <4>. QED
        BY <4>1 DEF Sufficient
    <3>3. \A k \in 1..Len(s) : (IF k = Len(s) THEN s[k] + amount ELSE s[k]) \in Sufficient
      BY <3>2, BalanceAssumption DEF Sufficient
    <3>4. a \in Seq(Sufficient) /\ Len(a) = Len(s)
      <4>. HIDE DEF a
      <4>. QED
        BY <1>2, <3>1, <3>3
    <3>5. s # <<>> => a # <<>>
      <4>. HIDE DEF a
      <4>. QED
        BY <1>2, <3>4
    <3>. QED
      BY <2>1, <3>4, <3>5
  <2>2. CASE ~merges
    <3>1. amount \in Sufficient
      BY DEF Sufficient
    <3>2. Append(s, amount) \in Seq(Sufficient) /\ Append(s, amount) # <<>> /\ Len(Append(s, amount)) = Len(s) + 1
      BY <1>2, <3>1
    <3>. QED
      BY <2>2, <3>2
  <2>. QED
    BY <2>1, <2>2
<1>. HIDE DEF t, x, w
<1>6. t \in Seq(Nat) /\ \A k \in DOMAIN t : t[k] >= MINIMUM_STAKE_ACCOUNT_BALANCE
  BY <1>3, SufficientFacts
<1>7. v \in ValidatorState /\ IsSound(v)
  BY DEF IsEntry
<1>8. w \in ValidatorState
  BY <1>1, <1>2, <1>6, <1>7 DEF ValidatorState
<1>9. /\ w.stakes = t /\ w.pubkey = v.pubkey /\ w.unstakes = v.unstakes
      /\ w.cooled = v.cooled /\ w.begin = v.begin
      /\ w.commission = v.commission /\ w.commission_is_new = v.commission_is_new
  BY <1>1, <1>7 DEF ValidatorState
<1>11. IsSound(w)
  BY <1>6, <1>7, <1>9 DEF IsSound
<1>12. End(v) \in Nat /\ (~merges => End(w) = End(v) + 1)
  <2>. DEFINE a == v.begin
              l == Len(s)
  <2>1. a \in Nat /\ l \in Nat /\ End(v) = a + l /\ (~merges => End(w) = a + (l + 1))
    BY <1>2, <1>3, <1>9, <1>s DEF End
  <2>. HIDE DEF a, l
  <2>. QED
    BY <2>1
<1>. QED
  BY <1>3, <1>8, <1>9, <1>11, <1>12, <1>s DEF Succeeds, IsEntry, w

\* The unstake accounts that are left.
LEMMA RestOfUnstakes ==
    ASSUME NEW u \in Seq(Nat), NEW c \in 0..Len(u)
    PROVE  /\ SubSeq(u, c + 1, Len(u)) \in Seq(Nat)
           /\ Sum(SubSeq(u, 1, c)) \in Nat
           /\ Sum(SubSeq(u, c + 1, Len(u))) \in Nat
           /\ SubSeq(u, 1, Len(u)) = u
           /\ Sum(SubSeq(u, 1, 0)) = 0
<1>1. /\ SubSeq(u, c + 1, Len(u)) \in Seq(Nat)
      /\ Sum(SubSeq(u, 1, c)) \in Nat /\ Sum(SubSeq(u, c + 1, Len(u))) \in Nat
  BY SumOfSubSeq
<1>2. SubSeq(u, 1, Len(u)) = u
  <2>. DEFINE t == SubSeq(u, 1, Len(u))
  <2>0. Len(u) \in Nat /\ 1 \in Int /\ Len(u) \in Int /\ \A k \in 1..Len(u) : u[k] \in Nat
    OBVIOUS
  <2>1. t \in Seq(Nat)
    BY <2>0, SubSeqProperties
  <2>2. Len(t) = IF 1 <= Len(u) THEN Len(u) - 1 + 1 ELSE 0
    BY <2>0, SubSeqProperties
  <2>3. \A i \in 1..(Len(u) - 1 + 1) : t[i] = u[1 + i - 1]
    BY <2>0, SubSeqProperties
  <2>. HIDE DEF t
  <2>4. Len(t) = Len(u)
    BY <2>0, <2>2
  <2>5. ASSUME NEW i \in 1..Len(t) PROVE t[i] = u[i]
    <3>1. i \in 1..(Len(u) - 1 + 1) /\ 1 + i - 1 = i
      BY <2>0, <2>4
    <3>2. t[i] = u[1 + i - 1]
      BY <2>3, <3>1
    <3>. QED
      BY <3>1, <3>2
  <2>6. t = u
    BY <2>1, <2>4, <2>5, SeqEqual
  <2>. QED
    BY <2>6 DEF t
<1>3. Sum(SubSeq(u, 1, 0)) = 0
  <2>. DEFINE t == SubSeq(u, 1, 0)
  <2>1. t \in Seq(Nat) /\ t = <<>>
    OBVIOUS
  <2>. HIDE DEF t
  <2>2. Sum(t) = 0
    BY <2>1, SumIsNatural
  <2>. QED
    BY <2>2 DEF t
<1>. QED
  BY <1>1, <1>2, <1>3

LEMMA UpdatedEntry ==
    ASSUME NEW v, IsEntry(v)
    PROVE  /\ Succeeds(v, Updated(v))
           /\ Updated(v).cooled = 0
           /\ Updated(v).tracked = Sum(v.stakes) + Sum(SubSeq(v.unstakes, v.cooled + 1, Len(v.unstakes)))
           /\ Sum(SubSeq(v.unstakes, 1, v.cooled)) \in Nat
           /\ Updated(Updated(v)) = Updated(v)
           /\ Sum(SubSeq(Updated(v).unstakes, 1, 0)) = 0
<1>. DEFINE c == v.cooled
            u == SubSeq(v.unstakes, v.cooled + 1, Len(v.unstakes))
            b == v.unstake_begin + v.cooled
            t == Sum(v.stakes) + Sum(u)
            w == Updated(v)
<1>1. w = [v EXCEPT !.unstakes = u, !.unstake_begin = b, !.cooled = 0, !.tracked = t]
  BY DEF Updated
<1>2. /\ v.unstakes \in Seq(Nat) /\ v.cooled \in 0..Len(v.unstakes)
      /\ v.unstake_begin \in Nat /\ v.stakes \in Seq(Nat)
  BY EntryFacts
<1>3. u \in Seq(Nat) /\ Sum(u) \in Nat /\ Sum(SubSeq(v.unstakes, 1, v.cooled)) \in Nat
  <2>. DEFINE o == v.unstakes
              d == v.cooled
  <2>1. o \in Seq(Nat) /\ d \in 0..Len(o)
    BY <1>2
  <2>. HIDE DEF o, d
  <2>2. /\ SubSeq(o, d + 1, Len(o)) \in Seq(Nat) /\ Sum(SubSeq(o, d + 1, Len(o))) \in Nat
        /\ Sum(SubSeq(o, 1, d)) \in Nat
    BY <2>1, RestOfUnstakes
  <2>. QED
    BY <2>2 DEF o, d
<1>4. Sum(v.stakes) \in Nat
  BY <1>2, SumIsNatural
<1>5. b \in Nat /\ t \in Nat
  BY <1>2, <1>3, <1>4
<1>t. t = Sum(v.stakes) + Sum(u)
  OBVIOUS
<1>. HIDE DEF w, u, b, t
<1>7. v \in ValidatorState /\ IsSound(v)
  BY DEF IsEntry
<1>8. w \in ValidatorState
  BY <1>1, <1>3, <1>5, <1>7 DEF ValidatorState
<1>9. /\ w.stakes = v.stakes /\ w.pubkey = v.pubkey /\ w.unstakes = u
      /\ w.cooled = 0 /\ w.unstake_begin = b /\ w.tracked = t
      /\ w.commission = v.commission /\ w.commission_is_new = v.commission_is_new
  BY <1>1, <1>7 DEF ValidatorState
<1>10. Len(u) \in Nat /\ 0 <= Len(u)
  BY <1>3
<1>11. IsSound(w)
  BY <1>7, <1>9, <1>10 DEF IsSound
<1>12. /\ SubSeq(u, 0 + 1, Len(u)) = u /\ Sum(SubSeq(u, 1, 0)) = 0
  <2>1. 0 \in 0..Len(u) /\ 0 + 1 = 1
    BY <1>10
  <2>. QED
    BY <1>3, <2>1, RestOfUnstakes
<1>13. Updated(w) = w
  <2>1. Updated(w) = [w EXCEPT !.unstakes = SubSeq(u, 0 + 1, Len(u)), !.unstake_begin = b + 0,
                               !.cooled = 0,
                               !.tracked = Sum(v.stakes) + Sum(SubSeq(u, 0 + 1, Len(u)))]
    BY <1>9 DEF Updated
  <2>2. b + 0 = b
    BY <1>5
  <2>3. Updated(w) = [w EXCEPT !.unstakes = u, !.unstake_begin = b, !.cooled = 0, !.tracked = t]
    BY <1>12, <1>t, <2>1, <2>2
  <2>. QED
    BY <1>8, <1>9, <2>3 DEF ValidatorState
<1>. QED
  BY <1>3, <1>8, <1>9, <1>11, <1>12, <1>13 DEF Succeeds, IsEntry, w, u, t

-----------------------------------------------------------------------------
(* What instructions do to the pool *)

LEMMA PoolFacts ==
    ASSUME NEW p, IsPool(p)
    PROVE  /\ p.reserve \in Nat /\ p.rate \in BOOLEAN /\ p.list \in Seq(ValidatorState)
           /\ Len(p.list) \in Nat /\ DOMAIN p.list = 1..Len(p.list)
           /\ \A i \in DOMAIN p.list : IsEntry(p.list[i])
           /\ HasUniqueKeys(p.list)
           /\ p = [reserve |-> p.reserve, rate |-> p.rate, list |-> p.list]
<1>1. p \in [reserve : Nat, rate : BOOLEAN, list : Seq(ValidatorState)]
  BY DEF IsPool
<1>2. /\ p.reserve \in Nat /\ p.rate \in BOOLEAN /\ p.list \in Seq(ValidatorState)
      /\ p = [reserve |-> p.reserve, rate |-> p.rate, list |-> p.list]
  BY <1>1
<1>. DEFINE l == p.list
<1>3. l \in Seq(ValidatorState)
  BY <1>2
<1>. HIDE DEF l
<1>4. Len(l) \in Nat /\ DOMAIN l = 1..Len(l) /\ \A i \in DOMAIN l : l[i] \in ValidatorState
  BY <1>3
<1>5. \A i \in DOMAIN l : IsEntry(l[i])
  BY <1>4 DEF IsPool, IsEntry, l
<1>. QED
  BY <1>2, <1>4, <1>5 DEF IsPool, l

AreEntries(l, n) ==
    /\ l = [i \in 1..n |-> l[i]]
    /\ \A i \in 1..n : IsEntry(l[i])
    /\ \A i, j \in 1..n : l[i].pubkey = l[j].pubkey => i = j

IsPoolOf(q, r, b, l) == q = [reserve |-> r, rate |-> b, list |-> l]

LEMMA PoolFrom ==
    ASSUME NEW r \in Nat, NEW b \in BOOLEAN, NEW n \in Nat, NEW l, AreEntries(l, n),
           NEW q, IsPoolOf(q, r, b, l)
    PROVE  IsPool(q) /\ q.reserve = r /\ q.rate = b /\ q.list = l
<1>1. \A i \in 1..n : l[i] \in ValidatorState /\ IsSound(l[i])
  BY DEF AreEntries, IsEntry
<1>2. l \in Seq(ValidatorState) /\ DOMAIN l = 1..n
  <2>. DEFINE E == ValidatorState
  <2>1. \A i \in 1..n : l[i] \in E
    BY <1>1
  <2>. HIDE DEF E
  <2>2. l \in Seq(E) /\ DOMAIN l = 1..n
    BY <2>1 DEF AreEntries
  <2>. QED
    BY <2>2 DEF E
<1>3. q \in [reserve : Nat, rate : BOOLEAN, list : Seq(ValidatorState)] /\ q.list = l
  <2>. DEFINE S == Seq(ValidatorState)
  <2>1. l \in S
    BY <1>2
  <2>. HIDE DEF S
  <2>2. q \in [reserve : Nat, rate : BOOLEAN, list : S] /\ q.list = l
    BY <2>1 DEF IsPoolOf
  <2>. QED
    BY <2>2 DEF S
<1>4. HasUniqueKeys(l)
  BY <1>2 DEF AreEntries, HasUniqueKeys
<1>5. \A i \in DOMAIN l : IsSound(l[i])
  BY <1>1, <1>2
<1>6. IsPool(q)
  BY <1>3, <1>4, <1>5 DEF IsPool
<1>. QED
  BY <1>6 DEF IsPoolOf

\* Validators that stay active keep their stake.
KeepsStake(p, q) ==
    \A i \in DOMAIN p.list, j \in DOMAIN q.list :
       /\ p.list[i].pubkey = q.list[j].pubkey
       /\ IsActive(p.list[i]) /\ IsActive(q.list[j])
       /\ p.list[i].stakes # <<>>
       => q.list[j].stakes # <<>>

\* One validator and the reserve are changed.
Replaces(p, i, w, r, q) ==
    q = [reserve |-> r, rate |-> p.rate, list |-> [p.list EXCEPT ![i] = w]]

LEMMA OneIsReplaced ==
    ASSUME NEW p, IsPool(p), NEW i \in DOMAIN p.list, NEW w, Succeeds(p.list[i], w),
           NEW r \in Nat, NEW q, Replaces(p, i, w, r, q)
    PROVE  /\ IsPool(q) /\ KeepsStake(p, q)
           /\ q.reserve = r /\ q.rate = p.rate /\ DOMAIN q.list = DOMAIN p.list
           /\ q.list[i] = w
           /\ \A j \in DOMAIN p.list : q.list[j].pubkey = p.list[j].pubkey
<1>0. /\ Len(p.list) \in Nat /\ DOMAIN p.list = 1..Len(p.list) /\ p.rate \in BOOLEAN
      /\ \A j \in DOMAIN p.list : IsEntry(p.list[j])
      /\ HasUniqueKeys(p.list)
  BY PoolFacts
<1>. DEFINE n == Len(p.list)
            l == [p.list EXCEPT ![i] = w]
            b == p.rate
<1>1. /\ n \in Nat /\ i \in 1..n /\ b \in BOOLEAN
      /\ l = [j \in 1..n |-> l[j]] /\ DOMAIN l = 1..n /\ l[i] = w
      /\ \A j \in 1..n : j # i => l[j] = p.list[j]
  BY <1>0
<1>2. q = [reserve |-> r, rate |-> b, list |-> l]
  BY DEF Replaces
<1>3. IsEntry(w) /\ w.pubkey = p.list[i].pubkey
  BY DEF Succeeds
<1>. HIDE DEF l, n, b
<1>4. \A j \in 1..n : l[j].pubkey = p.list[j].pubkey /\ IsEntry(l[j])
  BY <1>0, <1>1, <1>3 DEF n
<1>5. \A j, k \in 1..n : l[j].pubkey = l[k].pubkey => j = k
  BY <1>0, <1>4 DEF HasUniqueKeys, n
<1>6. IsPool(q) /\ q.reserve = r /\ q.rate = b /\ q.list = l
  <2>1. AreEntries(l, n)
    BY <1>1, <1>4, <1>5 DEF AreEntries
  <2>2. IsPoolOf(q, r, b, l) /\ n \in Nat /\ b \in BOOLEAN
    BY <1>1, <1>2 DEF IsPoolOf
  <2>. QED
    BY <2>1, <2>2, PoolFrom
<1>7. KeepsStake(p, q)
  <2>. SUFFICES ASSUME NEW j \in 1..n, NEW k \in 1..n, p.list[j].pubkey = l[k].pubkey,
                       IsActive(p.list[j]), IsActive(l[k]), p.list[j].stakes # <<>>
                PROVE  l[k].stakes # <<>>
    BY <1>0, <1>1, <1>6 DEF KeepsStake, n
  <2>1. j = k
    BY <1>0, <1>4 DEF HasUniqueKeys, n
  <2>2. CASE k = i
    BY <1>1, <2>1, <2>2 DEF Succeeds
  <2>3. CASE k # i
    BY <1>1, <2>1, <2>3
  <2>. QED
    BY <2>2, <2>3
<1>. QED
  BY <1>0, <1>1, <1>4, <1>6, <1>7 DEF n, b

\* With, and with another reserve.
LEMMA WithReplaces ==
    ASSUME IsPool(pool), NEW i \in DOMAIN pool.list, NEW w
    PROVE  /\ Replaces(pool, i, w, pool.reserve, With(i, w))
           /\ \A x : Replaces(pool, i, w, x, [With(i, w) EXCEPT !.reserve = x])
           /\ With(i, w).reserve = pool.reserve
           /\ w = pool.list[i] => With(i, w) = pool
<1>1. pool = [reserve |-> pool.reserve, rate |-> pool.rate, list |-> pool.list]
  BY PoolFacts
<1>2. With(i, w) = [reserve |-> pool.reserve, rate |-> pool.rate,
                    list |-> [pool.list EXCEPT ![i] = w]]
  BY <1>1 DEF With
<1>3. ASSUME NEW x
      PROVE  [With(i, w) EXCEPT !.reserve = x] = [reserve |-> x, rate |-> pool.rate,
                                                 list |-> [pool.list EXCEPT ![i] = w]]
  BY <1>2
<1>4. ASSUME w = pool.list[i] PROVE With(i, w) = pool
  <2>1. [pool.list EXCEPT ![i] = w] = pool.list
    <3>. DEFINE l == pool.list
    <3>1. l = [j \in DOMAIN l |-> l[j]] /\ i \in DOMAIN l /\ w = l[i]
      BY <1>4, PoolFacts
    <3>. HIDE DEF l
    <3>2. [l EXCEPT ![i] = w] = l
      BY <3>1
    <3>. QED
      BY <3>2 DEF l
  <2>. QED
    BY <1>1, <1>2, <2>1
<1>. QED
  BY <1>2, <1>3, <1>4 DEF Replaces

\* An instruction changes one validator, and perhaps the reserve.
Changes(i, w, r, q) ==
    /\ i \in DOMAIN pool.list /\ r \in Nat
    /\ Succeeds(pool.list[i], w)
    /\ Replaces(pool, i, w, r, q)

LEMMA ChangesPool ==
    ASSUME IsPool(pool), NEW i, NEW w, NEW r, NEW q, Changes(i, w, r, q)
    PROVE  /\ IsPool(q) /\ KeepsStake(pool, q)
           /\ q.reserve = r /\ q.rate = pool.rate /\ DOMAIN q.list = DOMAIN pool.list
           /\ i \in DOMAIN pool.list
           /\ q.list[i] = w
           /\ \A j \in DOMAIN pool.list : q.list[j].pubkey = pool.list[j].pubkey
BY OneIsReplaced DEF Changes

LEMMA MergeDone ==
    ASSUME IsPool(pool), NEW ins, NEW q \in merge_stake(ins)
    PROVE  /\ ins.seeds[1] = pool.list[ins.index].begin
           /\ Changes(ins.index, Merged(pool.list[ins.index]), pool.reserve, q)
           /\ Merged(pool.list[ins.index]).begin # pool.list[ins.index].begin
<1>. DEFINE i == ins.index
            v == pool.list[i]
<1>1. /\ i \in DOMAIN pool.list /\ CanMerge(v) /\ ins.seeds[1] = v.begin
      /\ q = With(i, Merged(v))
  BY DEF merge_stake, Named, IsAt, Merged
<1>2. IsEntry(v) /\ pool.reserve \in Nat
  BY <1>1, PoolFacts
<1>3. Len(v.stakes) > 1
  BY <1>1 DEF CanMerge
<1>. HIDE DEF v
<1>4. Succeeds(v, Merged(v)) /\ Merged(v).begin # v.begin
  BY <1>2, <1>3, MergedEntry
<1>. HIDE DEF i
<1>5. Replaces(pool, i, Merged(v), pool.reserve, q)
  BY <1>1, WithReplaces
<1>. QED
  BY <1>1, <1>2, <1>4, <1>5 DEF Changes, i, v

LEMMA RateDone ==
    ASSUME IsPool(pool), NEW q \in update_exchange_rate
    PROVE  IsPool(q) /\ KeepsStake(pool, q) /\ q.rate = TRUE
<1>1. q = [pool EXCEPT !.rate = TRUE]
  BY DEF update_exchange_rate
<1>2. pool \in [reserve : Nat, rate : BOOLEAN, list : Seq(ValidatorState)]
  BY DEF IsPool
<1>3. /\ q \in [reserve : Nat, rate : BOOLEAN, list : Seq(ValidatorState)]
      /\ q.list = pool.list /\ q.rate = TRUE
  BY <1>1, <1>2
<1>4. IsPool(q)
  BY <1>3 DEF IsPool
<1>5. KeepsStake(pool, q)
  BY <1>3 DEF KeepsStake, IsPool, HasUniqueKeys
<1>. QED
  BY <1>3, <1>4, <1>5

\* A key is found once.
LEMMA FoundOnce ==
    ASSUME NEW p, IsPool(p), NEW key, NEW i \in DOMAIN p.list, p.list[i].pubkey = key
    PROVE  {j \in DOMAIN p.list : p.list[j].pubkey = key} = {i}
BY PoolFacts DEF HasUniqueKeys

LEMMA CommissionDone ==
    ASSUME IsPool(pool), NEW ins, NEW q \in update_onchain_validator_perf(ins)
    PROVE  \/ q = pool /\ Found(ins) = {}
           \/ \E i \in Found(ins) :
                /\ Changes(i, RecordedCommission(pool.list[i]), pool.reserve, q)
                /\ RecordedCommission(pool.list[i]).commission_is_new = TRUE
                /\ RecordedCommission(pool.list[i]).commission = RecordedCommission(pool.list[i]).vote
<1>1. CASE Found(ins) = {}
  BY <1>1 DEF update_onchain_validator_perf
<1>2. CASE Found(ins) # {}
  <2>1. PICK i \in Found(ins) : IsOpen(pool.list[i]) /\ q = With(i, RecordedCommission(pool.list[i]))
    BY <1>2 DEF update_onchain_validator_perf, RecordedCommission
  <2>. DEFINE v == pool.list[i]
  <2>2. i \in DOMAIN pool.list
    BY DEF Found
  <2>3. IsEntry(v) /\ pool.reserve \in Nat
    BY <2>2, PoolFacts
  <2>4. Replaces(pool, i, RecordedCommission(v), pool.reserve, q)
    BY <2>1, <2>2, WithReplaces
  <2>5. /\ Succeeds(v, RecordedCommission(v)) /\ RecordedCommission(v).commission_is_new = TRUE
        /\ RecordedCommission(v).commission = RecordedCommission(v).vote
    <3>1. IsOpen(v)
      BY <2>1
    <3>. HIDE DEF v
    <3>. QED
      BY <2>3, <3>1, RecordedCommissionEntry
  <2>. QED
    BY <2>2, <2>3, <2>4, <2>5 DEF Changes
<1>. QED
  BY <1>1, <1>2

LEMMA RestDone ==
    ASSUME IsPool(pool), NEW ins, NEW q \in update_offchain_validator_perf(ins)
    PROVE  \/ q = pool /\ Found(ins) = {}
           \/ \E i \in Found(ins) :
                /\ Changes(i, RecordedRest(pool.list[i]), pool.reserve, q)
                /\ RecordedRest(pool.list[i]).rest_is_new = TRUE
<1>1. CASE Found(ins) = {}
  BY <1>1 DEF update_offchain_validator_perf
<1>2. CASE Found(ins) # {}
  <2>1. PICK i \in Found(ins) : q = With(i, RecordedRest(pool.list[i]))
    BY <1>2 DEF update_offchain_validator_perf, RecordedRest
  <2>. DEFINE v == pool.list[i]
  <2>2. i \in DOMAIN pool.list
    BY DEF Found
  <2>3. IsEntry(v) /\ pool.reserve \in Nat
    BY <2>2, PoolFacts
  <2>4. Replaces(pool, i, RecordedRest(v), pool.reserve, q)
    BY <2>1, <2>2, WithReplaces
  <2>5. Succeeds(v, RecordedRest(v)) /\ RecordedRest(v).rest_is_new = TRUE
    <3>. HIDE DEF v
    <3>. QED
      BY <2>3, RecordedRestEntry
  <2>. QED
    BY <2>2, <2>3, <2>4, <2>5 DEF Changes
<1>. QED
  BY <1>1, <1>2

LEMMA ReactivateDone ==
    ASSUME IsPool(pool), NEW ins, NEW q \in reactivate_if_complies(ins)
    PROVE  \E i \in Found(ins) : /\ Changes(i, Reactivated(pool.list[i]), pool.reserve, q)
                                 /\ q = With(i, Reactivated(pool.list[i]))
<1>1. PICK i \in Found(ins) : q = With(i, Reactivated(pool.list[i]))
  BY DEF reactivate_if_complies, Reactivated
<1>2. i \in DOMAIN pool.list
  BY DEF Found
<1>3. IsEntry(pool.list[i]) /\ pool.reserve \in Nat
  BY <1>2, PoolFacts
<1>4. Replaces(pool, i, Reactivated(pool.list[i]), pool.reserve, q)
  BY <1>1, <1>2, WithReplaces
<1>5. Succeeds(pool.list[i], Reactivated(pool.list[i]))
  BY <1>3, ReactivatedEntry
<1>. QED
  BY <1>1, <1>2, <1>3, <1>4, <1>5 DEF Changes

LEMMA DeactivateDone ==
    ASSUME IsPool(pool), NEW ins, NEW q \in deactivate_if_violates(ins)
    PROVE  \E i \in Found(ins) : /\ Changes(i, Deactivated(pool.list[i]), pool.reserve, q)
                                 /\ q = With(i, Deactivated(pool.list[i]))
<1>1. PICK i \in Found(ins) : q = With(i, Deactivated(pool.list[i]))
  BY DEF deactivate_if_violates, Deactivated
<1>2. i \in DOMAIN pool.list
  BY DEF Found
<1>3. IsEntry(pool.list[i]) /\ pool.reserve \in Nat
  BY <1>2, PoolFacts
<1>4. Replaces(pool, i, Deactivated(pool.list[i]), pool.reserve, q)
  BY <1>1, <1>2, WithReplaces
<1>5. Succeeds(pool.list[i], Deactivated(pool.list[i]))
  BY <1>3, DeactivatedEntry
<1>. QED
  BY <1>1, <1>2, <1>3, <1>4, <1>5 DEF Changes

LEMMA UnstakeDone ==
    ASSUME IsPool(pool), NEW ins, ins.amount \in Nat, NEW q \in unstake(ins)
    PROVE  /\ ins.seeds[2] = UnstakeEnd(pool.list[ins.index])
           /\ Changes(ins.index, Unstaked(pool.list[ins.index], ins.amount), pool.reserve, q)
           /\ UnstakeEnd(Unstaked(pool.list[ins.index], ins.amount)) # UnstakeEnd(pool.list[ins.index])
<1>. DEFINE i == ins.index
            v == pool.list[i]
            x == ins.amount
<1>1. /\ i \in DOMAIN pool.list /\ v.stakes # <<>> /\ ins.seeds[2] = UnstakeEnd(v)
      /\ LeavesEnough(v, x)
      /\ q = With(i, Unstaked(v, x))
  BY DEF unstake, Named, IsAt, Unstaked, check_unstake_accounts
<1>2. IsEntry(v) /\ pool.reserve \in Nat /\ x \in Nat
  BY <1>1, PoolFacts
<1>. HIDE DEF v, x
<1>4. /\ Succeeds(v, Unstaked(v, x)) /\ UnstakeEnd(Unstaked(v, x)) = UnstakeEnd(v) + 1
      /\ UnstakeEnd(v) \in Nat
  BY <1>1, <1>2, UnstakedEntry
<1>. HIDE DEF i
<1>5. Replaces(pool, i, Unstaked(v, x), pool.reserve, q)
  BY <1>1, WithReplaces
<1>6. UnstakeEnd(Unstaked(v, x)) # UnstakeEnd(v)
  BY <1>4
<1>. QED
  BY <1>1, <1>2, <1>4, <1>5, <1>6 DEF Changes, i, v, x

Withdrawn(v) == Sum(SubSeq(v.unstakes, 1, v.cooled))

LEMMA UpdateDone ==
    ASSUME IsPool(pool), NEW ins, NEW q \in update_stake_account_balance(ins)
    PROVE  /\ Changes(ins.index, Updated(pool.list[ins.index]),
                      pool.reserve + Withdrawn(pool.list[ins.index]), q)
           /\ pool.list[ins.index].pubkey = ins.pubkey
<1>. DEFINE i == ins.index
            v == pool.list[i]
            x == pool.reserve + Withdrawn(v)
<1>1. /\ i \in DOMAIN pool.list /\ v.pubkey = ins.pubkey
      /\ q = [With(i, Updated(v)) EXCEPT !.reserve = @ + Withdrawn(v)]
  BY DEF update_stake_account_balance, Named, IsAt, Updated, Withdrawn
<1>2. IsEntry(v) /\ pool.reserve \in Nat
  BY <1>1, PoolFacts
<1>. HIDE DEF v
<1>3. Succeeds(v, Updated(v)) /\ Withdrawn(v) \in Nat
  BY <1>2, UpdatedEntry DEF Withdrawn
<1>4. x \in Nat
  BY <1>2, <1>3
<1>. HIDE DEF i
<1>5. q = [With(i, Updated(v)) EXCEPT !.reserve = x]
  BY <1>1, WithReplaces
<1>. HIDE DEF x
<1>6. Replaces(pool, i, Updated(v), x, q)
  BY <1>1, <1>5, WithReplaces
<1>. QED
  BY <1>1, <1>3, <1>4, <1>6 DEF Changes, i, v, x

LEMMA StakeDone ==
    ASSUME IsPool(pool), NEW ins, ins.amount \in Nat, NEW q \in stake_deposit(ins)
    PROVE  /\ ins.seeds[1] = End(pool.list[ins.index])
           /\ ins.amount >= MINIMUM_STAKE_ACCOUNT_BALANCE
           /\ Changes(ins.index, Staked(pool.list[ins.index], Len(ins.seeds) = 2, ins.amount),
                      pool.reserve - ins.amount, q)
           /\ Len(ins.seeds) # 2 =>
                End(Staked(pool.list[ins.index], Len(ins.seeds) = 2, ins.amount))
                # End(pool.list[ins.index])
<1>. DEFINE i == ins.index
            v == pool.list[i]
            x == ins.amount
            m == Len(ins.seeds) = 2
            r == pool.reserve - x
<1>1. /\ i \in DOMAIN pool.list /\ ins.seeds[1] = End(v)
      /\ check_can_stake_amount(x)
      /\ q = [With(i, Staked(v, m, x)) EXCEPT !.reserve = @ - x]
  BY DEF stake_deposit, Named, IsAt, Staked
<1>2. IsEntry(v) /\ pool.reserve \in Nat /\ x \in Nat /\ m \in BOOLEAN
  BY <1>1, PoolFacts
<1>3. x >= MINIMUM_STAKE_ACCOUNT_BALANCE /\ x <= pool.reserve
  BY <1>1, <1>2, BalanceAssumption DEF check_can_stake_amount
<1>4. r \in Nat
  BY <1>2, <1>3
<1>. HIDE DEF v, x, m
<1>5. /\ Succeeds(v, Staked(v, m, x)) /\ End(v) \in Nat
      /\ ~m => End(Staked(v, m, x)) = End(v) + 1
  BY <1>2, <1>3, StakedEntry
<1>. HIDE DEF i
<1>6. q = [With(i, Staked(v, m, x)) EXCEPT !.reserve = r]
  BY <1>1, WithReplaces
<1>. HIDE DEF r
<1>7. Replaces(pool, i, Staked(v, m, x), r, q)
  BY <1>1, <1>6, WithReplaces
<1>8. ~m => End(Staked(v, m, x)) # End(v)
  BY <1>5
<1>. QED
  BY <1>1, <1>3, <1>4, <1>5, <1>7, <1>8 DEF Changes, i, v, x, m, r

LEMMA RemoveDone ==
    ASSUME IsPool(pool), NEW ins, NEW q \in remove_validator(ins)
    PROVE  /\ IsPool(q) /\ KeepsStake(pool, q)
           /\ \A j \in DOMAIN q.list : q.list[j].pubkey # ins.pubkey
           /\ Len(q.list) # Len(pool.list)
<1>. DEFINE i == ins.index
            n == Len(pool.list)
            l == SwapRemove(pool.list, i)
<1>1. /\ i \in DOMAIN pool.list /\ pool.list[i].pubkey = ins.pubkey
      /\ q = [pool EXCEPT !.list = SwapRemove(@, i)]
  BY DEF remove_validator, Named, IsAt
<1>2. /\ pool.reserve \in Nat /\ pool.rate \in BOOLEAN /\ n \in Nat
      /\ DOMAIN pool.list = 1..n
      /\ \A j \in DOMAIN pool.list : IsEntry(pool.list[j])
      /\ HasUniqueKeys(pool.list)
      /\ pool = [reserve |-> pool.reserve, rate |-> pool.rate, list |-> pool.list]
  BY PoolFacts
<1>3. IsPoolOf(q, pool.reserve, pool.rate, l)
  BY <1>1, <1>2 DEF IsPoolOf
<1>. HIDE DEF n
<1>4. n - 1 \in Nat /\ \A j \in 1..(n - 1) : j \in 1..n /\ j # n
  BY <1>1, <1>2
<1>5. l = [j \in 1..(n - 1) |-> IF j = i THEN pool.list[n] ELSE pool.list[j]]
  BY DEF SwapRemove, n
<1>. DEFINE From(j) == IF j = i THEN n ELSE j
<1>6. \A j \in 1..(n - 1) : From(j) \in 1..n /\ l[j] = pool.list[From(j)] /\ From(j) # i
  BY <1>1, <1>2, <1>4, <1>5
<1>7. \A j, k \in 1..(n - 1) : From(j) = From(k) => j = k
  BY <1>4
<1>. HIDE DEF l, From, i
<1>8. AreEntries(l, n - 1)
  <2>1. l = [j \in 1..(n - 1) |-> l[j]]
    BY <1>5
  <2>2. \A j \in 1..(n - 1) : IsEntry(l[j])
    BY <1>2, <1>6
  <2>3. \A j, k \in 1..(n - 1) : l[j].pubkey = l[k].pubkey => j = k
    BY <1>2, <1>6, <1>7 DEF HasUniqueKeys
  <2>. QED
    BY <2>1, <2>2, <2>3 DEF AreEntries
<1>9. IsPool(q) /\ q.list = l
  BY <1>2, <1>3, <1>4, <1>8, PoolFrom
<1>10. DOMAIN l = 1..(n - 1)
  BY <1>5
<1>11. \A j \in DOMAIN l : l[j].pubkey # ins.pubkey
  BY <1>1, <1>2, <1>6, <1>10 DEF HasUniqueKeys
<1>12. KeepsStake(pool, q)
  <2>. SUFFICES ASSUME NEW j \in 1..n, NEW k \in 1..(n - 1),
                       pool.list[j].pubkey = l[k].pubkey, pool.list[j].stakes # <<>>
                PROVE  l[k].stakes # <<>>
    BY <1>2, <1>9, <1>10 DEF KeepsStake
  <2>1. j = From(k)
    BY <1>2, <1>6 DEF HasUniqueKeys
  <2>. QED
    BY <1>6, <2>1
<1>13. Len(q.list) # n
  <2>1. q.list = l /\ Len(q.list) \in Nat /\ DOMAIN q.list = 1..Len(q.list)
    BY <1>9, PoolFacts
  <2>2. 1..Len(q.list) = 1..(n - 1) /\ n \in Nat
    BY <1>2, <1>10, <2>1
  <2>. DEFINE len == Len(q.list)
  <2>3. len \in Nat /\ 1..len = 1..(n - 1)
    BY <2>1, <2>2
  <2>. HIDE DEF len
  <2>4. len # n
    <3>. SUFFICES ASSUME len = n PROVE FALSE
      OBVIOUS
    <3>1. n \in 1..n
      BY <1>1, <1>2
    <3>. QED
      BY <1>4, <2>3, <3>1
  <2>. QED
    BY <2>4 DEF len
<1>. QED
  BY <1>9, <1>11, <1>12, <1>13 DEF n

\* Instructions and their fields.
LEMMA InstructionFacts ==
    ASSUME NEW ins \in Instructions
    PROVE  /\ ins.kind \in Kinds
           /\ ins.kind # "UpdateExchangeRate" =>
                /\ ins.index \in Nat /\ ins.pubkey \in STRING /\ ins.amount \in Nat
                /\ ins.seeds \in Seq(Int)
BY DEF Instructions, Kinds, UpdateRate

\* Whatever is executed leaves a sound pool.
LEMMA ExecutedIsPool ==
    ASSUME IsPool(pool), NEW ins \in Instructions, NEW by, NEW at, NEW q \in Executed(ins, by, at)
    PROVE  IsPool(q) /\ KeepsStake(pool, q)
<1>0. /\ ins.kind \in Kinds
      /\ ins.kind # "UpdateExchangeRate" => ins.amount \in Nat
  BY InstructionFacts
<1>p. IsPool(pool) /\ KeepsStake(pool, pool)
  BY DEF KeepsStake, IsPool, HasUniqueKeys
<1>1. CASE ins.kind = "MergeStake"
  <2>1. q \in merge_stake(ins)
    BY <1>1 DEF Executed
  <2>. QED
    BY <2>1, MergeDone, ChangesPool
<1>2. CASE ins.kind = "UpdateExchangeRate"
  <2>1. q \in update_exchange_rate
    BY <1>2 DEF Executed
  <2>. QED
    BY <2>1, RateDone
<1>3. CASE ins.kind = "UpdateOnchainValidatorPerf"
  <2>1. q \in update_onchain_validator_perf(ins)
    BY <1>3 DEF Executed
  <2>. QED
    BY <1>p, <2>1, CommissionDone, ChangesPool
<1>4. CASE ins.kind = "UpdateOffchainValidatorPerf"
  <2>1. q \in update_offchain_validator_perf(ins)
    BY <1>4 DEF Executed
  <2>. QED
    BY <1>p, <2>1, RestDone, ChangesPool
<1>5. CASE ins.kind = "ReactivateIfComplies"
  <2>1. q \in reactivate_if_complies(ins)
    BY <1>5 DEF Executed
  <2>. QED
    BY <2>1, ReactivateDone, ChangesPool
<1>6. CASE ins.kind = "DeactivateIfViolates"
  <2>1. q \in deactivate_if_violates(ins)
    BY <1>6 DEF Executed
  <2>. QED
    BY <2>1, DeactivateDone, ChangesPool
<1>7. CASE ins.kind = "Unstake"
  <2>1. q \in unstake(ins) /\ ins.amount \in Nat
    BY <1>0, <1>7 DEF Executed
  <2>. QED
    BY <2>1, UnstakeDone, ChangesPool
<1>8. CASE ins.kind = "UpdateStakeAccountBalance"
  <2>1. q \in update_stake_account_balance(ins)
    BY <1>8 DEF Executed
  <2>. QED
    BY <2>1, UpdateDone, ChangesPool
<1>9. CASE ins.kind = "StakeDeposit"
  <2>1. q \in stake_deposit(ins) /\ ins.amount \in Nat
    BY <1>0, <1>9 DEF Executed
  <2>. QED
    BY <2>1, StakeDone, ChangesPool
<1>10. CASE ins.kind = "RemoveValidator"
  <2>1. q \in remove_validator(ins)
    BY <1>10 DEF Executed
  <2>. QED
    BY <2>1, RemoveDone
<1>. QED
  BY <1>0, <1>1, <1>2, <1>3, <1>4, <1>5, <1>6, <1>7, <1>8, <1>9, <1>10 DEF Kinds

-----------------------------------------------------------------------------
(* What is due *)

LEMMA FirstOfIsMember == ASSUME NEW S, NEW i \in FirstOf(S) PROVE i \in S
BY DEF FirstOf

\* The validator list as balance.rs sees it.
LEMMA BookFacts ==
    ASSUME IsPool(pool)
    PROVE  /\ Book \in Books /\ Len(Book) = Len(pool.list) /\ DOMAIN Book = DOMAIN pool.list
           /\ DOMAIN pool.list = 1..Len(pool.list)
           /\ ActiveIn(Book) = Where(IsActive)
           /\ \A i \in DOMAIN pool.list :
                 /\ Book[i].active = IsActive(pool.list[i])
                 /\ Effective(Book, i) = pool.list[i].tracked - Sum(pool.list[i].unstakes)
                 /\ Effective(Book, i) \in Int
                 /\ Sum(pool.list[i].unstakes) \in Nat /\ pool.list[i].tracked \in Nat
<1>. DEFINE n == Len(pool.list)
            E(i) == [active |-> IsActive(pool.list[i]), stake |-> pool.list[i].tracked,
                     unstake |-> Sum(pool.list[i].unstakes)]
<1>1. n \in Nat /\ DOMAIN pool.list = 1..n /\ \A i \in 1..n : IsEntry(pool.list[i])
  BY PoolFacts
<1>2. Book = [i \in 1..n |-> E(i)]
  BY <1>1 DEF Book
<1>3. ASSUME NEW i \in 1..n
      PROVE  /\ pool.list[i].tracked \in Nat /\ Sum(pool.list[i].unstakes) \in Nat
             /\ IsActive(pool.list[i]) \in BOOLEAN
  <2>1. IsEntry(pool.list[i])
    BY <1>1
  <2>2. pool.list[i].tracked \in Nat /\ pool.list[i].unstakes \in Seq(Nat)
    BY <2>1, EntryFacts
  <2>. QED
    BY <2>2, SumIsNatural DEF IsActive
<1>4. \A i \in 1..n : E(i) \in BookEntries
  BY <1>3 DEF BookEntries
<1>5. Book \in Books /\ Len(Book) = n /\ DOMAIN Book = 1..n
  <2>. HIDE DEF E
  <2>. QED
    BY <1>1, <1>2, <1>4 DEF Books
<1>6. \A i \in 1..n : /\ Book[i].active = IsActive(pool.list[i])
                      /\ Book[i].stake = pool.list[i].tracked
                      /\ Book[i].unstake = Sum(pool.list[i].unstakes)
  BY <1>2
<1>7. \A i \in 1..n : /\ Effective(Book, i) = pool.list[i].tracked - Sum(pool.list[i].unstakes)
                      /\ Effective(Book, i) \in Int
  BY <1>5, <1>6, BookEntry
<1>8. ActiveIn(Book) = Where(IsActive)
  BY <1>1, <1>5, <1>6 DEF ActiveIn, Where
<1>. QED
  BY <1>1, <1>3, <1>5, <1>6, <1>7, <1>8

LEMMA MergeIsDue ==
    ASSUME NEW ins \in try_merge_on_all_stakes
    PROVE  \E i \in DOMAIN pool.list :
              /\ CanMerge(pool.list[i])
              /\ ins = Instruction("MergeStake", i, <<pool.list[i].begin, pool.list[i].begin + 1>>, 0)
<1>1. PICK i \in FirstOf(Where(CanMerge)) :
         ins = Instruction("MergeStake", i, <<pool.list[i].begin, pool.list[i].begin + 1>>, 0)
  BY DEF try_merge_on_all_stakes
<1>2. i \in Where(CanMerge)
  BY FirstOfIsMember
<1>. QED
  BY <1>1, <1>2 DEF Where

LEMMA CommissionIsDue ==
    ASSUME NEW ins \in do_update_onchain_validator_perfs
    PROVE  \E i \in DOMAIN pool.list :
              /\ IsOpen(pool.list[i])
              /\ IsBeyond(i) \/ IsOutdated(i)
              /\ ins = IF IsBeyond(i) THEN Panic
                       ELSE Instruction("UpdateOnchainValidatorPerf", i, <<>>, 0)
<1>. DEFINE S == {j \in Where(IsOpen) : IsBeyond(j) \/ IsOutdated(j)}
<1>1. PICK i \in FirstOf(S) : ins = IF IsBeyond(i) THEN Panic
                                    ELSE Instruction("UpdateOnchainValidatorPerf", i, <<>>, 0)
  BY DEF do_update_onchain_validator_perfs
<1>2. i \in S
  BY FirstOfIsMember
<1>. QED
  BY <1>1, <1>2 DEF Where

LEMMA RestIsDue ==
    ASSUME NEW ins \in do_update_offchain_validator_perfs
    PROVE  \E i \in DOMAIN pool.list :
              /\ IsBeyond(i) \/ (~Perfs[i].rest_is_new /\ IsOpen(pool.list[i]))
              /\ ins = IF IsBeyond(i) THEN Panic
                       ELSE Instruction("UpdateOffchainValidatorPerf", i, <<>>, 0)
<1>. DEFINE S == {j \in DOMAIN pool.list :
                    /\ is_at_epoch_end
                    /\ IsBeyond(j) \/ (~Perfs[j].rest_is_new /\ IsOpen(pool.list[j]))}
<1>1. PICK i \in FirstOf(S) : ins = IF IsBeyond(i) THEN Panic
                                    ELSE Instruction("UpdateOffchainValidatorPerf", i, <<>>, 0)
  BY DEF do_update_offchain_validator_perfs
<1>2. i \in S
  BY FirstOfIsMember
<1>. QED
  BY <1>1, <1>2

LEMMA ReactivateIsDue ==
    ASSUME NEW ins \in try_reactivate_if_complies
    PROVE  \E i \in DOMAIN pool.list :
              /\ pool.list[i].status = "StakesSuspended"
              /\ IsBeyond(i) \/ does_perform_well(pool.list[i].vote, Perfs[i].commission)
              /\ ins = IF IsBeyond(i) THEN Panic
                       ELSE Instruction("ReactivateIfComplies", i, <<>>, 0)
<1>. DEFINE S == {j \in Where(IsInactive) :
                         /\ is_at_epoch_end
                         /\ IsOpen(pool.list[j])
                         /\ \/ IsBeyond(j)
                            \/ does_perform_well(pool.list[j].vote, Perfs[j].commission)}
<1>1. PICK i \in FirstOf(S) : ins = IF IsBeyond(i) THEN Panic
                                    ELSE Instruction("ReactivateIfComplies", i, <<>>, 0)
  BY DEF try_reactivate_if_complies
<1>2. i \in S
  BY FirstOfIsMember
<1>. QED
  BY <1>1, <1>2 DEF Where, IsInactive

LEMMA InactiveIsDue ==
    ASSUME NEW ins \in try_unstake_from_inactive_validator
    PROVE  \E i \in DOMAIN pool.list :
              /\ ~IsActive(pool.list[i])
              /\ Len(pool.list[i].unstakes) < MAXIMUM_UNSTAKE_ACCOUNTS
              /\ pool.list[i].stakes # <<>>
              /\ ins = Instruction("Unstake", i, <<pool.list[i].begin, UnstakeEnd(pool.list[i])>>,
                                   pool.list[i].stakes[1])
<1>. DEFINE S == {j \in DOMAIN pool.list : /\ ~IsActive(pool.list[j])
                                           /\ Len(pool.list[j].unstakes) < MAXIMUM_UNSTAKE_ACCOUNTS
                                           /\ pool.list[j].stakes # <<>>}
<1>1. PICK i \in FirstOf(S) :
         ins = Instruction("Unstake", i, <<pool.list[i].begin, UnstakeEnd(pool.list[i])>>,
                           pool.list[i].stakes[1])
  BY DEF try_unstake_from_inactive_validator, Where
<1>2. i \in S
  BY FirstOfIsMember
<1>. QED
  BY <1>1, <1>2

LEMMA UpdateIsDue ==
    ASSUME NEW ins \in try_update_stake_account_balance
    PROVE  \E i \in DOMAIN pool.list :
              /\ \/ Sum(pool.list[i].stakes) > pool.list[i].tracked - Sum(pool.list[i].unstakes)
                 \/ pool.list[i].cooled > 0
              /\ ins = Instruction("UpdateStakeAccountBalance", i, AllSeeds(pool.list[i]), 0)
<1>. DEFINE S == {j \in DOMAIN pool.list :
                    \/ Sum(pool.list[j].stakes) > pool.list[j].tracked - Sum(pool.list[j].unstakes)
                    \/ pool.list[j].cooled > 0}
<1>1. PICK i \in FirstOf(S) :
         ins = Instruction("UpdateStakeAccountBalance", i, AllSeeds(pool.list[i]), 0)
  BY DEF try_update_stake_account_balance, Where
<1>2. i \in S
  BY FirstOfIsMember
<1>. QED
  BY <1>1, <1>2

LEMMA DeactivateIsDue ==
    ASSUME NEW ins \in try_deactivate_if_violates
    PROVE  \E i \in DOMAIN pool.list :
              /\ pool.list[i].status = "AcceptingStakes"
              /\ \/ ~IsOpen(pool.list[i]) \/ IsBeyond(i)
                 \/ ~does_perform_well(pool.list[i].vote, Perfs[i].commission)
              /\ ins = IF IsOpen(pool.list[i]) /\ IsBeyond(i) THEN Panic
                       ELSE Instruction("DeactivateIfViolates", i, <<>>, 0)
<1>. DEFINE S == {j \in Where(IsActive) :
                         \/ ~IsOpen(pool.list[j])
                         \/ IsBeyond(j)
                         \/ ~does_perform_well(pool.list[j].vote, Perfs[j].commission)}
<1>1. PICK i \in FirstOf(S) : ins = IF IsOpen(pool.list[i]) /\ IsBeyond(i) THEN Panic
                                    ELSE Instruction("DeactivateIfViolates", i, <<>>, 0)
  BY DEF try_deactivate_if_violates
<1>2. i \in S
  BY FirstOfIsMember
<1>. QED
  BY <1>1, <1>2 DEF Where, IsActive

LEMMA RemoveIsDue ==
    ASSUME NEW ins \in try_remove_pending_validators
    PROVE  \E i \in DOMAIN pool.list : /\ check_can_be_removed(pool.list[i])
                                       /\ ins = Instruction("RemoveValidator", i, <<>>, 0)
<1>1. PICK i \in FirstOf(Where(check_can_be_removed)) : ins = Instruction("RemoveValidator", i, <<>>, 0)
  BY DEF try_remove_pending_validators
<1>2. i \in Where(check_can_be_removed)
  BY FirstOfIsMember
<1>. QED
  BY <1>1, <1>2 DEF Where

LEMMA StakeIsDue ==
    ASSUME IsPool(pool), NEW ins \in try_stake_deposit
    PROVE  \E i \in DOMAIN pool.list, amount \in Nat :
              /\ IsActive(pool.list[i]) /\ HasLeastStake(i)
              /\ check_can_stake_amount(amount)
              /\ ins = Instruction("StakeDeposit", i, DepositSeeds(pool.list[i]), amount)
<1>. DEFINE target == get_target_balance(pool.reserve, Book)
            min == get_minimum_stake_validator_index_amount(Book, target)
            i == MinimumStakeIndex(Book)
            amount == DepositAmount(min.amount)
<1>0. Where(IsActive) # {} /\ Book \in Books /\ pool.reserve \in Nat
  BY BookFacts, PoolFacts DEF try_stake_deposit
<1>1. /\ ins = Instruction("StakeDeposit", min.index, DepositSeeds(pool.list[min.index]), amount)
      /\ amount <= pool.reserve
  BY DEF try_stake_deposit
<1>2. min.index = i /\ min.amount = SaturatingSub(target[i], Effective(Book, i))
  BY DEF get_minimum_stake_validator_index_amount
<1>3. i \in Where(IsActive) /\ \A j \in Where(IsActive) : Effective(Book, i) <= Effective(Book, j)
  BY <1>0, BookFacts, MinimumStake
<1>4. i \in DOMAIN pool.list /\ IsActive(pool.list[i])
  BY <1>3 DEF Where
<1>5. target[i] \in Nat /\ Effective(Book, i) \in Int
  <2>1. target \in Seq(Nat) /\ Len(target) = Len(Book)
    BY <1>0, BookFacts, TargetIsSound
  <2>2. i \in 1..Len(target)
    BY <1>4, <2>1, BookFacts
  <2>. QED
    BY <1>4, <2>1, <2>2, BookFacts
<1>. DEFINE below == min.amount
<1>6. below \in Nat
  <2>1. below = SaturatingSub(target[i], Effective(Book, i))
    BY <1>2
  <2>. HIDE DEF target, i, below
  <2>. QED
    BY <1>5, <2>1 DEF SaturatingSub
<1>7. amount = DepositAmount(below)
  OBVIOUS
<1>. HIDE DEF below
<1>8. amount \in Nat /\ MINIMUM_STAKE_ACCOUNT_BALANCE <= amount
  <2>. HIDE DEF amount
  <2>. QED
    BY <1>0, <1>6, <1>7, BalanceAssumption DEF DepositAmount
<1>. HIDE DEF amount
<1>9. check_can_stake_amount(amount)
  BY <1>1, <1>8 DEF check_can_stake_amount
<1>10. HasLeastStake(i)
  BY <1>3 DEF HasLeastStake
<1>. QED
  BY <1>1, <1>2, <1>4, <1>8, <1>9, <1>10

LEMMA ActiveIsDue ==
    ASSUME IsPool(pool), NEW ins \in try_unstake_from_active_validators
    PROVE  \E i \in DOMAIN pool.list, amount \in Nat \ {0} :
              /\ pool.list[i].stakes # <<>>
              /\ amount <= pool.list[i].stakes[1] - MINIMUM_STAKE_ACCOUNT_BALANCE
              /\ amount <= Effective(Book, i)
              /\ ins = Instruction("Unstake", i, <<pool.list[i].begin, UnstakeEnd(pool.list[i])>>, amount)
<1>. DEFINE target == get_target_balance(pool.reserve, Book)
            found == get_unstake_validator_index(Book, target, UNBALANCE_THRESHOLD)
            Most(v) == v.stakes[1] - MINIMUM_STAKE_ACCOUNT_BALANCE
            Amount(u) == IF u.amount < Most(pool.list[u.index]) THEN u.amount
                         ELSE Most(pool.list[u.index])
<1>0. Where(IsActive) # {} /\ Book \in Books /\ pool.reserve \in Nat
  BY BookFacts, PoolFacts DEF try_unstake_from_active_validators
<1>1. PICK u \in found :
         /\ pool.list[u.index].stakes # <<>>
         /\ Amount(u) >= MINIMUM_STAKE_ACCOUNT_BALANCE \/ Most(pool.list[u.index]) < 0
         /\ ins = IF Most(pool.list[u.index]) < 0 THEN Panic
                  ELSE Instruction("Unstake", u.index,
                          <<pool.list[u.index].begin, UnstakeEnd(pool.list[u.index])>>, Amount(u))
  BY DEF try_unstake_from_active_validators
<1>. DEFINE i == MaximumExcessIndex(Book, target)
            a == SaturatingSub(Effective(Book, i), target[i])
<1>2. u.index = i /\ u.amount = a /\ Book # <<>>
  BY DEF get_unstake_validator_index
<1>3. target \in Seq(Nat) /\ Len(target) = Len(Book)
  BY <1>0, BookFacts, TargetIsSound
<1>4. \A j \in 1..Len(Book) : target[j] \in Nat
  <2>. HIDE DEF target
  <2>. QED
    BY <1>3
<1>. HIDE DEF target, found
<1>5. i \in 1..Len(Book)
  BY <1>0, <1>2, <1>4, MaximumExcess
<1>6. i \in DOMAIN pool.list /\ Effective(Book, i) \in Int /\ target[i] \in Nat
  BY <1>4, <1>5, BookFacts
<1>. HIDE DEF i
<1>7. a \in Nat /\ (a # 0 => a <= Effective(Book, i))
  BY <1>6 DEF SaturatingSub
<1>. HIDE DEF a
<1>. DEFINE v == pool.list[i]
            b == v.stakes[1]
<1>8. b \in Nat /\ b >= MINIMUM_STAKE_ACCOUNT_BALANCE /\ v.stakes # <<>>
  <2>1. IsEntry(v) /\ v.stakes # <<>>
    BY <1>1, <1>2, <1>6, PoolFacts
  <2>2. v.stakes \in Seq(Sufficient)
    BY <2>1, EntryFacts
  <2>. QED
    BY <2>1, <2>2, SufficientFacts
<1>9. Most(v) = b - MINIMUM_STAKE_ACCOUNT_BALANCE /\ v = pool.list[u.index]
  BY <1>2
<1>10. Amount(u) = IF a < Most(v) THEN a ELSE Most(v)
  BY <1>2
<1>. DEFINE m == Most(v)
            amount == Amount(u)
<1>11. /\ m = b - MINIMUM_STAKE_ACCOUNT_BALANCE /\ amount = IF a < m THEN a ELSE m
       /\ amount >= MINIMUM_STAKE_ACCOUNT_BALANCE \/ m < 0
       /\ ins = IF m < 0 THEN Panic
                ELSE Instruction("Unstake", i, <<v.begin, UnstakeEnd(v)>>, amount)
  BY <1>1, <1>2, <1>9, <1>10
<1>. HIDE DEF m, amount, b, Most, Amount
<1>12. m \in Nat /\ ~(m < 0)
  BY <1>8, <1>11, BalanceAssumption
<1>13. amount \in Nat \ {0} /\ amount <= m /\ amount <= a
  BY <1>7, <1>11, <1>12, BalanceAssumption
<1>14. amount <= Effective(Book, i)
  BY <1>6, <1>7, <1>13
<1>15. ins = Instruction("Unstake", i, <<v.begin, UnstakeEnd(v)>>, amount)
  BY <1>11, <1>12
<1>. QED
  BY <1>6, <1>8, <1>11, <1>13, <1>14, <1>15 DEF b

\* Instructions are well formed.
LEMMA InstructionIsSound ==
    ASSUME IsPool(pool), NEW kind \in Kinds \ {"UpdateExchangeRate"}, NEW i \in DOMAIN pool.list,
           NEW seeds \in Seq(Int), NEW amount \in Nat
    PROVE  Instruction(kind, i, seeds, amount) \in Instructions
<1>1. i \in Nat /\ IsEntry(pool.list[i])
  BY PoolFacts
<1>. DEFINE k == pool.list[i].pubkey
<1>2. k \in STRING
  BY <1>1, EntryFacts
<1>. HIDE DEF k
<1>3. [kind |-> kind, index |-> i, pubkey |-> k, seeds |-> seeds, amount |-> amount]
        \in [kind : Kinds \ {"UpdateExchangeRate"}, index : Nat, pubkey : STRING,
             seeds : Seq(Int), amount : Nat]
  BY <1>1, <1>2
<1>. QED
  BY <1>3 DEF Instruction, Instructions, k

\* Seeds are numbers.
LEMMA SeedFacts ==
    /\ <<>> \in Seq(Int)
    /\ \A a \in Int : <<a>> \in Seq(Int) /\ Len(<<a>>) = 1 /\ <<a>>[1] = a
    /\ \A a, b \in Int : <<a, b>> \in Seq(Int) /\ Len(<<a, b>>) = 2 /\ <<a, b>>[1] = a /\ <<a, b>>[2] = b
    /\ \A a, b, c, d \in Int : <<a, b, c, d>> \in Seq(Int)
OBVIOUS

LEMMA DueCases ==
    ASSUME NEW ins \in try_perform_maintenance
    PROVE  \/ ins \in try_merge_on_all_stakes
           \/ ins \in try_update_exchange_rate
           \/ ins \in do_update_onchain_validator_perfs
           \/ ins \in do_update_offchain_validator_perfs
           \/ ins \in try_reactivate_if_complies
           \/ ins \in try_unstake_from_inactive_validator
           \/ ins \in try_update_stake_account_balance /\ try_update_exchange_rate = {}
           \/ ins \in try_deactivate_if_violates
           \/ ins \in try_stake_deposit
           \/ ins \in try_unstake_from_active_validators /\ try_unstake_from_inactive_validator = {}
           \/ ins \in try_remove_pending_validators
BY DEF try_perform_maintenance, \prec

LEMMA DueIsSound ==
    ASSUME IsPool(pool), NEW ins \in try_perform_maintenance
    PROVE  ins = Panic \/ ins \in Instructions
<1>. DEFINE P == ins = Panic \/ ins \in Instructions
            K == Kinds \ {"UpdateExchangeRate"}
<1>1. \A i \in DOMAIN pool.list :
         /\ pool.list[i].begin \in Nat /\ pool.list[i].begin + 1 \in Nat
         /\ Len(pool.list[i].stakes) \in Nat /\ Len(pool.list[i].unstakes) \in Nat
         /\ pool.list[i].unstake_begin \in Nat
         /\ pool.list[i].stakes # <<>> => pool.list[i].stakes[1] \in Nat
  <2>. SUFFICES ASSUME NEW i \in DOMAIN pool.list
                PROVE  /\ pool.list[i].begin \in Nat /\ pool.list[i].begin + 1 \in Nat
                       /\ Len(pool.list[i].stakes) \in Nat /\ Len(pool.list[i].unstakes) \in Nat
                       /\ pool.list[i].unstake_begin \in Nat
                       /\ pool.list[i].stakes # <<>> => pool.list[i].stakes[1] \in Nat
    OBVIOUS
  <2>. DEFINE v == pool.list[i]
              s == v.stakes
              u == v.unstakes
  <2>1. IsEntry(v)
    BY PoolFacts
  <2>2. v.begin \in Nat /\ v.unstake_begin \in Nat /\ s \in Seq(Sufficient) /\ u \in Seq(Nat)
    BY <2>1, EntryFacts
  <2>. HIDE DEF s, u, v
  <2>3. Len(s) \in Nat /\ Len(u) \in Nat /\ v.begin + 1 \in Nat
    BY <2>2
  <2>4. s # <<>> => s[1] \in Nat
    BY <2>2, SufficientFacts
  <2>. QED
    BY <2>2, <2>3, <2>4 DEF s, u, v
<1>2. \A i \in DOMAIN pool.list : End(pool.list[i]) \in Nat /\ UnstakeEnd(pool.list[i]) \in Nat
  BY <1>1, SMTT(30) DEF End, UnstakeEnd
<1>3. ASSUME NEW kind \in K, NEW i \in DOMAIN pool.list, ins = Panic \/ ins = Instruction(kind, i, <<>>, 0)
      PROVE  P
  BY <1>3, InstructionIsSound, SeedFacts
<1>4. \A a, b \in Nat : <<a, b>> \in Seq(Int)
  BY SeedFacts
<1>5. CASE ins \in try_merge_on_all_stakes
  <2>1. PICK i \in DOMAIN pool.list :
           ins = Instruction("MergeStake", i, <<pool.list[i].begin, pool.list[i].begin + 1>>, 0)
    BY <1>5, MergeIsDue
  <2>2. <<pool.list[i].begin, pool.list[i].begin + 1>> \in Seq(Int)
    BY <1>1, <1>4
  <2>. QED
    BY <2>1, <2>2, InstructionIsSound DEF Kinds
<1>6. CASE ins \in try_update_exchange_rate
  BY <1>6 DEF try_update_exchange_rate, Instructions
<1>7. CASE ins \in do_update_onchain_validator_perfs
  BY <1>3, <1>7, CommissionIsDue DEF Kinds
<1>8. CASE ins \in do_update_offchain_validator_perfs
  BY <1>3, <1>8, RestIsDue DEF Kinds
<1>9. CASE ins \in try_reactivate_if_complies
  BY <1>3, <1>9, ReactivateIsDue DEF Kinds
<1>10. CASE ins \in try_unstake_from_inactive_validator
  <2>1. PICK i \in DOMAIN pool.list :
           /\ pool.list[i].stakes # <<>>
           /\ ins = Instruction("Unstake", i, <<pool.list[i].begin, UnstakeEnd(pool.list[i])>>,
                                pool.list[i].stakes[1])
    BY <1>10, InactiveIsDue
  <2>2. <<pool.list[i].begin, UnstakeEnd(pool.list[i])>> \in Seq(Int) /\ pool.list[i].stakes[1] \in Nat
    BY <1>1, <1>2, <1>4, <2>1
  <2>. QED
    BY <2>1, <2>2, InstructionIsSound DEF Kinds
<1>11. CASE ins \in try_update_stake_account_balance
  <2>1. PICK i \in DOMAIN pool.list :
           ins = Instruction("UpdateStakeAccountBalance", i, AllSeeds(pool.list[i]), 0)
    BY <1>11, UpdateIsDue
  <2>2. AllSeeds(pool.list[i]) \in Seq(Int)
    BY <1>1, <1>2, SeedFacts DEF AllSeeds
  <2>. QED
    BY <2>1, <2>2, InstructionIsSound DEF Kinds
<1>12. CASE ins \in try_deactivate_if_violates
  BY <1>3, <1>12, DeactivateIsDue DEF Kinds
<1>13. CASE ins \in try_stake_deposit
  <2>1. PICK i \in DOMAIN pool.list, amount \in Nat :
           ins = Instruction("StakeDeposit", i, DepositSeeds(pool.list[i]), amount)
    BY <1>13, StakeIsDue
  <2>. DEFINE e == End(pool.list[i])
  <2>2. e \in Nat
    BY <1>2
  <2>3. <<e>> \in Seq(Int) /\ <<e, e - 1>> \in Seq(Int)
    <3>. HIDE DEF e
    <3>. QED
      BY <2>2
  <2>4. DepositSeeds(pool.list[i]) \in Seq(Int)
    BY <2>3 DEF DepositSeeds
  <2>. QED
    BY <2>1, <2>4, InstructionIsSound DEF Kinds
<1>14. CASE ins \in try_unstake_from_active_validators
  <2>1. PICK i \in DOMAIN pool.list, amount \in Nat \ {0} :
           ins = Instruction("Unstake", i, <<pool.list[i].begin, UnstakeEnd(pool.list[i])>>, amount)
    BY <1>14, ActiveIsDue
  <2>2. <<pool.list[i].begin, UnstakeEnd(pool.list[i])>> \in Seq(Int) /\ amount \in Nat
    BY <1>1, <1>2, <1>4
  <2>. QED
    BY <2>1, <2>2, InstructionIsSound DEF Kinds
<1>15. CASE ins \in try_remove_pending_validators
  BY <1>3, <1>15, RemoveIsDue DEF Kinds
<1>. QED
  BY <1>5, <1>6, <1>7, <1>8, <1>9, <1>10, <1>11, <1>12, <1>13, <1>14, <1>15, DueCases

-----------------------------------------------------------------------------
(* Sleeping *)

\* The beginnings of slices repeat with the epochs, and are those of listed maintainers.
LEMMA BeginningsRepeat ==
    ASSUME IsRoster(maintainers), NEW m, NEW at \in Nat, DutyBegins(m, at)
    PROVE  DutyBegins(m, at + EpochLength) /\ m \in Keys(maintainers)
<1>1. at % SLICE_LENGTH = 0 /\ maintainers[Turn(maintainers, at)].pubkey = m
  BY DEF DutyBegins, Turn
<1>2. /\ (at + EpochLength) % SLICE_LENGTH = at % SLICE_LENGTH
      /\ Turn(maintainers, at + EpochLength) = Turn(maintainers, at)
  BY DutyRepeats
<1>3. /\ (at + EpochLength) % SLICE_LENGTH = 0
      /\ maintainers[Turn(maintainers, at + EpochLength)].pubkey = m
  BY <1>1, <1>2
<1>4. DutyBegins(m, at + EpochLength)
  BY <1>3 DEF DutyBegins, Turn
<1>5. Turn(maintainers, at) \in DOMAIN maintainers
  BY TurnIsInList, RosterLength
<1>. QED
  BY <1>1, <1>4, <1>5 DEF Keys

\* The lesser of two times.
LEMMA LeastTime ==
    ASSUME NEW a \in Nat, NEW S, S = {} \/ \E b \in Nat : S = {b}, NEW t,
           t = CHOOSE x \in S \cup {a} : \A u \in S \cup {a} : x <= u
    PROVE  t \in Nat /\ \A u \in S : t <= u
<1>1. \E x \in S \cup {a} : \A u \in S \cup {a} : x <= u
  OBVIOUS
<1>2. t \in S \cup {a} /\ \A u \in S \cup {a} : t <= u
  BY <1>1
<1>. QED
  BY <1>2

SleepsThrough(m, ago, time) ==
    \E t \in 1 .. (time - ago - 1) : DutyBegins(m, slot + t)

\* A daemon does not sleep through the beginning of a slice of its own.
LEMMA SleepIsSound ==
    ASSUME slot \in 0 .. (EpochLength - 1), IsRoster(maintainers),
           NEW m, NEW ago \in 0 .. Expiry
    PROVE  /\ sleep_until_next_iteration(m, ago) \in Nat
           /\ daemon[m].clocks = "several"
                => ~SleepsThrough(m, ago, sleep_until_next_iteration(m, ago))
<1>. DEFINE at == slot + EpochLength - ago
            S == estimate_time_until_slot(m, ago)
            time == sleep_until_next_iteration(m, ago)
<1>1. at \in Nat /\ slot \in Nat /\ ago \in Nat /\ at = slot + EpochLength - ago
      /\ EpochLength \in Nat
  BY TimeConstants
<1>. HIDE DEF at
<1>2. S = IF daemon[m].clocks # "several" THEN {}
          ELSE {target - at : target \in get_next_maintainer_duty_slot(m, at)}
  BY DEF estimate_time_until_slot, at
<1>3. time = CHOOSE x \in S \cup {PollInterval} : \A u \in S \cup {PollInterval} : x <= u
  BY DEF sleep_until_next_iteration
<1>4. PollInterval \in Nat
  BY TimeConstants
<1>. HIDE DEF S, time
<1>5. CASE daemon[m].clocks # "several"
  <2>1. S = {}
    BY <1>2, <1>5
  <2>. QED
    BY <1>3, <1>4, <1>5, <2>1, LeastTime DEF time
<1>6. CASE daemon[m].clocks = "several" /\ m \notin Keys(maintainers)
  <2>1. S = {}
    BY <1>2, <1>6 DEF get_next_maintainer_duty_slot
  <2>2. time \in Nat
    BY <1>3, <1>4, <2>1, LeastTime
  <2>3. ASSUME NEW t \in 1 .. (time - ago - 1) PROVE ~DutyBegins(m, slot + t)
    <3>1. slot + t \in Nat
      BY <1>1, <2>2
    <3>. QED
      BY <1>6, <3>1, BeginningsRepeat
  <2>. QED
    BY <2>2, <2>3 DEF time, SleepsThrough
<1>7. CASE daemon[m].clocks = "several" /\ m \in Keys(maintainers)
  <2>1. PICK target \in Nat :
              /\ get_next_maintainer_duty_slot(m, at) = {target}
              /\ target > at
              /\ \A u \in Nat : u > at /\ DutyBegins(m, u) => u >= target
    BY <1>1, <1>7, NextDuty
  <2>2. S = {target - at} /\ target - at \in Nat
    BY <1>1, <1>2, <1>7, <2>1
  <2>3. time \in Nat /\ time <= target - at
    BY <1>3, <1>4, <2>2, LeastTime
  <2>4. ASSUME NEW t \in 1 .. (time - ago - 1), DutyBegins(m, slot + t) PROVE FALSE
    <3>1. slot + t \in Nat /\ t \in Int /\ t >= 1 /\ t <= time - ago - 1
      BY <1>1, <2>3
    <3>. DEFINE u == slot + t + EpochLength
    <3>2. DutyBegins(m, u)
      BY <2>4, <3>1, BeginningsRepeat
    <3>3. u \in Nat /\ u > at /\ u < target
      BY <1>1, <2>1, <2>3, <3>1
    <3>. HIDE DEF u
    <3>. QED
      BY <1>1, <2>1, <3>2, <3>3
  <2>. QED
    BY <2>3, <2>4 DEF time, SleepsThrough
<1>. QED
  BY <1>5, <1>6, <1>7

\* What a daemon does after publish_snapshot.
LEMMA SleepingIsSound ==
    ASSUME slot \in 0 .. (EpochLength - 1), IsRoster(maintainers),
           daemon \in [Maintainers -> DaemonStates], NEW m \in Maintainers, NEW ago \in 0 .. Expiry
    PROVE  Sleeps(m, ago) \in DaemonStates /\ PollsAgain(m, ago) \in DaemonStates
<1>. DEFINE time == sleep_until_next_iteration(m, ago)
            c == Observed(daemon[m].clocks, ago)
<1>1. time \in Nat
  BY SleepIsSound
<1>2. c \in {"none", "one", "several"}
  BY DEF Observed
<1>. HIDE DEF time, c
<1>3. /\ [mode |-> "up", sleep |-> time, clocks |-> c] \in DaemonStates
      /\ [mode |-> "up", sleep |-> 0, clocks |-> c] \in DaemonStates
  BY <1>1, <1>2 DEF DaemonStates
<1>. QED
  BY <1>3 DEF Sleeps, PollsAgain, time, c

-----------------------------------------------------------------------------
(* The steps of the daemons *)

\* The pool is as it was.
LEMMA SamePool ==
    ASSUME IsPool(pool), NEW q, q = pool
    PROVE  IsPool(q) /\ KeepsStake(pool, q)
BY DEF KeepsStake, IsPool, HasUniqueKeys

\* An input changes a validator.
LEMMA OneIsChanged ==
    ASSUME IsPool(pool), NEW i \in DOMAIN pool.list, NEW w, Succeeds(pool.list[i], w),
           NEW q, q = [pool EXCEPT !.list = [pool.list EXCEPT ![i] = w]]
    PROVE  IsPool(q) /\ KeepsStake(pool, q)
<1>1. /\ pool = [reserve |-> pool.reserve, rate |-> pool.rate, list |-> pool.list]
      /\ pool.reserve \in Nat
  BY PoolFacts
<1>. DEFINE r == pool.reserve
            l == [pool.list EXCEPT ![i] = w]
            b == pool.rate
            l0 == pool.list
<1>2. pool = [reserve |-> r, rate |-> b, list |-> l0] /\ q = [pool EXCEPT !.list = l]
  BY <1>1
<1>. HIDE DEF l, r, b, l0
<1>3. q = [reserve |-> r, rate |-> b, list |-> l]
  BY <1>2
<1>4. Replaces(pool, i, w, pool.reserve, q)
  BY <1>3 DEF Replaces, r, b, l
<1>. QED
  BY <1>1, <1>4, OneIsReplaced

LEMMA RewardKeepsPool ==
    ASSUME IsPool(pool), NEW i \in DOMAIN pool.list, Reward(i)
    PROVE  IsPool(pool') /\ KeepsStake(pool, pool')
<1>. DEFINE v == pool.list[i]
            w == [v EXCEPT !.stakes[1] = @ + 1]
<1>1. pool' = [pool EXCEPT !.list = [pool.list EXCEPT ![i] = w]] /\ v.stakes # <<>>
  BY DEF Reward
<1>2. Succeeds(v, w)
  BY <1>1, PoolFacts, RewardedEntry
<1>. HIDE DEF w
<1>. QED
  BY <1>1, <1>2, OneIsChanged

LEMMA VoteKeepsPool ==
    ASSUME IsPool(pool), NEW i \in DOMAIN pool.list, NEW vote \in {"low", "high", "closed"},
           ChangeVoteAccount(i, vote)
    PROVE  IsPool(pool') /\ KeepsStake(pool, pool')
<1>. DEFINE v == pool.list[i]
            w == [v EXCEPT !.vote = vote]
<1>1. pool' = [pool EXCEPT !.list = [pool.list EXCEPT ![i] = w]]
  BY DEF ChangeVoteAccount
<1>2. Succeeds(v, w)
  BY PoolFacts, VoteEntry
<1>. HIDE DEF w
<1>. QED
  BY <1>1, <1>2, OneIsChanged

LEMMA StatusKeepsPool ==
    ASSUME IsPool(pool), NEW i \in DOMAIN pool.list,
           NEW status \in {"StakesSuspended", "PendingRemoval"}, ChangeStatus(i, status)
    PROVE  IsPool(pool') /\ KeepsStake(pool, pool')
<1>. DEFINE v == pool.list[i]
            w == [v EXCEPT !.status = status]
<1>1. pool' = [pool EXCEPT !.list = [pool.list EXCEPT ![i] = w]]
  BY DEF ChangeStatus
<1>2. Succeeds(v, w)
  BY PoolFacts, StatusEntry
<1>. HIDE DEF w
<1>. QED
  BY <1>1, <1>2, OneIsChanged

LEMMA DepositKeepsPool ==
    ASSUME IsPool(pool), NEW amount \in DepositAmounts, Deposit(amount)
    PROVE  IsPool(pool') /\ KeepsStake(pool, pool')
<1>1. /\ pool = [reserve |-> pool.reserve, rate |-> pool.rate, list |-> pool.list]
      /\ pool.reserve \in Nat /\ pool.rate \in BOOLEAN
      /\ Len(pool.list) \in Nat /\ DOMAIN pool.list = 1..Len(pool.list)
      /\ \A i \in DOMAIN pool.list : IsEntry(pool.list[i])
      /\ HasUniqueKeys(pool.list) /\ pool.list \in Seq(ValidatorState)
  BY PoolFacts
<1>. DEFINE r == pool.reserve
            n == Len(pool.list)
            l == pool.list
            b == pool.rate
<1>2. /\ pool = [reserve |-> r, rate |-> b, list |-> l] /\ r \in Nat /\ b \in BOOLEAN
      /\ n \in Nat /\ DOMAIN l = 1..n /\ \A i \in 1..n : IsEntry(l[i])
      /\ \A i, j \in 1..n : l[i].pubkey = l[j].pubkey => i = j
  BY <1>1 DEF HasUniqueKeys
<1>3. pool' = [pool EXCEPT !.reserve = r + amount] /\ r + amount \in Nat
  BY <1>2, DaemonAssumption DEF Deposit
<1>4. l = [i \in 1..n |-> l[i]]
  BY <1>1
<1>. HIDE DEF r, l, b, n
<1>5. AreEntries(l, n)
  BY <1>2, <1>4 DEF AreEntries
<1>6. pool' = [reserve |-> r + amount, rate |-> b, list |-> l]
  BY <1>2, <1>3
<1>7. IsPool(pool') /\ pool'.list = l
  <2>1. IsPoolOf(pool', r + amount, b, l)
    BY <1>6 DEF IsPoolOf
  <2>. QED
    BY <1>2, <1>3, <1>5, <2>1, PoolFrom
<1>. QED
  BY <1>2, <1>7 DEF KeepsStake, l

\* The pool at the start of an epoch.
StartsEpoch(q) == q = [pool EXCEPT !.rate = FALSE, !.list = [i \in DOMAIN @ |-> Aged(@[i])]]

LEMMA EpochKeepsPool ==
    ASSUME IsPool(pool), NEW q, StartsEpoch(q)
    PROVE  IsPool(q) /\ KeepsStake(pool, q)
<1>1. /\ pool = [reserve |-> pool.reserve, rate |-> pool.rate, list |-> pool.list]
      /\ pool.reserve \in Nat /\ pool.rate \in BOOLEAN
      /\ Len(pool.list) \in Nat /\ DOMAIN pool.list = 1..Len(pool.list)
      /\ \A i \in DOMAIN pool.list : IsEntry(pool.list[i])
      /\ HasUniqueKeys(pool.list)
  BY PoolFacts
<1>. DEFINE r == pool.reserve
            n == Len(pool.list)
            l == pool.list
            b == pool.rate
            a == [i \in 1..n |-> Aged(l[i])]
            no == FALSE
<1>2. /\ pool = [reserve |-> r, rate |-> b, list |-> l] /\ r \in Nat /\ b \in BOOLEAN
      /\ n \in Nat /\ DOMAIN l = 1..n /\ \A i \in 1..n : IsEntry(l[i])
      /\ \A i, j \in 1..n : l[i].pubkey = l[j].pubkey => i = j
  BY <1>1 DEF HasUniqueKeys
<1>3. q = [pool EXCEPT !.rate = FALSE, !.list = a]
  BY <1>2 DEF StartsEpoch
<1>. HIDE DEF r, l, b, n
<1>4. ASSUME NEW i \in 1..n
      PROVE  a[i] = Aged(l[i]) /\ Succeeds(l[i], a[i])
  BY <1>2, AgedEntry
<1>4a. DOMAIN a = 1..n /\ a = [i \in 1..n |-> a[i]]
  OBVIOUS
<1>4b. no \in BOOLEAN /\ q = [pool EXCEPT !.rate = no, !.list = a]
  BY <1>3
<1>. HIDE DEF a, no
<1>5. q = [reserve |-> r, rate |-> no, list |-> a]
  BY <1>2, <1>4b
<1>6. \A i \in 1..n : /\ IsEntry(a[i]) /\ a[i].pubkey = l[i].pubkey
                      /\ IsActive(l[i]) /\ IsActive(a[i]) /\ l[i].stakes # <<>> => a[i].stakes # <<>>
  BY <1>4 DEF Succeeds
<1>7. AreEntries(a, n)
  BY <1>2, <1>4a, <1>6 DEF AreEntries
<1>8. IsPool(q) /\ q.list = a
  <2>1. IsPoolOf(q, r, no, a)
    BY <1>5 DEF IsPoolOf
  <2>2. r \in Nat /\ no \in BOOLEAN /\ n \in Nat
    BY <1>2, <1>4b
  <2>. QED
    BY <1>7, <2>1, <2>2, PoolFrom
<1>9. KeepsStake(pool, q)
  <2>. SUFFICES ASSUME NEW i \in 1..n, NEW j \in 1..n, l[i].pubkey = a[j].pubkey,
                       IsActive(l[i]), IsActive(a[j]), l[i].stakes # <<>>
                PROVE  a[j].stakes # <<>>
    BY <1>2, <1>4a, <1>8 DEF KeepsStake, l
  <2>1. i = j
    BY <1>2, <1>6
  <2>. QED
    BY <1>6, <2>1
<1>. QED
  BY <1>8, <1>9

\* No step of anyone leaves an unsound pool, or takes away the stake of an active validator.
LEMMA PoolStaysSound ==
    ASSUME DaemonInv, Next
    PROVE  IsPool(pool') /\ KeepsStake(pool, pool')
<1>0. IsPool(pool)
  BY DEF DaemonInv
<1>1. CASE UNCHANGED pool
  BY <1>0, <1>1, SamePool
<1>2. ASSUME NEW p \in pending, Execute(p)
      PROVE  IsPool(pool') /\ KeepsStake(pool, pool')
  <2>1. p.ins \in Instructions
    BY DEF DaemonInv, IsUnderWay, Transactions
  <2>2. pool' = pool \/ pool' \in Executed(p.ins, p.by, p.at)
    BY <1>2 DEF Execute
  <2>. QED
    BY <1>0, <2>1, <2>2, SamePool, ExecutedIsPool
<1>3. CASE Tick
  BY <1>0, <1>3, SamePool, EpochKeepsPool DEF Tick, StartsEpoch
<1>4. ASSUME NEW amount \in DepositAmounts, Deposit(amount)
      PROVE  IsPool(pool') /\ KeepsStake(pool, pool')
  BY <1>0, <1>4, DepositKeepsPool
<1>5. ASSUME NEW i \in DOMAIN pool.list, Reward(i)
      PROVE  IsPool(pool') /\ KeepsStake(pool, pool')
  BY <1>0, <1>5, RewardKeepsPool
<1>6. ASSUME NEW i \in DOMAIN pool.list, NEW vote \in {"low", "high", "closed"}, ChangeVoteAccount(i, vote)
      PROVE  IsPool(pool') /\ KeepsStake(pool, pool')
  BY <1>0, <1>6, VoteKeepsPool
<1>7. ASSUME NEW i \in DOMAIN pool.list, NEW status \in {"StakesSuspended", "PendingRemoval"},
             ChangeStatus(i, status)
      PROVE  IsPool(pool') /\ KeepsStake(pool, pool')
  BY <1>0, <1>7, StatusKeepsPool
<1>8. ASSUME NEW m \in Maintainers,
             \/ run_maintenance_iteration(m) \/ (\E time \in 0 .. MaxBackoff : ErrSnapshot(m, time))
             \/ ErrMaintenance(m) \/ FailToConfirm(m) \/ Crash(m) \/ Restart(m)
             \/ ChangeMaintainers(m)
      PROVE  UNCHANGED pool
  BY <1>8 DEF run_maintenance_iteration, ErrSnapshot, ErrMaintenance, FailToConfirm, Crash, Restart,
              ChangeMaintainers
<1>. QED
  BY <1>1, <1>2, <1>3, <1>4, <1>5, <1>6, <1>7, <1>8 DEF Next

\* The maintainer list stays one in which nobody occurs twice, and the reliable one stays in it.
LEMMA RosterStaysSound ==
    ASSUME DaemonInv, Next
    PROVE  IsRoster(maintainers') /\ Reliable \in Keys(maintainers')
<1>. DEFINE P == IsRoster(maintainers') /\ Reliable \in Keys(maintainers')
<1>0. IsRoster(maintainers) /\ Reliable \in Keys(maintainers)
  BY DEF DaemonInv
<1>1. CASE UNCHANGED maintainers
  BY <1>0, <1>1 DEF IsRoster
<1>2. ASSUME NEW m \in Maintainers, ChangeMaintainers(m) PROVE P
  <2>. DEFINE list == maintainers
              new == maintainers'
              max == Len(list) + 1
              e == [pubkey |-> m]
              p == Position(list, m)
  <2>1. m # Reliable /\ new = IF m \in Keys(list) THEN SwapRemove(list, p) ELSE Append(list, e)
    BY <1>2 DEF ChangeMaintainers
  <2>2. list \in Seq(Entries) /\ HasUniqueKeys(list)
    BY <1>0 DEF IsRoster
  <2>3. max \in Nat /\ IsList(Entries, max, list) /\ Len(list) # max
    <3>. HIDE DEF list
    <3>. QED
      BY <2>2 DEF IsList
  <2>4. e \in Entries /\ e.pubkey = m
    BY DEF Entries
  <2>. HIDE DEF list, new, max, e, p
  <2>5. IsList(Entries, max, new) /\ Reliable \in Keys(new)
    <3>1. CASE m \in Keys(list)
      <4>1. p \in DOMAIN list /\ list[p].pubkey = m
        BY <3>1, PositionOfKey DEF p
      <4>2. Removes(list, p, new)
        BY <2>1, <3>1 DEF Removes
      <4>3. IsList(Entries, max, new) /\ Keys(new) = Keys(list) \ {m}
        BY <2>3, <4>1, <4>2, RemoveEntry
      <4>. QED
        BY <1>0, <2>1, <4>3 DEF list
    <3>2. CASE m \notin Keys(list)
      <4>1. CanPush(list, max, e.pubkey)
        BY <2>3, <2>4, <3>2 DEF CanPush
      <4>2. Pushes(list, e, new)
        BY <2>1, <3>2 DEF Pushes
      <4>3. IsList(Entries, max, new) /\ Keys(new) = Keys(list) \cup {m}
        BY <2>3, <2>4, <4>1, <4>2, PushEntry
      <4>. QED
        BY <1>0, <4>3 DEF list
    <3>. QED
      BY <3>1, <3>2
  <2>6. new # <<>>
    BY <2>5 DEF Keys
  <2>. QED
    BY <2>5, <2>6 DEF IsList, IsRoster, new
<1>3. \/ UNCHANGED maintainers
      \/ \E m \in Maintainers : ChangeMaintainers(m)
  BY DEF Next, run_maintenance_iteration, ErrSnapshot, ErrMaintenance, FailToConfirm, Crash, Restart,
         Execute, Tick, Deposit, Reward, ChangeVoteAccount, ChangeStatus
<1>. QED
  BY <1>1, <1>2, <1>3

\* The states of daemons.
LEMMA DaemonsStaySound ==
    ASSUME DaemonInv, Next
    PROVE  daemon' \in [Maintainers -> DaemonStates]
<1>. DEFINE P == daemon' \in [Maintainers -> DaemonStates]
<1>0. /\ daemon \in [Maintainers -> DaemonStates]
      /\ slot \in 0 .. (EpochLength - 1) /\ IsRoster(maintainers)
      /\ \A m \in Maintainers : daemon[m] \in DaemonStates
  BY DEF DaemonInv
<1>1. ASSUME NEW m \in Maintainers, NEW d \in DaemonStates, daemon' = [daemon EXCEPT ![m] = d] PROVE P
  BY <1>0, <1>1
<1>2. /\ Started \in DaemonStates /\ [Started EXCEPT !.mode = "down"] \in DaemonStates
  BY DEF Started, DaemonStates
<1>3. 0 \in 0 .. Expiry /\ Expiry \in 0 .. Expiry /\ \A p \in pending : p.age \in 0 .. Expiry
  BY TimeConstants DEF DaemonInv, IsUnderWay, Transactions
<1>4. ASSUME NEW m \in Maintainers, NEW ago \in 0 .. Expiry
      PROVE  Sleeps(m, ago) \in DaemonStates /\ PollsAgain(m, ago) \in DaemonStates
  BY <1>0, SleepingIsSound
<1>5. ASSUME NEW m \in Maintainers, run_maintenance_iteration(m) PROVE P
  <2>1. \/ daemon' = [daemon EXCEPT ![m] = Sleeps(m, 0)]
        \/ daemon' = [daemon EXCEPT ![m] = [Started EXCEPT !.mode = "down"]]
        \/ daemon' = [daemon EXCEPT ![m].mode = "waiting"]
    BY <1>5 DEF run_maintenance_iteration
  <2>2. [daemon[m] EXCEPT !.mode = "waiting"] \in DaemonStates
    BY <1>0 DEF DaemonStates
  <2>. QED
    BY <1>1, <1>2, <1>3, <1>4, <2>1, <2>2
<1>6. ASSUME NEW m \in Maintainers, NEW time \in 0 .. MaxBackoff, ErrSnapshot(m, time) PROVE P
  <2>0. time \in Nat
    BY DaemonAssumption
  <2>1. [daemon[m] EXCEPT !.mode = "failed", !.sleep = time] \in DaemonStates
    BY <1>0, <2>0 DEF DaemonStates
  <2>2. daemon' = [daemon EXCEPT ![m] = [daemon[m] EXCEPT !.mode = "failed", !.sleep = time]]
    BY <1>0, <1>6 DEF ErrSnapshot
  <2>. QED
    BY <1>1, <2>1, <2>2
<1>7. ASSUME NEW m \in Maintainers, ErrMaintenance(m) PROVE P
  BY <1>1, <1>3, <1>4, <1>7 DEF ErrMaintenance
<1>8. ASSUME NEW m \in Maintainers, FailToConfirm(m) PROVE P
  <2>1. \/ daemon' = [daemon EXCEPT ![m] = Sleeps(m, Expiry)]
        \/ \E p \in pending : daemon' = [daemon EXCEPT ![m] = Sleeps(m, p.age)]
    BY <1>8 DEF FailToConfirm, Awaited
  <2>. QED
    BY <1>1, <1>3, <1>4, <2>1
<1>9. ASSUME NEW m \in Maintainers, Crash(m) \/ Restart(m) PROVE P
  BY <1>1, <1>2, <1>9 DEF Crash, Restart
<1>10. ASSUME NEW p \in pending, Execute(p) PROVE P
  <2>1. p.by \in Maintainers
    BY DEF DaemonInv, IsUnderWay, Transactions
  <2>2. \/ daemon' = daemon
        \/ daemon' = [daemon EXCEPT ![p.by] = Sleeps(p.by, p.age)]
        \/ daemon' = [daemon EXCEPT ![p.by] = PollsAgain(p.by, p.age)]
    BY <1>10 DEF Execute
  <2>. QED
    BY <1>0, <1>1, <1>3, <1>4, <2>1, <2>2
<1>11. CASE Tick
  <2>. DEFINE D(m) == [daemon[m] EXCEPT !.sleep = IF @ > 0 THEN @ - 1 ELSE 0,
                                      !.clocks = IF @ = "one" /\ daemon[m].mode # "waiting"
                                                 THEN "several" ELSE @]
  <2>1. daemon' = [m \in Maintainers |-> D(m)]
    BY <1>11 DEF Tick
  <2>2. ASSUME NEW m \in Maintainers PROVE D(m) \in DaemonStates
    <3>. DEFINE d == daemon[m]
                s == IF d.sleep > 0 THEN d.sleep - 1 ELSE 0
                c == IF d.clocks = "one" /\ d.mode # "waiting" THEN "several" ELSE d.clocks
    <3>1. d \in DaemonStates /\ D(m) = [d EXCEPT !.sleep = s, !.clocks = c]
      BY <1>0
    <3>. HIDE DEF d, D
    <3>2. s \in Nat /\ c \in {"none", "one", "several"}
      BY <3>1 DEF DaemonStates
    <3>. HIDE DEF s, c
    <3>. QED
      BY <3>1, <3>2 DEF DaemonStates
  <2>. HIDE DEF D
  <2>. QED
    BY <2>1, <2>2
<1>12. ASSUME Input PROVE P
  BY <1>0, <1>12 DEF Input
<1>. QED
  BY <1>5, <1>6, <1>7, <1>8, <1>9, <1>10, <1>11, <1>12
  DEF Next, ChangeMaintainers, Deposit, Reward, ChangeVoteAccount, ChangeStatus

\* A transaction under way in a slot of the epoch.
UnderWayAt(s, p) ==
    /\ p \in Transactions
    /\ p.age < Expiry
    /\ IsRoster(p.list)
    /\ OnDuty(p.list, p.by, s + EpochLength - p.age)

\* For each transaction that is awaited a daemon waits, and for no other.
AreAwaited(P, d) ==
    \A p \in P : p.awaited => /\ d[p.by].mode = "waiting"
                              /\ \A q \in P : q.by = p.by /\ q.awaited => q = p

LEMMA PendingFacts ==
    ASSUME DaemonInv
    PROVE  (\A p \in pending : UnderWayAt(slot, p)) /\ AreAwaited(pending, daemon)
BY DEF DaemonInv, IsUnderWay, IsAwaited, UnderWayAt, AreAwaited

\* A transaction that is not awaited any more.
Abandoned(p, m) == [p EXCEPT !.awaited = @ /\ p.by # m]

LEMMA AbandonedFacts ==
    ASSUME NEW p \in Transactions, NEW m
    PROVE  /\ Abandoned(p, m) \in Transactions
           /\ Abandoned(p, m).by = p.by /\ Abandoned(p, m).age = p.age
           /\ Abandoned(p, m).list = p.list
           /\ Abandoned(p, m).awaited => p.awaited /\ p.by # m
           /\ p.by # m => Abandoned(p, m) = p
<1>. DEFINE a == p.awaited /\ p.by # m
            x == Abandoned(p, m)
<1>1. x = [p EXCEPT !.awaited = a] /\ a \in BOOLEAN /\ p.awaited \in BOOLEAN
  BY DEF Abandoned, Transactions
<1>2. p.by # m => a = p.awaited
  BY <1>1
<1>3. a => p.awaited /\ p.by # m
  OBVIOUS
<1>. HIDE DEF a, x
<1>4. x \in Transactions
  BY <1>1 DEF Transactions
<1>5. x.by = p.by /\ x.age = p.age /\ x.list = p.list /\ x.awaited = a
  BY <1>1 DEF Transactions
<1>6. a = p.awaited => x = p
  BY <1>1 DEF Transactions
<1>. QED
  BY <1>2, <1>3, <1>4, <1>5, <1>6 DEF x

AbandonsAll(P, m) == P = {Abandoned(p, m) : p \in pending}

\* A daemon stops waiting.
LEMMA AbandonAll ==
    ASSUME NEW s, NEW m, \A p \in pending : UnderWayAt(s, p), AreAwaited(pending, daemon),
           daemon \in [Maintainers -> DaemonStates],
           NEW x, NEW d, d = [daemon EXCEPT ![m] = x],
           NEW P, AbandonsAll(P, m)
    PROVE  (\A p \in P : UnderWayAt(s, p)) /\ AreAwaited(P, d)
<1>1. ASSUME NEW p \in P PROVE UnderWayAt(s, p)
  <2>1. PICK q \in pending : p = Abandoned(q, m)
    BY DEF AbandonsAll
  <2>2. UnderWayAt(s, q)
    OBVIOUS
  <2>. QED
    BY <2>1, <2>2, AbandonedFacts DEF UnderWayAt
<1>2. ASSUME NEW p \in P, p.awaited
      PROVE  p \in pending /\ p.by # m /\ p.by \in Maintainers
  <2>1. PICK q \in pending : p = Abandoned(q, m)
    BY DEF AbandonsAll
  <2>2. q \in Transactions
    BY DEF UnderWayAt
  <2>3. q.by # m /\ p = q
    BY <1>2, <2>1, <2>2, AbandonedFacts
  <2>. QED
    BY <2>2, <2>3 DEF Transactions
<1>3. AreAwaited(P, d)
  <2>. SUFFICES ASSUME NEW p \in P, p.awaited
                PROVE  /\ d[p.by].mode = "waiting"
                       /\ \A q \in P : q.by = p.by /\ q.awaited => q = p
    BY DEF AreAwaited
  <2>1. p \in pending /\ p.by # m /\ p.by \in Maintainers
    BY <1>2
  <2>2. d[p.by] = daemon[p.by]
    BY <2>1
  <2>3. \A q \in P : q.awaited => q \in pending
    BY <1>2
  <2>. QED
    BY <2>1, <2>2, <2>3 DEF AreAwaited
<1>. QED
  BY <1>1, <1>3

\* A daemon that waits for nothing does something else, or its transaction is executed.
LEMMA SomeAreLeft ==
    ASSUME NEW s, NEW m, \A p \in pending : UnderWayAt(s, p), AreAwaited(pending, daemon),
           daemon \in [Maintainers -> DaemonStates],
           NEW x, NEW d, d = [daemon EXCEPT ![m] = x],
           NEW P, P \subseteq pending, \A p \in P : p.awaited => p.by # m
    PROVE  (\A p \in P : UnderWayAt(s, p)) /\ AreAwaited(P, d)
<1>1. ASSUME NEW p \in P, p.awaited
      PROVE  d[p.by] = daemon[p.by]
  <2>1. p \in Transactions /\ p.by # m
    BY <1>1 DEF UnderWayAt
  <2>2. p.by \in Maintainers
    BY <2>1 DEF Transactions
  <2>. QED
    BY <2>1, <2>2
<1>. QED
  BY <1>1 DEF AreAwaited

\* The maintainer that sends a transaction is on duty.
LEMMA SenderIsOnDuty ==
    ASSUME slot \in 0 .. (EpochLength - 1), IsRoster(maintainers), NEW m \in get_current_maintainer_duty
    PROVE  OnDuty(maintainers, m, slot + EpochLength - 0)
<1>1. slot \in Nat /\ slot + EpochLength - 0 = slot + EpochLength
  BY TimeConstants
<1>2. OnDuty(maintainers, m, slot)
  BY DEF get_current_maintainer_duty, OnDuty, IsPause, Turn
<1>. QED
  BY <1>1, <1>2, DutyRepeats

LEMMA OneIsSent ==
    ASSUME DaemonInv, NEW m \in Maintainers, daemon[m].mode # "waiting",
           m \in get_current_maintainer_duty, NEW ins \in Instructions,
           NEW P, P = pending \cup {Transaction(m, ins)},
           NEW d, d = [daemon EXCEPT ![m].mode = "waiting"]
    PROVE  (\A p \in P : UnderWayAt(slot, p)) /\ AreAwaited(P, d)
<1>0. /\ daemon \in [Maintainers -> DaemonStates] /\ slot \in 0 .. (EpochLength - 1)
      /\ IsRoster(maintainers)
  BY DEF DaemonInv
<1>1. (\A p \in pending : UnderWayAt(slot, p)) /\ AreAwaited(pending, daemon)
  BY PendingFacts
<1>. DEFINE t == Transaction(m, ins)
            at == Position(maintainers, m)
<1>2. at \in Nat /\ maintainers \in Seq(Entries)
  <2>1. m \in Keys(maintainers)
    <3>1. slot \in Nat
      BY <1>0, TimeConstants
    <3>2. Turn(maintainers, slot) \in DOMAIN maintainers
      BY <1>0, <3>1, TurnIsInList, RosterLength
    <3>3. m = maintainers[Turn(maintainers, slot)].pubkey
      BY DEF get_current_maintainer_duty, Turn
    <3>. QED
      BY <3>2, <3>3 DEF Keys
  <2>. QED
    BY <1>0, <2>1, PositionOfKey, RosterLength DEF IsRoster
<1>. HIDE DEF at
<1>3. t = [by |-> m, at |-> at, ins |-> ins, age |-> 0, list |-> maintainers, awaited |-> TRUE]
  BY DEF Transaction, at
<1>. HIDE DEF t
<1>4. t \in Transactions
  <2>. DEFINE I == Instructions
              S == Seq(Entries)
              yes == TRUE
  <2>1. ins \in I /\ maintainers \in S /\ yes \in BOOLEAN
    BY <1>2
  <2>2. t = [by |-> m, at |-> at, ins |-> ins, age |-> 0, list |-> maintainers, awaited |-> yes]
    BY <1>3
  <2>. HIDE DEF I, S, yes
  <2>3. t \in [by : Maintainers, at : Nat, ins : I, age : Nat, list : S, awaited : BOOLEAN]
    BY <1>2, <2>1, <2>2
  <2>. QED
    BY <2>3 DEF Transactions, I, S
<1>5. t.by = m /\ t.age = 0 /\ t.list = maintainers /\ t.awaited
  BY <1>3
<1>6. OnDuty(maintainers, m, slot + EpochLength - 0)
  BY <1>0, SenderIsOnDuty
<1>7. 0 < Expiry
  BY TimeConstants
<1>8. UnderWayAt(slot, t)
  BY <1>0, <1>4, <1>5, <1>6, <1>7 DEF UnderWayAt
<1>9. P = pending \cup {t}
  BY DEF t
<1>10. d[m].mode = "waiting" /\ \A k \in Maintainers : k # m => d[k] = daemon[k]
  BY <1>0 DEF DaemonStates
<1>11. \A p \in pending : p.awaited => p.by # m
  BY <1>1 DEF AreAwaited
<1>12. \A p \in pending : p.by \in Maintainers
  BY <1>1 DEF UnderWayAt, Transactions
<1>13. AreAwaited(P, d)
  <2>. SUFFICES ASSUME NEW p \in P, p.awaited
                PROVE  /\ d[p.by].mode = "waiting"
                       /\ \A q \in P : q.by = p.by /\ q.awaited => q = p
    BY DEF AreAwaited
  <2>1. CASE p = t
    BY <1>5, <1>9, <1>10, <1>11, <2>1
  <2>2. CASE p \in pending
    BY <1>1, <1>5, <1>9, <1>10, <1>11, <1>12, <2>2 DEF AreAwaited
  <2>. QED
    BY <1>9, <2>1, <2>2
<1>. QED
  BY <1>1, <1>8, <1>9, <1>13

\* The next slot of the epoch, or the first.
LEMMA NextSlot ==
    ASSUME slot \in 0 .. (EpochLength - 1)
    PROVE  /\ (slot + 1) % EpochLength \in 0 .. (EpochLength - 1)
           /\ slot + 1 < EpochLength => (slot + 1) % EpochLength = slot + 1
           /\ ~(slot + 1 < EpochLength) => slot = EpochLength - 1 /\ (slot + 1) % EpochLength = 0
           /\ (slot + 1) % EpochLength # slot
<1>. DEFINE a == slot + 1
            s == (slot + 1) % EpochLength
<1>0. EpochLength \in Nat \ {0} /\ EpochLength > 1 /\ a \in Nat \ {0} /\ a <= EpochLength /\ slot = a - 1
  BY TimeConstants
<1>1. CASE a < EpochLength
  <2>1. a = EpochLength * 0 + a
    BY <1>0
  <2>2. a % EpochLength = a
    BY <1>0, <1>1, <2>1, DivModIsUnique
  <2>3. s = a
    BY <2>2
  <2>. HIDE DEF s, a
  <2>4. s \in 0 .. (EpochLength - 1) /\ s # slot
    BY <1>0, <1>1, <2>3
  <2>. QED
    BY <1>1, <2>3, <2>4 DEF s, a
<1>2. CASE a = EpochLength
  <2>1. a = EpochLength * 1 + 0
    BY <1>0, <1>2
  <2>2. a % EpochLength = 0
    BY <1>0, <1>2, <2>1, DivModIsUnique
  <2>3. s = 0
    BY <2>2
  <2>. HIDE DEF s
  <2>4. s \in 0 .. (EpochLength - 1) /\ s # slot /\ slot = EpochLength - 1 /\ ~(slot + 1 < EpochLength)
    BY <1>0, <1>2, <2>3
  <2>. QED
    BY <2>3, <2>4 DEF s
<1>. QED
  BY <1>0, <1>1, <1>2

\* A transaction becomes older.
LEMMA OlderFacts ==
    ASSUME NEW p \in Transactions, NEW x, x = [p EXCEPT !.age = @ + 1]
    PROVE  /\ x \in Transactions /\ x.by = p.by /\ x.age = p.age + 1 /\ x.list = p.list
           /\ x.awaited = p.awaited /\ p.age \in Nat
<1>. DEFINE a == p.age + 1
<1>1. p.age \in Nat /\ a \in Nat /\ x = [p EXCEPT !.age = a]
  BY DEF Transactions
<1>. HIDE DEF a
<1>2. x \in Transactions
  BY <1>1 DEF Transactions
<1>3. x.by = p.by /\ x.age = a /\ x.list = p.list /\ x.awaited = p.awaited
  BY <1>1 DEF Transactions
<1>. QED
  BY <1>1, <1>2, <1>3 DEF a

LEMMA OlderIsUnderWay ==
    ASSUME slot \in 0 .. (EpochLength - 1), NEW p, UnderWayAt(slot, p), p.age + 1 < Expiry,
           NEW x, x = [p EXCEPT !.age = @ + 1], NEW s, s = (slot + 1) % EpochLength
    PROVE  UnderWayAt(s, x)
<1>1. /\ p \in Transactions /\ IsRoster(p.list)
      /\ OnDuty(p.list, p.by, slot + EpochLength - p.age)
  BY DEF UnderWayAt
<1>2. /\ x \in Transactions /\ x.by = p.by /\ x.age = p.age + 1 /\ x.list = p.list
      /\ p.age \in Nat
  BY <1>1, OlderFacts
<1>. DEFINE list == p.list
            m == p.by
            age == p.age
            at == s + EpochLength - x.age
<1>3. OnDuty(list, m, at)
  <2>1. CASE slot + 1 < EpochLength
    <3>1. s = slot + 1 /\ slot \in Nat
      BY <2>1, NextSlot, TimeConstants
    <3>2. at = slot + EpochLength - p.age
      <4>. HIDE DEF age
      <4>1. x.age = age + 1 /\ age \in Nat
        BY <1>2 DEF age
      <4>2. at = slot + EpochLength - age
        BY <3>1, <4>1, TimeConstants
      <4>. QED
        BY <4>2 DEF age
    <3>. QED
      BY <1>1, <3>2
  <2>2. CASE ~(slot + 1 < EpochLength)
    <3>1. s = 0 /\ slot = EpochLength - 1
      BY <2>2, NextSlot
    <3>. DEFINE y == EpochLength - 1 - age
    <3>2. y \in Nat /\ at = y /\ slot + EpochLength - p.age = y + EpochLength
      BY <1>2, <3>1, TimeConstants
    <3>3. OnDuty(list, m, y + EpochLength) /\ y \in Nat
      BY <1>1, <3>2
    <3>. HIDE DEF y
    <3>4. OnDuty(list, m, y)
      BY <1>1, <3>3, DutyRepeats
    <3>. QED
      BY <3>2, <3>4
  <2>. QED
    BY <2>1, <2>2
<1>. QED
  BY <1>1, <1>2, <1>3 DEF UnderWayAt

LEMMA TickKeepsPending ==
    ASSUME DaemonInv, Tick
    PROVE  (\A p \in pending' : UnderWayAt(slot', p)) /\ AreAwaited(pending', daemon')
<1>0. slot \in 0 .. (EpochLength - 1) /\ daemon \in [Maintainers -> DaemonStates]
  BY DEF DaemonInv
<1>1. (\A p \in pending : UnderWayAt(slot, p)) /\ AreAwaited(pending, daemon)
  BY PendingFacts
<1>2. slot' = (slot + 1) % EpochLength
  BY DEF Tick
<1>3. ASSUME NEW x \in pending'
      PROVE  \E p \in pending : x = [p EXCEPT !.age = @ + 1] /\ p.age + 1 < Expiry
  BY DEF Tick
<1>4. ASSUME NEW x \in pending' PROVE UnderWayAt(slot', x)
  BY <1>0, <1>1, <1>2, <1>3, OlderIsUnderWay
<1>5. \A m \in Maintainers : daemon'[m].mode = daemon[m].mode
  <2>. SUFFICES ASSUME NEW m \in Maintainers PROVE daemon'[m].mode = daemon[m].mode
    OBVIOUS
  <2>1. \E s, c : daemon'[m] = [daemon[m] EXCEPT !.sleep = s, !.clocks = c]
    BY DEF Tick
  <2>. QED
    BY <1>0, <2>1 DEF DaemonStates
<1>6. AreAwaited(pending', daemon')
  <2>. SUFFICES ASSUME NEW x \in pending', x.awaited
                PROVE  /\ daemon'[x.by].mode = "waiting"
                       /\ \A y \in pending' : y.by = x.by /\ y.awaited => y = x
    BY DEF AreAwaited
  <2>1. PICK p \in pending : x = [p EXCEPT !.age = @ + 1]
    BY <1>3
  <2>2. p \in Transactions /\ p.by \in Maintainers
    BY <1>1 DEF UnderWayAt, Transactions
  <2>3. x.by = p.by /\ p.awaited
    BY <2>1, <2>2, OlderFacts
  <2>4. daemon[p.by].mode = "waiting" /\ \A q \in pending : q.by = p.by /\ q.awaited => q = p
    BY <1>1, <2>3 DEF AreAwaited
  <2>5. ASSUME NEW y \in pending', y.by = x.by, y.awaited PROVE y = x
    <3>1. PICK q \in pending : y = [q EXCEPT !.age = @ + 1]
      BY <1>3
    <3>2. q \in Transactions
      BY <1>1 DEF UnderWayAt
    <3>3. y.by = q.by /\ q.awaited
      BY <2>5, <3>1, <3>2, OlderFacts
    <3>4. q = p
      BY <2>3, <2>4, <2>5, <3>3
    <3>. QED
      BY <2>1, <3>1, <3>4
  <2>. QED
    BY <1>5, <2>2, <2>3, <2>4, <2>5
<1>. QED
  BY <1>4, <1>6

\* The transactions under way, after every step.
LEMMA PendingStaysSound ==
    ASSUME DaemonInv, Next
    PROVE  (\A p \in pending' : UnderWayAt(slot', p)) /\ AreAwaited(pending', daemon')
<1>. DEFINE P == (\A p \in pending' : UnderWayAt(slot', p)) /\ AreAwaited(pending', daemon')
<1>0. /\ daemon \in [Maintainers -> DaemonStates] /\ IsPool(pool)
      /\ \A m \in Maintainers : daemon[m] \in DaemonStates
  BY DEF DaemonInv
<1>1. (\A p \in pending : UnderWayAt(slot, p)) /\ AreAwaited(pending, daemon)
  BY PendingFacts
<1>2. ASSUME NEW m \in Maintainers, daemon[m].mode # "waiting", UNCHANGED <<slot, pending>>,
             NEW x, daemon' = [daemon EXCEPT ![m] = x]
      PROVE  P
  <2>1. \A p \in pending : p.awaited => p.by # m
    BY <1>1, <1>2 DEF AreAwaited
  <2>2. (\A p \in pending : UnderWayAt(slot, p)) /\ AreAwaited(pending, daemon')
    BY <1>0, <1>1, <1>2, <2>1, SomeAreLeft
  <2>. QED
    BY <1>2, <2>2
<1>3. ASSUME NEW m, IsDue(m) PROVE daemon[m].mode # "waiting"
  BY <1>3 DEF IsDue
<1>4. ASSUME NEW m \in Maintainers, run_maintenance_iteration(m) PROVE P
  <2>0. daemon[m].mode # "waiting" /\ UNCHANGED slot
    BY <1>3, <1>4 DEF run_maintenance_iteration
  <2>1. \/ /\ UNCHANGED pending
           /\ \E x : daemon' = [daemon EXCEPT ![m] = x]
        \/ \E ins \in try_perform_maintenance :
              /\ m \in get_current_maintainer_duty
              /\ ins # Panic
              /\ pending' = pending \cup {Transaction(m, ins)}
              /\ daemon' = [daemon EXCEPT ![m].mode = "waiting"]
    BY <1>4 DEF run_maintenance_iteration
  <2>2. CASE UNCHANGED pending /\ \E x : daemon' = [daemon EXCEPT ![m] = x]
    BY <1>2, <2>0, <2>2
  <2>3. ASSUME NEW ins \in try_perform_maintenance, m \in get_current_maintainer_duty, ins # Panic,
               pending' = pending \cup {Transaction(m, ins)},
               daemon' = [daemon EXCEPT ![m].mode = "waiting"]
        PROVE  P
    <3>1. ins \in Instructions
      BY <1>0, <2>3, DueIsSound
    <3>2. (\A p \in pending' : UnderWayAt(slot, p)) /\ AreAwaited(pending', daemon')
      BY <2>0, <2>3, <3>1, OneIsSent
    <3>. QED
      BY <2>0, <3>2
  <2>. QED
    BY <2>1, <2>2, <2>3
<1>5. ASSUME NEW m \in Maintainers, NEW time, ErrSnapshot(m, time) PROVE P
  <2>1. daemon' = [daemon EXCEPT ![m] = [daemon[m] EXCEPT !.mode = "failed", !.sleep = time]]
    BY <1>0, <1>5 DEF ErrSnapshot
  <2>. QED
    BY <1>2, <1>3, <1>5, <2>1 DEF ErrSnapshot
<1>6. ASSUME NEW m \in Maintainers, ErrMaintenance(m) PROVE P
  BY <1>2, <1>3, <1>6 DEF ErrMaintenance
<1>7. ASSUME NEW m \in Maintainers, Restart(m) PROVE P
  BY <1>2, <1>7 DEF Restart
<1>8. ASSUME NEW m \in Maintainers, FailToConfirm(m) \/ Crash(m) PROVE P
  <2>1. /\ pending' = {Abandoned(p, m) : p \in pending} /\ slot' = slot
        /\ \E x : daemon' = [daemon EXCEPT ![m] = x]
    BY <1>8 DEF FailToConfirm, Crash, Abandoned
  <2>2. PICK x : daemon' = [daemon EXCEPT ![m] = x]
    BY <2>1
  <2>3. (\A p \in pending' : UnderWayAt(slot, p)) /\ AreAwaited(pending', daemon')
    <3>1. AbandonsAll(pending', m)
      BY <2>1 DEF AbandonsAll
    <3>. QED
      BY <1>0, <1>1, <2>2, <3>1, AbandonAll
  <2>. QED
    BY <2>1, <2>3
<1>9. ASSUME NEW p \in pending, Execute(p) PROVE P
  <2>1. pending' = pending \ {p} /\ slot' = slot
    BY <1>9 DEF Execute
  <2>2. CASE p.awaited
    <3>1. PICK x : daemon' = [daemon EXCEPT ![p.by] = x]
      BY <1>9, <2>2 DEF Execute
    <3>2. pending' \subseteq pending /\ \A q \in pending' : q.awaited => q.by # p.by
      BY <1>1, <2>1, <2>2 DEF AreAwaited
    <3>3. (\A q \in pending' : UnderWayAt(slot, q)) /\ AreAwaited(pending', daemon')
      BY <1>0, <1>1, <3>1, <3>2, SomeAreLeft
    <3>. QED
      BY <2>1, <3>3
  <2>3. CASE ~p.awaited
    <3>1. daemon' = daemon
      BY <1>9, <2>3 DEF Execute
    <3>. QED
      BY <1>1, <2>1, <3>1 DEF AreAwaited
  <2>. QED
    BY <2>2, <2>3
<1>10. CASE Tick
  BY <1>10, TickKeepsPending
<1>11. CASE Input
  BY <1>1, <1>11 DEF Input
<1>. QED
  BY <1>4, <1>5, <1>6, <1>7, <1>8, <1>9, <1>10, <1>11
  DEF Next, ChangeMaintainers, Deposit, Reward, ChangeVoteAccount, ChangeStatus

LEMMA DaemonInvStep == DaemonInv /\ [Next]_vars => DaemonInv'
<1>. SUFFICES ASSUME DaemonInv, [Next]_vars PROVE DaemonInv'
  OBVIOUS
<1>1. CASE Next
  <2>1. slot' \in 0 .. (EpochLength - 1)
    <3>1. slot' = slot \/ slot' = (slot + 1) % EpochLength
      BY <1>1 DEF Next, run_maintenance_iteration, ErrSnapshot, ErrMaintenance, FailToConfirm, Crash,
              Restart, Execute, Tick, Input, Deposit, Reward, ChangeVoteAccount, ChangeStatus,
              ChangeMaintainers
    <3>2. slot \in 0 .. (EpochLength - 1)
      BY DEF DaemonInv
    <3>. QED
      BY <3>1, <3>2, NextSlot
  <2>2. IsRoster(maintainers)' /\ (Reliable \in Keys(maintainers))'
    BY <1>1, RosterStaysSound
  <2>3. IsPool(pool)'
    <3>1. IsPool(pool')
      BY <1>1, PoolStaysSound
    <3>. QED
      BY <3>1 DEF IsPool, IsSound, ValidatorState, HasUniqueKeys
  <2>4. daemon' \in [Maintainers -> DaemonStates]
    BY <1>1, DaemonsStaySound
  <2>5. \A p \in pending' : IsUnderWay(p)' /\ IsAwaited(p)'
    <3>1. (\A p \in pending' : UnderWayAt(slot', p)) /\ AreAwaited(pending', daemon')
      BY <1>1, PendingStaysSound
    <3>2. ASSUME NEW p \in pending' PROVE IsUnderWay(p)'
      BY <3>1 DEF IsUnderWay, UnderWayAt, Transactions, IsRoster, OnDuty, IsPause, Turn
    <3>3. ASSUME NEW p \in pending' PROVE IsAwaited(p)'
      BY <3>1 DEF IsAwaited, AreAwaited
    <3>. QED
      BY <3>2, <3>3
  <2>. QED
    BY <2>1, <2>2, <2>3, <2>4, <2>5 DEF DaemonInv
<1>2. CASE UNCHANGED vars
  BY <1>2 DEF vars, DaemonInv, IsUnderWay, IsAwaited, IsPool
<1>. QED
  BY <1>1, <1>2

LEMMA DaemonInvInit == Init => DaemonInv
<1>. SUFFICES ASSUME Init PROVE DaemonInv
  OBVIOUS
<1>1. slot \in 0 .. (EpochLength - 1)
  BY TimeConstants DEF Init
<1>2. IsRoster(maintainers) /\ Reliable \in Keys(maintainers)
  <2>. DEFINE n == Len(FirstList)
  <2>1. n \in Nat /\ DOMAIN FirstList = 1..n /\ \A i \in 1..n : FirstList[i] \in Maintainers
    BY DaemonAssumption
  <2>. HIDE DEF n
  <2>2. maintainers = [i \in 1..n |-> [pubkey |-> FirstList[i]]]
    BY <2>1 DEF Init
  <2>3. DOMAIN maintainers = 1..n /\ \A i \in 1..n : maintainers[i].pubkey = FirstList[i]
    BY <2>2
  <2>4. \A i \in 1..n : [pubkey |-> FirstList[i]] \in Entries
    BY <2>1 DEF Entries
  <2>5. maintainers \in Seq(Entries)
    BY <2>1, <2>2, <2>4
  <2>6. HasUniqueKeys(maintainers)
    BY <2>1, <2>3, DaemonAssumption DEF HasUniqueKeys
  <2>7. Reliable \in Keys(maintainers)
    <3>1. PICK i \in 1..n : FirstList[i] = Reliable
      BY <2>1, DaemonAssumption
    <3>2. maintainers[i].pubkey = Reliable /\ i \in DOMAIN maintainers
      BY <2>3, <3>1
    <3>. QED
      BY <3>2 DEF Keys
  <2>8. maintainers # <<>>
    BY <2>7 DEF Keys
  <2>. QED
    BY <2>5, <2>6, <2>7, <2>8 DEF IsRoster
<1>3. IsPool(pool)
  BY DaemonAssumption DEF Init
<1>4. daemon \in [Maintainers -> DaemonStates]
  <2>1. Started \in DaemonStates
    BY DEF Started, DaemonStates
  <2>. QED
    BY <2>1 DEF Init
<1>5. pending = {}
  BY DEF Init
<1>. QED
  BY <1>1, <1>2, <1>3, <1>4, <1>5 DEF DaemonInv

(***************************************************************************)
(* In every reachable state: no validator and no maintainer is listed twice*)
(* and no stake account is below the minimum, every transaction under way  *)
(* is of the maintainer that was on duty when it was sent, by the list that*)
(* was valid then, and a daemon waits for at most one of them.             *)
(***************************************************************************)
THEOREM DaemonInvariant == Spec => []DaemonInv
<1>1. Init => DaemonInv
  BY DaemonInvInit
<1>2. DaemonInv /\ [Next]_vars => DaemonInv'
  BY DaemonInvStep
<1>. QED
  BY <1>1, <1>2, PTL DEF Spec

LEMMA AtMostOneIsAwaited ==
    ASSUME DaemonInv, NEW m \in Maintainers
    PROVE  /\ Cardinality(Awaited(m)) <= 1
           /\ Awaited(m) # {} => daemon[m].mode = "waiting"
           /\ \A p, q \in Awaited(m) : p = q
<1>1. \A p, q \in Awaited(m) : p = q
  BY DEF DaemonInv, IsAwaited, Awaited
<1>2. Awaited(m) # {} => daemon[m].mode = "waiting"
  BY DEF DaemonInv, IsAwaited, Awaited
<1>3. CASE Awaited(m) = {}
  BY <1>1, <1>2, <1>3, FS_EmptySet
<1>4. CASE Awaited(m) # {}
  <2>1. PICK p : p \in Awaited(m)
    BY <1>4
  <2>2. Awaited(m) = {p}
    BY <1>1, <2>1
  <2>3. Cardinality({p}) = 1
    BY FS_Singleton
  <2>. QED
    BY <1>1, <1>2, <2>2, <2>3
<1>. QED
  BY <1>3, <1>4

LEMMA SoundTransactions == DaemonInv => TransactionsAreSound
<1>. SUFFICES ASSUME DaemonInv PROVE TransactionsAreSound
  OBVIOUS
<1>1. ASSUME NEW p \in pending PROVE p.age < Expiry /\ p.ins # Panic
  <2>1. p.ins \in Instructions /\ p.age < Expiry
    BY DEF DaemonInv, IsUnderWay, Transactions
  <2>2. p.ins.kind \in Kinds
    BY <2>1, InstructionFacts
  <2>3. Panic.kind = "Panic" /\ "Panic" \notin Kinds
    BY DEF Panic, Kinds
  <2>. QED
    BY <2>1, <2>2, <2>3
<1>2. Reliable \in Keys(maintainers) /\ Keys(maintainers) \subseteq Maintainers
  BY RosterLength DEF DaemonInv
<1>3. TypeOK
  BY <1>1, <1>2, AtMostOneIsAwaited DEF TypeOK, DaemonInv
<1>4. RacesNeedDelay
  BY RacesAreDelayed DEF RacesNeedDelay, DaemonInv
<1>. QED
  BY <1>3, <1>4 DEF TransactionsAreSound

(***************************************************************************)
(* TransactionsAreSound: the state is well typed, a daemon waits for at    *)
(* most one transaction, and those of two maintainers are only under way   *)
(* together when one has been delayed for longer than the pause at the end *)
(* of a slice.                                                             *)
(***************************************************************************)
THEOREM TransactionsStaySound == Spec => []TransactionsAreSound
BY DaemonInvariant, SoundTransactions, PTL

LEMMA StakeIsKept ==
    ASSUME DaemonInv, Next, NEW i \in DOMAIN pool.list, NEW j \in DOMAIN pool'.list,
           pool.list[i].pubkey = pool'.list[j].pubkey, IsActive(pool.list[i]), IsActive(pool'.list[j]),
           pool.list[i].stakes # <<>>
    PROVE  pool'.list[j].stakes # <<>> /\ pool'.list[j].stakes[1] >= MINIMUM_STAKE_ACCOUNT_BALANCE
<1>. DEFINE q == pool'
            w == q.list[j]
<1>1. IsPool(q) /\ KeepsStake(pool, q)
  BY PoolStaysSound
<1>2. w.stakes # <<>>
  BY <1>1 DEF KeepsStake
<1>. HIDE DEF q
<1>3. IsEntry(w)
  BY <1>1, PoolFacts DEF q
<1>4. w.stakes \in Seq(Sufficient)
  BY <1>3, EntryFacts
<1>5. w.stakes[1] >= MINIMUM_STAKE_ACCOUNT_BALANCE
  BY <1>2, <1>4, SufficientFacts
<1>. QED
  BY <1>2, <1>5 DEF q

(***************************************************************************)
(* ActiveKeepsItsStake: whatever stale transactions are executed, the first*)
(* stake account of a validator that remains active keeps the minimum.     *)
(***************************************************************************)
THEOREM ActiveStakeIsKept == Spec => ActiveKeepsItsStake
<1>. DEFINE A == \A i \in DOMAIN pool.list, j \in DOMAIN pool'.list :
                   (/\ pool.list[i].pubkey = pool'.list[j].pubkey
                    /\ IsActive(pool.list[i]) /\ IsActive(pool'.list[j])
                    /\ pool.list[i].stakes # <<>>)
                   => /\ pool'.list[j].stakes # <<>>
                      /\ pool'.list[j].stakes[1] >= MINIMUM_STAKE_ACCOUNT_BALANCE
<1>1. DaemonInv /\ [Next]_vars => [A]_vars
  <2>. SUFFICES ASSUME DaemonInv, Next PROVE A
    OBVIOUS
  <2>. QED
    BY StakeIsKept
<1>. QED
  BY <1>1, DaemonInvariant, PTL DEF Spec, ActiveKeepsItsStake

\* How long a daemon has waited.
LEMMA WaitedFacts ==
    ASSUME DaemonInv, NEW m \in Maintainers
    PROVE  /\ Waited(m) \in 0 .. Expiry
           /\ daemon[m].mode # "waiting" => Waited(m) = 0
           /\ daemon[m].mode = "waiting" /\ Awaited(m) = {} => Waited(m) = Expiry
           /\ \A p \in Awaited(m) : Waited(m) = p.age
<1>0. \A p \in Awaited(m) : p.age \in 0 .. Expiry
  BY TimeConstants DEF Awaited, DaemonInv, IsUnderWay, Transactions
<1>1. 0 \in 0 .. Expiry /\ Expiry \in 0 .. Expiry
  BY TimeConstants
<1>2. CASE Awaited(m) = {}
  BY <1>1, <1>2 DEF Waited
<1>3. CASE Awaited(m) # {}
  <2>1. daemon[m].mode = "waiting"
    BY <1>3, AtMostOneIsAwaited
  <2>. DEFINE c == CHOOSE p \in Awaited(m) : TRUE
  <2>2. c \in Awaited(m)
    BY <1>3
  <2>3. \A p \in Awaited(m) : p = c
    BY <2>2, AtMostOneIsAwaited
  <2>4. Waited(m) = c.age
    BY <1>3, <2>1 DEF Waited
  <2>. HIDE DEF c
  <2>. QED
    BY <1>0, <1>3, <2>1, <2>2, <2>3, <2>4
<1>. QED
  BY <1>2, <1>3

\* Whom a step puts to sleep, and for how long.
LEMMA SleepSteps ==
    ASSUME DaemonInv, Next, slot' = slot, NEW m \in Maintainers, daemon'[m].mode = "up",
           daemon'[m] # daemon[m]
    PROVE  daemon'[m].sleep = 0 \/ daemon'[m].sleep = sleep_until_next_iteration(m, Waited(m))
<1>. DEFINE P == daemon'[m].sleep = 0 \/ daemon'[m].sleep = sleep_until_next_iteration(m, Waited(m))
<1>0. /\ daemon \in [Maintainers -> DaemonStates] /\ slot \in 0 .. (EpochLength - 1)
      /\ \A p \in pending : p.by \in Maintainers
  BY DEF DaemonInv, IsUnderWay, Transactions
<1>1. ASSUME NEW k \in Maintainers, NEW x, daemon' = [daemon EXCEPT ![k] = x]
      PROVE  k = m /\ daemon'[m] = x
  BY <1>0, <1>1
<1>2. ASSUME NEW ago PROVE Sleeps(m, ago).sleep = sleep_until_next_iteration(m, ago)
  BY DEF Sleeps
<1>3. ASSUME NEW ago PROVE PollsAgain(m, ago).sleep = 0
  BY DEF PollsAgain
<1>4. IsDue(m) => Waited(m) = 0
  BY WaitedFacts DEF IsDue
<1>5. Started.sleep = 0 /\ [Started EXCEPT !.mode = "down"].mode # "up"
  BY DEF Started
<1>6. ASSUME NEW k \in Maintainers, run_maintenance_iteration(k) PROVE P
  <2>1. \/ daemon' = [daemon EXCEPT ![k] = Sleeps(k, 0)]
        \/ daemon' = [daemon EXCEPT ![k] = [Started EXCEPT !.mode = "down"]]
        \/ daemon' = [daemon EXCEPT ![k] = [daemon[k] EXCEPT !.mode = "waiting"]]
    BY <1>0, <1>6 DEF run_maintenance_iteration
  <2>2. IsDue(k)
    BY <1>6 DEF run_maintenance_iteration
  <2>3. [daemon[k] EXCEPT !.mode = "waiting"].mode = "waiting"
    BY <1>0 DEF DaemonStates
  <2>. QED
    BY <1>1, <1>2, <1>4, <1>5, <2>1, <2>2, <2>3, ZenonT(60)
<1>7. ASSUME NEW k \in Maintainers, NEW time, ErrSnapshot(k, time) PROVE P
  <2>1. daemon' = [daemon EXCEPT ![k] = [daemon[k] EXCEPT !.mode = "failed", !.sleep = time]]
    BY <1>0, <1>7 DEF ErrSnapshot
  <2>2. [daemon[k] EXCEPT !.mode = "failed", !.sleep = time].mode = "failed"
    BY <1>0 DEF DaemonStates
  <2>. QED
    BY <1>1, <2>1, <2>2
<1>8. ASSUME NEW k \in Maintainers, ErrMaintenance(k) PROVE P
  BY <1>1, <1>2, <1>4, <1>8 DEF ErrMaintenance
<1>9. ASSUME NEW k \in Maintainers, FailToConfirm(k) PROVE P
  <2>1. CASE Awaited(k) = {}
    <3>1. daemon' = [daemon EXCEPT ![k] = Sleeps(k, Expiry)] /\ daemon[k].mode = "waiting"
      BY <1>9, <2>1 DEF FailToConfirm
    <3>. QED
      BY <1>1, <1>2, <2>1, <3>1, WaitedFacts
  <2>2. CASE Awaited(k) # {}
    <3>1. PICK p \in Awaited(k) : daemon' = [daemon EXCEPT ![k] = Sleeps(k, p.age)]
      BY <1>9, <2>2 DEF FailToConfirm
    <3>. QED
      BY <1>1, <1>2, <3>1, WaitedFacts
  <2>. QED
    BY <2>1, <2>2
<1>10. ASSUME NEW k \in Maintainers, Crash(k) \/ Restart(k) PROVE P
  BY <1>1, <1>5, <1>10 DEF Crash, Restart
<1>11. ASSUME NEW p \in pending, Execute(p) PROVE P
  <2>1. \/ daemon' = daemon
        \/ p.awaited /\ daemon' = [daemon EXCEPT ![p.by] = Sleeps(p.by, p.age)]
        \/ p.awaited /\ daemon' = [daemon EXCEPT ![p.by] = PollsAgain(p.by, p.age)]
    BY <1>11 DEF Execute
  <2>2. CASE p.awaited /\ daemon' = [daemon EXCEPT ![p.by] = Sleeps(p.by, p.age)]
    <3>1. p.by = m /\ daemon'[m] = Sleeps(m, p.age)
      BY <1>0, <1>1, <2>2
    <3>2. p \in Awaited(m)
      BY <2>2, <3>1 DEF Awaited
    <3>. QED
      BY <1>2, <3>1, <3>2, WaitedFacts
  <2>3. CASE daemon' = [daemon EXCEPT ![p.by] = PollsAgain(p.by, p.age)]
    BY <1>0, <1>1, <1>3, <2>3
  <2>. QED
    BY <2>1, <2>2, <2>3
<1>12. ~Tick
  BY <1>0, NextSlot DEF Tick
<1>13. ~Input
  BY DEF Input
<1>. QED
  BY <1>6, <1>7, <1>8, <1>9, <1>10, <1>11, <1>12, <1>13
  DEF Next, ChangeMaintainers, Deposit, Reward, ChangeVoteAccount, ChangeStatus

LEMMA AwakeStep ==
    ASSUME DaemonInv, Next, slot' = slot, NEW m \in Maintainers, daemon[m].clocks = "several",
           daemon'[m].mode = "up", daemon'[m] # daemon[m],
           NEW t \in 1 .. (daemon'[m].sleep - Waited(m) - 1)
    PROVE  ~DutyBegins(m, slot + t)
<1>1. daemon'[m].sleep = 0 \/ daemon'[m].sleep = sleep_until_next_iteration(m, Waited(m))
  BY SleepSteps
<1>2. Waited(m) \in 0 .. Expiry /\ Expiry \in Nat
  BY WaitedFacts, TimeConstants
<1>3. daemon'[m].sleep # 0
  BY <1>2
<1>4. ~SleepsThrough(m, Waited(m), sleep_until_next_iteration(m, Waited(m)))
  BY <1>2, SleepIsSound DEF DaemonInv
<1>. QED
  BY <1>1, <1>3, <1>4 DEF SleepsThrough

(***************************************************************************)
(* AwakeForDuty: once a daemon can estimate the block time it never sleeps *)
(* through the beginning of a slice of its own, except for as long as it   *)
(* had waited for a transaction before.                                    *)
(***************************************************************************)
THEOREM DaemonsWakeForDuty == Spec => AwakeForDuty
<1>. DEFINE A == \A m \in Maintainers :
                   (daemon[m].clocks = "several" /\ daemon'[m].mode = "up" /\ daemon'[m] # daemon[m]
                      /\ slot' = slot)
                   => \A t \in 1 .. (daemon'[m].sleep - Waited(m) - 1) : ~DutyBegins(m, slot + t)
<1>1. DaemonInv /\ [Next]_vars => [A]_vars
  <2>. SUFFICES ASSUME DaemonInv, Next PROVE A
    OBVIOUS
  <2>. QED
    BY AwakeStep
<1>. QED
  BY <1>1, DaemonInvariant, PTL DEF Spec, AwakeForDuty

-----------------------------------------------------------------------------
(* An instruction that is executed twice *)

\* A validator that is written back as it was.
LEMMA SameWith ==
    ASSUME NEW p, IsPool(p), NEW i \in DOMAIN p.list, NEW w, w = p.list[i]
    PROVE  /\ [p EXCEPT !.list[i] = w] = p
           /\ [p EXCEPT !.reserve = @ + 0] = p
<1>1. /\ p = [reserve |-> p.reserve, rate |-> p.rate, list |-> p.list]
      /\ p.list \in Seq(ValidatorState) /\ p.reserve \in Nat
  BY PoolFacts
<1>. DEFINE l == p.list
<1>2. l \in Seq(ValidatorState) /\ i \in DOMAIN l /\ w = l[i]
  BY <1>1
<1>. HIDE DEF l
<1>3. [l EXCEPT ![i] = w] = l
  BY <1>2
<1>4. [p EXCEPT !.list[i] = w] = [p EXCEPT !.list = l]
  BY <1>3 DEF l
<1>5. [p EXCEPT !.list = l] = p
  BY <1>1 DEF l
<1>6. p.reserve + 0 = p.reserve
  BY <1>1
<1>. QED
  BY <1>1, <1>4, <1>5, <1>6

LEMMA MergeAgain ==
    ASSUME IsPool(pool), NEW ins, pool' \in merge_stake(ins), NEW r \in merge_stake(ins)'
    PROVE  FALSE
<1>. DEFINE i == ins.index
            w == Merged(pool.list[i])
            q == pool'
<1>1. /\ ins.seeds[1] = pool.list[i].begin
      /\ Changes(i, w, pool.reserve, q)
      /\ w.begin # pool.list[i].begin
  BY MergeDone
<1>2. q.list[i].begin = ins.seeds[1]
  BY DEF merge_stake, Named
<1>. HIDE DEF q, w, i
<1>3. q.list[i] = w
  BY <1>1, ChangesPool
<1>. QED
  BY <1>1, <1>2, <1>3

LEMMA RateAgain ==
    ASSUME IsPool(pool), pool' \in update_exchange_rate, NEW r \in update_exchange_rate'
    PROVE  FALSE
<1>1. pool'.rate = TRUE
  BY RateDone
<1>. QED
  BY <1>1 DEF update_exchange_rate

\* The validator that was found is found again.
LEMMA FoundAgain ==
    ASSUME IsPool(pool), NEW ins, NEW i \in Found(ins), NEW w, NEW r, Changes(i, w, r, pool')
    PROVE  /\ Found(ins)' = {i} /\ pool'.list[i] = w /\ i \in DOMAIN pool'.list /\ IsPool(pool')
           /\ IsEntry(w)
<1>. DEFINE q == pool'
<1>1. i \in DOMAIN pool.list /\ pool.list[i].pubkey = ins.pubkey
  BY DEF Found
<1>. HIDE DEF q
<1>2. /\ IsPool(q) /\ DOMAIN q.list = DOMAIN pool.list
      /\ q.list[i] = w /\ \A j \in DOMAIN pool.list : q.list[j].pubkey = pool.list[j].pubkey
  BY ChangesPool DEF q
<1>3. {j \in DOMAIN q.list : q.list[j].pubkey = ins.pubkey} = {i}
  BY <1>1, <1>2, FoundOnce
<1>4. IsEntry(w)
  BY <1>1, <1>2, PoolFacts
<1>. QED
  BY <1>1, <1>2, <1>3, <1>4 DEF Found, q

LEMMA CommissionAgain ==
    ASSUME IsPool(pool), NEW ins, pool' \in update_onchain_validator_perf(ins), pool' # pool,
           NEW r \in update_onchain_validator_perf(ins)'
    PROVE  FALSE
<1>1. PICK i \in Found(ins) :
         /\ Changes(i, RecordedCommission(pool.list[i]), pool.reserve, pool')
         /\ RecordedCommission(pool.list[i]).commission_is_new = TRUE
         /\ RecordedCommission(pool.list[i]).commission = RecordedCommission(pool.list[i]).vote
  BY CommissionDone
<1>. DEFINE w == RecordedCommission(pool.list[i])
<1>2. w.commission_is_new = TRUE /\ w.commission = w.vote
  BY <1>1
<1>. HIDE DEF w
<1>3. Found(ins)' = {i} /\ pool'.list[i] = w
  BY <1>1, FoundAgain DEF w
<1>4. ~w.commission_is_new \/ (w.vote = "high" /\ w.commission # "high")
  BY <1>3 DEF update_onchain_validator_perf
<1>. QED
  BY <1>2, <1>4

LEMMA RestAgain ==
    ASSUME IsPool(pool), NEW ins, pool' \in update_offchain_validator_perf(ins), pool' # pool,
           NEW r \in update_offchain_validator_perf(ins)'
    PROVE  FALSE
<1>1. PICK i \in Found(ins) :
         /\ Changes(i, RecordedRest(pool.list[i]), pool.reserve, pool')
         /\ RecordedRest(pool.list[i]).rest_is_new = TRUE
  BY RestDone
<1>. DEFINE w == RecordedRest(pool.list[i])
<1>2. w.rest_is_new = TRUE
  BY <1>1
<1>. HIDE DEF w
<1>3. Found(ins)' = {i} /\ pool'.list[i] = w
  BY <1>1, FoundAgain DEF w
<1>4. ~w.rest_is_new
  BY <1>3 DEF update_offchain_validator_perf
<1>. QED
  BY <1>2, <1>4

LEMMA ReactivateAgain ==
    ASSUME IsPool(pool), NEW ins, pool' \in reactivate_if_complies(ins), pool' # pool,
           NEW r \in reactivate_if_complies(ins)'
    PROVE  r = pool'
<1>1. PICK i \in Found(ins) : /\ Changes(i, Reactivated(pool.list[i]), pool.reserve, pool')
                              /\ pool' = With(i, Reactivated(pool.list[i]))
  BY ReactivateDone
<1>. DEFINE v == pool.list[i]
            w == Reactivated(v)
            q == pool'
<1>2. i \in DOMAIN pool.list /\ IsEntry(v)
  BY PoolFacts DEF Found
<1>3. w # v
  BY <1>1, <1>2, WithReplaces
<1>4. w.status = "AcceptingStakes"
  BY <1>2, <1>3, ReactivatedEntry
<1>5. Found(ins)' = {i} /\ q.list[i] = w /\ i \in DOMAIN q.list /\ IsPool(q) /\ IsEntry(w)
  BY <1>1, FoundAgain
<1>6. r = [q EXCEPT !.list[i] = Reactivated(q.list[i])]
  BY <1>5 DEF reactivate_if_complies, Reactivated, With, does_perform_well
<1>. HIDE DEF q, w
<1>7. Reactivated(q.list[i]) = q.list[i]
  BY <1>4, <1>5, StatusIsStable
<1>8. r = q
  BY <1>5, <1>6, <1>7, SameWith
<1>. QED
  BY <1>8 DEF q

LEMMA DeactivateAgain ==
    ASSUME IsPool(pool), NEW ins, pool' \in deactivate_if_violates(ins), pool' # pool,
           NEW r \in deactivate_if_violates(ins)'
    PROVE  r = pool'
<1>1. PICK i \in Found(ins) : /\ Changes(i, Deactivated(pool.list[i]), pool.reserve, pool')
                              /\ pool' = With(i, Deactivated(pool.list[i]))
  BY DeactivateDone
<1>. DEFINE v == pool.list[i]
            w == Deactivated(v)
            q == pool'
<1>2. i \in DOMAIN pool.list /\ IsEntry(v)
  BY PoolFacts DEF Found
<1>3. w # v
  BY <1>1, <1>2, WithReplaces
<1>4. w.status = "StakesSuspended"
  BY <1>2, <1>3, DeactivatedEntry
<1>5. Found(ins)' = {i} /\ q.list[i] = w /\ i \in DOMAIN q.list /\ IsPool(q) /\ IsEntry(w)
  BY <1>1, FoundAgain
<1>6. r = [q EXCEPT !.list[i] = Deactivated(q.list[i])]
  BY <1>5 DEF deactivate_if_violates, Deactivated, With, does_perform_well
<1>. HIDE DEF q, w
<1>7. Deactivated(q.list[i]) = q.list[i]
  BY <1>4, <1>5, StatusIsStable
<1>8. r = q
  BY <1>5, <1>6, <1>7, SameWith
<1>. QED
  BY <1>8 DEF q

LEMMA UnstakeAgain ==
    ASSUME IsPool(pool), NEW ins, ins.amount \in Nat, pool' \in unstake(ins), NEW r \in unstake(ins)'
    PROVE  FALSE
<1>. DEFINE i == ins.index
            w == Unstaked(pool.list[i], ins.amount)
            q == pool'
<1>1. /\ ins.seeds[2] = UnstakeEnd(pool.list[i])
      /\ Changes(i, w, pool.reserve, q)
      /\ UnstakeEnd(w) # UnstakeEnd(pool.list[i])
  BY UnstakeDone
<1>2. UnstakeEnd(q.list[i]) = ins.seeds[2]
  BY DEF unstake, Named, check_unstake_accounts, UnstakeEnd
<1>. HIDE DEF q, w, i
<1>3. q.list[i] = w
  BY <1>1, ChangesPool
<1>. QED
  BY <1>1, <1>2, <1>3

LEMMA StakeAgain ==
    ASSUME IsPool(pool), NEW ins, ins.amount \in Nat, Len(ins.seeds) # 2,
           pool' \in stake_deposit(ins), NEW r \in stake_deposit(ins)'
    PROVE  FALSE
<1>. DEFINE i == ins.index
            w == Staked(pool.list[i], Len(ins.seeds) = 2, ins.amount)
            q == pool'
            y == pool.reserve - ins.amount
<1>1. /\ ins.seeds[1] = End(pool.list[i])
      /\ Changes(i, w, y, q)
      /\ End(w) # End(pool.list[i])
  BY StakeDone
<1>2. End(q.list[i]) = ins.seeds[1]
  BY DEF stake_deposit, Named, End
<1>. HIDE DEF q, w, i, y
<1>3. q.list[i] = w
  BY <1>1, ChangesPool
<1>. QED
  BY <1>1, <1>2, <1>3

LEMMA RemoveAgain ==
    ASSUME IsPool(pool), NEW ins, pool' \in remove_validator(ins), NEW r \in remove_validator(ins)'
    PROVE  FALSE
<1>1. \A j \in DOMAIN pool'.list : pool'.list[j].pubkey # ins.pubkey
  BY RemoveDone
<1>2. ins.index \in DOMAIN pool'.list /\ pool'.list[ins.index].pubkey = ins.pubkey
  BY DEF remove_validator, Named, IsAt
<1>. QED
  BY <1>1, <1>2

LEMMA UpdateAgain ==
    ASSUME IsPool(pool), NEW ins, pool' \in update_stake_account_balance(ins),
           NEW r \in update_stake_account_balance(ins)'
    PROVE  r = pool'
<1>. DEFINE i == ins.index
            v == pool.list[i]
            w == Updated(v)
            q == pool'
            y == pool.reserve + Withdrawn(v)
<1>1. Changes(i, w, y, q)
  BY UpdateDone
<1>2. r = [[q EXCEPT !.list[i] = Updated(q.list[i])] EXCEPT !.reserve = @ + Withdrawn(q.list[i])]
  BY DEF update_stake_account_balance, Named, With, Updated, Withdrawn
<1>3. IsPool(q) /\ q.list[i] = w /\ DOMAIN q.list = DOMAIN pool.list /\ i \in DOMAIN pool.list
  <2>. HIDE DEF q, w, i, y
  <2>. QED
    BY <1>1, ChangesPool
<1>4. IsEntry(v)
  BY <1>3, PoolFacts
<1>5. Updated(w) = w /\ Withdrawn(w) = 0
  BY <1>4, UpdatedEntry DEF Withdrawn
<1>. HIDE DEF q, w, i
<1>6. [q EXCEPT !.list[i] = Updated(q.list[i])] = q
  BY <1>3, <1>5, SameWith
<1>7. [q EXCEPT !.reserve = @ + 0] = q
  BY <1>3, SameWith
<1>8. r = q
  BY <1>2, <1>3, <1>5, <1>6, <1>7
<1>. QED
  BY <1>8 DEF q

\* When a pool was changed by an instruction, the same instruction leaves it as it is.
LEMMA RepetitionIsVain ==
    ASSUME IsPool(pool), NEW ins \in Instructions, NEW by, NEW at, pool' \in Executed(ins, by, at),
           pool' # pool, ~(ins.kind = "StakeDeposit" /\ Len(ins.seeds) = 2),
           NEW k, NEW i, NEW r \in Executed(ins, k, i)'
    PROVE  r = pool'
<1>0. ins.kind \in Kinds /\ (ins.kind # "UpdateExchangeRate" => ins.amount \in Nat)
  BY InstructionFacts
<1>1. CASE ins.kind = "MergeStake"
  <2>1. pool' \in merge_stake(ins) /\ r \in merge_stake(ins)'
    BY <1>1 DEF Executed
  <2>. QED
    BY <2>1, MergeAgain
<1>2. CASE ins.kind = "UpdateExchangeRate"
  <2>1. pool' \in update_exchange_rate /\ r \in update_exchange_rate'
    BY <1>2 DEF Executed
  <2>. QED
    BY <2>1, RateAgain
<1>3. CASE ins.kind = "UpdateOnchainValidatorPerf"
  <2>1. pool' \in update_onchain_validator_perf(ins) /\ r \in update_onchain_validator_perf(ins)'
    BY <1>3 DEF Executed
  <2>. QED
    BY <2>1, CommissionAgain
<1>4. CASE ins.kind = "UpdateOffchainValidatorPerf"
  <2>1. pool' \in update_offchain_validator_perf(ins) /\ r \in update_offchain_validator_perf(ins)'
    BY <1>4 DEF Executed
  <2>. QED
    BY <2>1, RestAgain
<1>5. CASE ins.kind = "ReactivateIfComplies"
  <2>1. pool' \in reactivate_if_complies(ins) /\ r \in reactivate_if_complies(ins)'
    BY <1>5 DEF Executed
  <2>. QED
    BY <2>1, ReactivateAgain
<1>6. CASE ins.kind = "DeactivateIfViolates"
  <2>1. pool' \in deactivate_if_violates(ins) /\ r \in deactivate_if_violates(ins)'
    BY <1>6 DEF Executed
  <2>. QED
    BY <2>1, DeactivateAgain
<1>7. CASE ins.kind = "Unstake"
  <2>1. pool' \in unstake(ins) /\ r \in unstake(ins)' /\ ins.amount \in Nat
    BY <1>0, <1>7 DEF Executed
  <2>. QED
    BY <2>1, UnstakeAgain
<1>8. CASE ins.kind = "UpdateStakeAccountBalance"
  <2>1. pool' \in update_stake_account_balance(ins) /\ r \in update_stake_account_balance(ins)'
    BY <1>8 DEF Executed
  <2>. QED
    BY <2>1, UpdateAgain
<1>9. CASE ins.kind = "StakeDeposit"
  <2>1. pool' \in stake_deposit(ins) /\ r \in stake_deposit(ins)' /\ ins.amount \in Nat
    BY <1>0, <1>9 DEF Executed
  <2>. QED
    BY <1>9, <2>1, StakeAgain
<1>10. CASE ins.kind = "RemoveValidator"
  <2>1. pool' \in remove_validator(ins) /\ r \in remove_validator(ins)'
    BY <1>10 DEF Executed
  <2>. QED
    BY <2>1, RemoveAgain
<1>. QED
  BY <1>0, <1>1, <1>2, <1>3, <1>4, <1>5, <1>6, <1>7, <1>8, <1>9, <1>10 DEF Kinds

LEMMA RaceStep ==
    ASSUME DaemonInv, Next, NEW p \in pending, NEW q \in pending, p.ins = q.ins,
           pending' = pending \ {p}, slot' = slot, pool' # pool, ~IsStillLeast(q.ins)'
    PROVE  Executed(q.ins, q.by, q.at)' \subseteq {pool'}
<1>0. /\ slot \in 0 .. (EpochLength - 1) /\ IsPool(pool) /\ p.ins \in Instructions
  BY DEF DaemonInv, IsUnderWay, Transactions
<1>1. ~Tick
  BY <1>0, NextSlot DEF Tick
<1>2. ~Input
  BY DEF Input
<1>3. \A m \in Maintainers :
        ~(\/ run_maintenance_iteration(m) \/ (\E time \in 0 .. MaxBackoff : ErrSnapshot(m, time))
          \/ ErrMaintenance(m) \/ FailToConfirm(m) \/ Crash(m) \/ Restart(m))
  BY DEF run_maintenance_iteration, ErrSnapshot, ErrMaintenance, FailToConfirm, Crash, Restart
<1>4. PICK x \in pending : Execute(x)
  BY <1>1, <1>2, <1>3 DEF Next, ChangeMaintainers, Deposit, Reward, ChangeVoteAccount, ChangeStatus
<1>5. x = p
  BY <1>4 DEF Execute
<1>6. pool' \in Executed(p.ins, p.by, p.at)
  BY <1>4, <1>5 DEF Execute
<1>. DEFINE ins == p.ins
            k == q.by
            i == q.at
<1>7. ASSUME NEW r \in Executed(ins, k, i)' PROVE r = pool'
  <2>1. pool' \in Executed(ins, p.by, p.at) /\ ins \in Instructions
    BY <1>0, <1>6
  <2>2. ~IsStillLeast(ins)'
    OBVIOUS
  <2>. HIDE DEF ins, k, i
  <2>3. ~(ins.kind = "StakeDeposit" /\ Len(ins.seeds) = 2)
    <3>. SUFFICES ASSUME ins.kind = "StakeDeposit", Len(ins.seeds) = 2 PROVE FALSE
      OBVIOUS
    <3>1. r \in stake_deposit(ins)'
      BY <1>7 DEF Executed
    <3>. QED
      BY <2>2, <3>1 DEF stake_deposit, IsStillLeast
  <2>. QED
    BY <1>0, <1>7, <2>1, <2>3, RepetitionIsVain
<1>8. Executed(q.ins, q.by, q.at)' = Executed(ins, k, i)'
  OBVIOUS
<1>. QED
  BY <1>7, <1>8

(***************************************************************************)
(* OnlyOneSucceeds: of two transactions with the same instruction only one *)
(* succeeds, or the second is without effect; except for a StakeDeposit    *)
(* that merges into the account of this epoch, when its validator has the  *)
(* least stake also after the first (process_stake_deposit).               *)
(***************************************************************************)
THEOREM OnlyOneKeepsSucceeding == Spec => OnlyOneSucceeds
<1>. DEFINE A == \A p, q \in pending :
                   (/\ p # q /\ p.ins = q.ins
                    /\ pending' = pending \ {p} /\ slot' = slot
                    /\ pool' # pool)
                   => \/ Executed(q.ins, q.by, q.at)' \subseteq {pool'}
                      \/ IsStillLeast(q.ins)'
<1>1. DaemonInv /\ [Next]_vars => [A]_vars
  <2>. SUFFICES ASSUME DaemonInv, Next PROVE A
    OBVIOUS
  <2>. QED
    BY RaceStep
<1>. QED
  BY <1>1, DaemonInvariant, PTL DEF Spec, OnlyOneSucceeds

-----------------------------------------------------------------------------
(* What is due makes progress *)

\* When all vote accounts are open the performances are those of the validators.
LEMMA AllAreOpen ==
    ASSUME IsPool(pool), \A i \in DOMAIN pool.list : IsOpen(pool.list[i]), NEW i \in DOMAIN pool.list
    PROVE  ~IsBeyond(i) /\ Perfs[i] = pool.list[i]
<1>. DEFINE n == Len(pool.list)
            S == 1..n
<1>1. n \in Nat /\ DOMAIN pool.list = 1..n
  BY PoolFacts
<1>2. Where(IsOpen) = S
  BY <1>1 DEF Where
<1>. HIDE DEF n
<1>3. Cardinality(S) = n /\ S \in SUBSET (1..n)
  BY <1>1, FS_Interval
<1>. DEFINE j == Nth(S, i)
            T == {k \in S : k <= j}
<1>4. j \in S /\ Cardinality(T) = i
  <2>. HIDE DEF S
  <2>1. i \in 1..Cardinality(S)
    BY <1>1, <1>3
  <2>. QED
    BY <1>1, <1>3, <2>1, NthOfPositions
<1>5. j \in Nat /\ j >= 1 /\ j <= n
  BY <1>1, <1>4
<1>. HIDE DEF j
<1>6. T = 1..j
  BY <1>1, <1>5
<1>. HIDE DEF T
<1>7. Cardinality(1..j) = j
  BY <1>5, FS_Interval
<1>8. j = i
  BY <1>4, <1>6, <1>7
<1>. HIDE DEF S
<1>9. Perfs = [k \in 1..Cardinality(S) |-> pool.list[Nth(S, k)]]
  BY <1>2 DEF Perfs, ElementsAt
<1>10. Perfs = [k \in 1..n |-> pool.list[Nth(S, k)]]
  BY <1>3, <1>9
<1>11. Len(Perfs) = n /\ Perfs[i] = pool.list[Nth(S, i)]
  BY <1>1, <1>10
<1>12. Perfs[i] = pool.list[i]
  BY <1>8, <1>11 DEF j
<1>13. i \in 1..n
  BY <1>1
<1>. QED
  BY <1>1, <1>11, <1>12, <1>13 DEF IsBeyond

IsFor(ins, kind, i, seeds, amount) == ins = Instruction(kind, i, seeds, amount)

Finds(ins, kind, i, seeds, amount) ==
    /\ ins.kind = kind /\ ins.index = i /\ ins.seeds = seeds /\ ins.amount = amount
    /\ Named(ins) = {i} /\ Found(ins) = {i}
    /\ ins # Panic
    /\ IsEntry(pool.list[i]) /\ pool.reserve \in Nat

\* An instruction of the maintainer finds the validator that it is for.
LEMMA DueFacts ==
    ASSUME IsPool(pool), NEW kind \in Kinds, NEW i \in DOMAIN pool.list, NEW seeds, NEW amount,
           NEW ins, IsFor(ins, kind, i, seeds, amount)
    PROVE  Finds(ins, kind, i, seeds, amount)
<1>1. /\ ins.kind = kind /\ ins.index = i /\ ins.seeds = seeds /\ ins.amount = amount
      /\ ins.pubkey = pool.list[i].pubkey
  BY DEF IsFor, Instruction
<1>2. Named(ins) = {i}
  BY <1>1 DEF Named, IsAt
<1>3. Found(ins) = {i}
  BY <1>1, FoundOnce DEF Found
<1>4. ins # Panic
  <2>1. Panic.kind = "Panic" /\ "Panic" \notin Kinds
    BY DEF Panic, Kinds
  <2>. QED
    BY <1>1, <2>1
<1>. QED
  BY <1>1, <1>2, <1>3, <1>4, PoolFacts DEF Finds

\* The maintainer that stays in the list is found in it.
Claimed == Position(maintainers, Reliable)

\* An instruction is executed and changes the pool.
MakesProgress(ins) == ins # Panic /\ \E q \in Executed(ins, Reliable, Claimed) : q # pool

\* Something about a validator differs.
LEMMA Differs ==
    ASSUME IsPool(pool), NEW i, NEW w, NEW r, NEW q, Changes(i, w, r, q),
           w # pool.list[i] \/ r # pool.reserve
    PROVE  q # pool
BY ChangesPool

LEMMA MergeProgress ==
    ASSUME IsPool(pool), NEW ins \in try_merge_on_all_stakes PROVE MakesProgress(ins)
<1>1. PICK i \in DOMAIN pool.list :
         /\ CanMerge(pool.list[i])
         /\ ins = Instruction("MergeStake", i, <<pool.list[i].begin, pool.list[i].begin + 1>>, 0)
  BY MergeIsDue
<1>. DEFINE v == pool.list[i]
            b == v.begin
            s == <<b, b + 1>>
            q == With(i, Merged(v))
<1>2. ins = Instruction("MergeStake", i, s, 0) /\ s[1] = b
  BY <1>1
<1>. HIDE DEF s, b
<1>3. ins.kind = "MergeStake" /\ ins.index = i /\ ins.seeds = s /\ Named(ins) = {i} /\ ins # Panic
  <2>. DEFINE kind == "MergeStake"
              seeds == s
              zero == 0
  <2>1. IsFor(ins, kind, i, seeds, zero) /\ kind \in Kinds
    BY <1>2 DEF IsFor, Kinds
  <2>. HIDE DEF kind, seeds, zero
  <2>2. Finds(ins, kind, i, seeds, zero)
    BY <2>1, DueFacts
  <2>. QED
    BY <2>2 DEF Finds, kind, seeds
<1>4. q \in merge_stake(ins)
  BY <1>1, <1>2, <1>3 DEF merge_stake, Merged, b
<1>. HIDE DEF q
<1>5. Changes(i, Merged(v), pool.reserve, q) /\ Merged(v).begin # v.begin
  BY <1>3, <1>4, MergeDone
<1>6. q # pool
  BY <1>5, Differs
<1>7. q \in Executed(ins, Reliable, Claimed)
  BY <1>3, <1>4 DEF Executed
<1>. QED
  BY <1>3, <1>6, <1>7 DEF MakesProgress

LEMMA RateProgress ==
    ASSUME IsPool(pool), NEW ins \in try_update_exchange_rate PROVE MakesProgress(ins)
<1>1. ins = UpdateRate /\ ~pool.rate
  BY DEF try_update_exchange_rate
<1>2. ins.kind = "UpdateExchangeRate" /\ ins # Panic
  <2>1. UpdateRate.kind = "UpdateExchangeRate" /\ Panic.kind = "Panic"
    BY DEF UpdateRate, Panic
  <2>. QED
    BY <1>1, <2>1
<1>. DEFINE q == [pool EXCEPT !.rate = TRUE]
<1>3. q \in update_exchange_rate
  BY <1>1 DEF update_exchange_rate
<1>. HIDE DEF q
<1>4. q.rate = TRUE
  BY <1>3, RateDone
<1>5. q # pool
  BY <1>1, <1>4
<1>6. q \in Executed(ins, Reliable, Claimed)
  BY <1>2, <1>3 DEF Executed
<1>. QED
  BY <1>2, <1>5, <1>6 DEF MakesProgress

LEMMA CommissionProgress ==
    ASSUME IsPool(pool), \A i \in DOMAIN pool.list : IsOpen(pool.list[i]),
           NEW ins \in do_update_onchain_validator_perfs
    PROVE  MakesProgress(ins)
<1>1. PICK i \in DOMAIN pool.list :
         /\ IsBeyond(i) \/ IsOutdated(i)
         /\ ins = IF IsBeyond(i) THEN Panic ELSE Instruction("UpdateOnchainValidatorPerf", i, <<>>, 0)
  BY CommissionIsDue
<1>. DEFINE v == pool.list[i]
            w == RecordedCommission(v)
            q == With(i, w)
<1>2. ~IsBeyond(i) /\ Perfs[i] = v
  BY AllAreOpen
<1>3. ins = Instruction("UpdateOnchainValidatorPerf", i, <<>>, 0) /\ IsOutdated(i)
  BY <1>1, <1>2
<1>4. /\ ins.kind = "UpdateOnchainValidatorPerf" /\ Found(ins) = {i} /\ ins # Panic
      /\ IsEntry(v) /\ IsOpen(v)
  <2>. DEFINE kind == "UpdateOnchainValidatorPerf"
              seeds == <<>>
              zero == 0
  <2>1. IsFor(ins, kind, i, seeds, zero) /\ kind \in Kinds
    BY <1>3 DEF IsFor, Kinds
  <2>. HIDE DEF kind, seeds, zero
  <2>2. Finds(ins, kind, i, seeds, zero)
    BY <2>1, DueFacts
  <2>. QED
    BY <2>2 DEF Finds, kind, seeds
<1>5. \/ v.commission = "none" \/ ~v.commission_is_new
      \/ v.vote = "high" /\ v.commission = "low"
  BY <1>2, <1>3 DEF IsOutdated
<1>6. ~v.commission_is_new \/ (v.vote = "high" /\ v.commission = "low")
  <2>. HIDE DEF v
  <2>. QED
    BY <1>4, <1>5, EntryFacts
<1>7. q \in update_onchain_validator_perf(ins)
  BY <1>4, <1>6 DEF update_onchain_validator_perf, RecordedCommission
<1>8. w # v
  <2>. HIDE DEF v
  <2>1. w.commission_is_new = TRUE /\ w.commission = v.vote
    BY <1>4, RecordedCommissionEntry
  <2>. HIDE DEF w
  <2>. QED
    BY <1>6, <2>1
<1>9. q # pool
  <2>. HIDE DEF q
  <2>1. Found(ins) # {}
    BY <1>4
  <2>2. Changes(i, w, pool.reserve, q)
    BY <1>4, <1>7, <2>1, CommissionDone
  <2>. HIDE DEF w
  <2>. QED
    BY <1>8, <2>2, Differs
<1>10. q \in Executed(ins, Reliable, Claimed)
  BY <1>4, <1>7 DEF Executed
<1>. QED
  BY <1>4, <1>9, <1>10 DEF MakesProgress

LEMMA RestProgress ==
    ASSUME IsPool(pool), \A i \in DOMAIN pool.list : IsOpen(pool.list[i]),
           NEW ins \in do_update_offchain_validator_perfs
    PROVE  MakesProgress(ins)
<1>1. PICK i \in DOMAIN pool.list :
         /\ IsBeyond(i) \/ (~Perfs[i].rest_is_new /\ IsOpen(pool.list[i]))
         /\ ins = IF IsBeyond(i) THEN Panic ELSE Instruction("UpdateOffchainValidatorPerf", i, <<>>, 0)
  BY RestIsDue
<1>. DEFINE v == pool.list[i]
            w == RecordedRest(v)
            q == With(i, w)
<1>2. ~IsBeyond(i) /\ Perfs[i] = v
  BY AllAreOpen
<1>3. ins = Instruction("UpdateOffchainValidatorPerf", i, <<>>, 0) /\ ~v.rest_is_new
  BY <1>1, <1>2
<1>4. /\ ins.kind = "UpdateOffchainValidatorPerf" /\ Found(ins) = {i} /\ ins # Panic
      /\ IsEntry(v) /\ IsOpen(v)
  <2>. DEFINE kind == "UpdateOffchainValidatorPerf"
              seeds == <<>>
              zero == 0
  <2>1. IsFor(ins, kind, i, seeds, zero) /\ kind \in Kinds
    BY <1>3 DEF IsFor, Kinds
  <2>. HIDE DEF kind, seeds, zero
  <2>2. Finds(ins, kind, i, seeds, zero)
    BY <2>1, DueFacts
  <2>. QED
    BY <2>2 DEF Finds, kind, seeds
<1>5. q \in update_offchain_validator_perf(ins)
  BY <1>3, <1>4 DEF update_offchain_validator_perf, RecordedRest
<1>6. w # v
  <2>. HIDE DEF v
  <2>1. w.rest_is_new = TRUE
    BY <1>4, RecordedRestEntry
  <2>. HIDE DEF w
  <2>. QED
    BY <1>3, <2>1
<1>7. q # pool
  <2>. HIDE DEF q
  <2>1. Found(ins) # {}
    BY <1>4
  <2>2. Changes(i, w, pool.reserve, q)
    BY <1>4, <1>5, <2>1, RestDone
  <2>. HIDE DEF w
  <2>. QED
    BY <1>6, <2>2, Differs
<1>8. q \in Executed(ins, Reliable, Claimed)
  BY <1>4, <1>5 DEF Executed
<1>. QED
  BY <1>4, <1>7, <1>8 DEF MakesProgress

LEMMA ReactivateProgress ==
    ASSUME IsPool(pool), \A i \in DOMAIN pool.list : IsOpen(pool.list[i]),
           NEW ins \in try_reactivate_if_complies
    PROVE  MakesProgress(ins)
<1>1. PICK i \in DOMAIN pool.list :
         /\ pool.list[i].status = "StakesSuspended"
         /\ IsBeyond(i) \/ does_perform_well(pool.list[i].vote, Perfs[i].commission)
         /\ ins = IF IsBeyond(i) THEN Panic ELSE Instruction("ReactivateIfComplies", i, <<>>, 0)
  BY ReactivateIsDue
<1>. DEFINE v == pool.list[i]
            w == Reactivated(v)
            q == With(i, w)
<1>2. ~IsBeyond(i) /\ Perfs[i] = v
  BY AllAreOpen
<1>3. ins = Instruction("ReactivateIfComplies", i, <<>>, 0) /\ v.status = "StakesSuspended" /\ does_perform_well(v.vote, v.commission)
  BY <1>1, <1>2
<1>4. ins.kind = "ReactivateIfComplies" /\ Found(ins) = {i} /\ ins # Panic /\ IsEntry(v)
  <2>. DEFINE kind == "ReactivateIfComplies"
              seeds == <<>>
              x == 0
  <2>1. IsFor(ins, kind, i, seeds, x) /\ kind \in Kinds
    BY <1>3 DEF IsFor, Kinds
  <2>. HIDE DEF kind, seeds, x
  <2>2. Finds(ins, kind, i, seeds, x)
    BY <2>1, DueFacts
  <2>. QED
    BY <2>2 DEF Finds, kind, seeds, x
<1>5. q \in reactivate_if_complies(ins)
  BY <1>4 DEF reactivate_if_complies, Reactivated
<1>6. w # v
  <2>. HIDE DEF v
  <2>1. w.status = "AcceptingStakes"
    BY <1>3, <1>4, ReactivatedEntry
  <2>. HIDE DEF w
  <2>. QED
    BY <1>3, <2>1
<1>7. q # pool
  <2>. HIDE DEF q
  <2>1. Changes(i, w, pool.reserve, q)
    BY <1>4, <1>5, ReactivateDone
  <2>. HIDE DEF w
  <2>. QED
    BY <1>6, <2>1, Differs
<1>8. q \in Executed(ins, Reliable, Claimed)
  BY <1>4, <1>5 DEF Executed
<1>. QED
  BY <1>4, <1>7, <1>8 DEF MakesProgress

LEMMA DeactivateProgress ==
    ASSUME IsPool(pool), \A i \in DOMAIN pool.list : IsOpen(pool.list[i]),
           NEW ins \in try_deactivate_if_violates
    PROVE  MakesProgress(ins)
<1>1. PICK i \in DOMAIN pool.list :
         /\ pool.list[i].status = "AcceptingStakes"
         /\ ~IsOpen(pool.list[i]) \/ IsBeyond(i) \/ ~does_perform_well(pool.list[i].vote, Perfs[i].commission)
         /\ ins = IF IsOpen(pool.list[i]) /\ IsBeyond(i) THEN Panic ELSE Instruction("DeactivateIfViolates", i, <<>>, 0)
  BY DeactivateIsDue
<1>. DEFINE v == pool.list[i]
            w == Deactivated(v)
            q == With(i, w)
<1>2. ~IsBeyond(i) /\ Perfs[i] = v
  BY AllAreOpen
<1>3. ins = Instruction("DeactivateIfViolates", i, <<>>, 0) /\ v.status = "AcceptingStakes" /\ ~does_perform_well(v.vote, v.commission)
  BY <1>1, <1>2
<1>4. ins.kind = "DeactivateIfViolates" /\ Found(ins) = {i} /\ ins # Panic /\ IsEntry(v)
  <2>. DEFINE kind == "DeactivateIfViolates"
              seeds == <<>>
              x == 0
  <2>1. IsFor(ins, kind, i, seeds, x) /\ kind \in Kinds
    BY <1>3 DEF IsFor, Kinds
  <2>. HIDE DEF kind, seeds, x
  <2>2. Finds(ins, kind, i, seeds, x)
    BY <2>1, DueFacts
  <2>. QED
    BY <2>2 DEF Finds, kind, seeds, x
<1>5. q \in deactivate_if_violates(ins)
  BY <1>4 DEF deactivate_if_violates, Deactivated
<1>6. w # v
  <2>. HIDE DEF v
  <2>1. w.status = "StakesSuspended"
    BY <1>3, <1>4, DeactivatedEntry
  <2>. HIDE DEF w
  <2>. QED
    BY <1>3, <2>1
<1>7. q # pool
  <2>. HIDE DEF q
  <2>1. Changes(i, w, pool.reserve, q)
    BY <1>4, <1>5, DeactivateDone
  <2>. HIDE DEF w
  <2>. QED
    BY <1>6, <2>1, Differs
<1>8. q \in Executed(ins, Reliable, Claimed)
  BY <1>4, <1>5 DEF Executed
<1>. QED
  BY <1>4, <1>7, <1>8 DEF MakesProgress

\* The reliable maintainer may sign, with the position that it has.
LEMMA ClaimIsValid ==
    ASSUME Reliable \in Keys(maintainers)
    PROVE  check_maintainer(Reliable, Claimed)
BY PositionOfKey DEF check_maintainer, IsAt, Claimed

\* An Unstake that is not refused.
LEMMA UnstakeProgress ==
    ASSUME IsPool(pool), Reliable \in Keys(maintainers), NEW i \in DOMAIN pool.list, NEW amount \in Nat,
           NEW ins,
           ins = Instruction("Unstake", i, <<pool.list[i].begin, UnstakeEnd(pool.list[i])>>, amount),
           pool.list[i].stakes # <<>>, Len(pool.list[i].unstakes) < MAXIMUM_UNSTAKE_ACCOUNTS,
           amount <= pool.list[i].stakes[1], LeavesEnough(pool.list[i], amount),
           Sum(pool.list[i].unstakes) + amount <= pool.list[i].tracked
    PROVE  MakesProgress(ins)
<1>. DEFINE v == pool.list[i]
            w == Unstaked(v, amount)
            q == With(i, w)
            b == v.begin
            e == UnstakeEnd(v)
            s == <<b, e>>
<1>1. ins = Instruction("Unstake", i, s, amount) /\ s[1] = b /\ s[2] = e
  OBVIOUS
<1>. HIDE DEF s, b, e
<1>2. /\ ins.kind = "Unstake" /\ ins.index = i /\ ins.seeds = s /\ ins.amount = amount
      /\ Named(ins) = {i} /\ ins # Panic /\ IsEntry(v)
  <2>. DEFINE kind == "Unstake"
              seeds == s
              x == amount
  <2>1. IsFor(ins, kind, i, seeds, x) /\ kind \in Kinds
    BY <1>1 DEF IsFor, Kinds
  <2>. HIDE DEF kind, seeds, x
  <2>2. Finds(ins, kind, i, seeds, x)
    BY <2>1, DueFacts
  <2>. QED
    BY <2>2 DEF Finds, kind, seeds, x
<1>3. check_unstake_accounts(v, ins.seeds)
  BY <1>1, <1>2 DEF check_unstake_accounts, b, e
<1>4. q \in unstake(ins)
  BY <1>2, <1>3, ZenonT(60) DEF unstake, Unstaked
<1>5. w # v
  <2>. HIDE DEF v
  <2>1. w.unstakes # v.unstakes
    BY <1>2, UnstakedEntry DEF v
  <2>. HIDE DEF w
  <2>. QED
    BY <2>1
<1>6. q # pool
  <2>. HIDE DEF q
  <2>1. Changes(i, w, pool.reserve, q)
    BY <1>2, <1>4, UnstakeDone
  <2>. HIDE DEF w
  <2>. QED
    BY <1>5, <2>1, Differs
<1>7. q \in Executed(ins, Reliable, Claimed)
  BY <1>2, <1>4, ClaimIsValid DEF Executed
<1>. QED
  BY <1>2, <1>6, <1>7 DEF MakesProgress

LEMMA InactiveProgress ==
    ASSUME IsPool(pool), Reliable \in Keys(maintainers), NEW ins \in try_unstake_from_inactive_validator
    PROVE  ins # Panic /\ (Refused(ins) \/ MakesProgress(ins))
<1>1. PICK i \in DOMAIN pool.list :
         /\ ~IsActive(pool.list[i])
         /\ Len(pool.list[i].unstakes) < MAXIMUM_UNSTAKE_ACCOUNTS
         /\ pool.list[i].stakes # <<>>
         /\ ins = Instruction("Unstake", i, <<pool.list[i].begin, UnstakeEnd(pool.list[i])>>,
                              pool.list[i].stakes[1])
  BY InactiveIsDue
<1>. DEFINE v == pool.list[i]
            a == v.stakes[1]
<1>2. IsEntry(v)
  BY PoolFacts
<1>3. /\ v.stakes \in Seq(Nat) /\ v.unstakes \in Seq(Nat) /\ v.tracked \in Nat
      /\ v.stakes \in Seq(Sufficient)
  <2>. HIDE DEF v
  <2>. QED
    BY <1>2, EntryFacts
<1>4. /\ a \in Nat /\ Sum(v.stakes) \in Nat /\ Sum(v.unstakes) \in Nat /\ a <= Sum(v.stakes)
  <2>. HIDE DEF v
  <2>. QED
    BY <1>1, <1>3, SumIsNatural, SufficientFacts DEF v
<1>5. ins.kind = "Unstake" /\ ins.index = i /\ ins # Panic
  <2>. DEFINE kind == "Unstake"
              seeds == <<pool.list[i].begin, UnstakeEnd(pool.list[i])>>
              x == a
  <2>1. IsFor(ins, kind, i, seeds, x) /\ kind \in Kinds
    BY <1>1 DEF IsFor, Kinds
  <2>. HIDE DEF kind, seeds, x
  <2>2. Finds(ins, kind, i, seeds, x)
    BY <2>1, DueFacts
  <2>. QED
    BY <2>2 DEF Finds, kind, seeds, x
<1>6. CASE Unrecorded(v) > 0
  BY <1>1, <1>5, <1>6 DEF Refused
<1>7. CASE ~(Unrecorded(v) > 0)
  <2>1. Sum(v.unstakes) + a <= v.tracked
    <3>. HIDE DEF v, a
    <3>. QED
      BY <1>3, <1>4, <1>7 DEF Unrecorded
  <2>2. LeavesEnough(v, a) /\ a <= v.stakes[1]
    BY <1>1, <1>4 DEF LeavesEnough
  <2>3. MakesProgress(ins)
    BY <1>1, <1>4, <2>1, <2>2, UnstakeProgress
  <2>. QED
    BY <1>5, <2>3
<1>. QED
  BY <1>6, <1>7

LEMMA UpdateProgress ==
    ASSUME IsPool(pool), try_update_exchange_rate = {}, NEW ins \in try_update_stake_account_balance
    PROVE  MakesProgress(ins)
<1>1. PICK i \in DOMAIN pool.list :
         /\ \/ Sum(pool.list[i].stakes) > pool.list[i].tracked - Sum(pool.list[i].unstakes)
            \/ pool.list[i].cooled > 0
         /\ ins = Instruction("UpdateStakeAccountBalance", i, AllSeeds(pool.list[i]), 0)
  BY UpdateIsDue
<1>. DEFINE v == pool.list[i]
            w == Updated(v)
            r == pool.reserve + Withdrawn(v)
            q == [With(i, w) EXCEPT !.reserve = @ + Withdrawn(v)]
<1>2. pool.rate
  BY DEF try_update_exchange_rate
<1>3. /\ ins.kind = "UpdateStakeAccountBalance" /\ ins.index = i /\ ins.seeds = AllSeeds(v)
      /\ Named(ins) = {i} /\ ins # Panic /\ IsEntry(v)
  <2>. DEFINE kind == "UpdateStakeAccountBalance"
              seeds == AllSeeds(v)
              x == 0
  <2>1. IsFor(ins, kind, i, seeds, x) /\ kind \in Kinds
    BY <1>1 DEF IsFor, Kinds
  <2>. HIDE DEF kind, seeds, x
  <2>2. Finds(ins, kind, i, seeds, x)
    BY <2>1, DueFacts
  <2>. QED
    BY <2>2 DEF Finds, kind, seeds, x
<1>4. q \in update_stake_account_balance(ins)
  BY <1>2, <1>3 DEF update_stake_account_balance, Updated, Withdrawn
<1>5. w # v
  <2>1. Sum(v.stakes) > v.tracked - Sum(v.unstakes) \/ v.cooled > 0
    BY <1>1
  <2>. HIDE DEF v
  <2>2. /\ v.stakes \in Seq(Nat) /\ v.unstakes \in Seq(Nat) /\ v.tracked \in Nat /\ v.cooled \in Nat
        /\ v.cooled <= Len(v.unstakes)
    BY <1>3, EntryFacts
  <2>3. /\ w.cooled = 0
        /\ w.tracked = Sum(v.stakes) + Sum(SubSeq(v.unstakes, v.cooled + 1, Len(v.unstakes)))
    BY <1>3, UpdatedEntry
  <2>. HIDE DEF w
  <2>4. CASE v.cooled > 0
    BY <2>2, <2>3, <2>4
  <2>5. CASE v.cooled = 0
    <3>. DEFINE u == v.unstakes
    <3>1. u \in Seq(Nat) /\ Len(u) \in Nat
      BY <2>2
    <3>2. SubSeq(u, 1, Len(u)) = u
      <4>1. 0 \in 0..Len(u)
        BY <3>1
      <4>. HIDE DEF u
      <4>. QED
        BY <3>1, <4>1, RestOfUnstakes
    <3>3. w.tracked = Sum(v.stakes) + Sum(u)
      <4>1. v.cooled + 1 = 1
        BY <2>5
      <4>. QED
        BY <2>3, <3>2, <4>1
    <3>4. Sum(v.stakes) \in Nat /\ Sum(u) \in Nat
      BY <2>2, SumIsNatural
    <3>5. Sum(v.stakes) > v.tracked - Sum(u)
      BY <2>1, <2>5
    <3>6. w.tracked # v.tracked
      BY <2>2, <3>3, <3>4, <3>5
    <3>. QED
      BY <3>6
  <2>. QED
    BY <2>2, <2>4, <2>5
<1>6. q # pool
  <2>. HIDE DEF q
  <2>1. Changes(i, w, r, q)
    BY <1>3, <1>4, UpdateDone
  <2>. HIDE DEF w, r
  <2>. QED
    BY <1>5, <2>1, Differs
<1>7. q \in Executed(ins, Reliable, Claimed)
  BY <1>3, <1>4 DEF Executed
<1>. QED
  BY <1>3, <1>6, <1>7 DEF MakesProgress

Deposited(i, seeds, amount) ==
    [With(i, Staked(pool.list[i], Len(seeds) = 2, amount)) EXCEPT !.reserve = @ - amount]

LEMMA DepositIsDone ==
    ASSUME NEW ins, NEW i \in Named(ins), check_can_stake_amount(ins.amount), IsActive(pool.list[i]),
           HasLeastStake(i), ins.seeds[1] = End(pool.list[i]), Len(ins.seeds) = 2 => pool.list[i].fresh
    PROVE  Deposited(i, ins.seeds, ins.amount) \in stake_deposit(ins)
BY DEF stake_deposit, Staked, Deposited

LEMMA StakeProgress ==
    ASSUME IsPool(pool), Reliable \in Keys(maintainers), NEW ins \in try_stake_deposit
    PROVE  MakesProgress(ins)
<1>1. PICK i \in DOMAIN pool.list, amount \in Nat :
         /\ IsActive(pool.list[i]) /\ HasLeastStake(i)
         /\ check_can_stake_amount(amount)
         /\ ins = Instruction("StakeDeposit", i, DepositSeeds(pool.list[i]), amount)
  BY StakeIsDue
<1>. DEFINE v == pool.list[i]
            s == DepositSeeds(v)
            w == Staked(v, Len(s) = 2, amount)
            r == pool.reserve - amount
            q == [With(i, w) EXCEPT !.reserve = @ - amount]
<1>2. /\ ins.kind = "StakeDeposit" /\ ins.index = i /\ ins.seeds = s /\ ins.amount = amount
      /\ Named(ins) = {i} /\ ins # Panic /\ IsEntry(v) /\ pool.reserve \in Nat
  <2>. DEFINE kind == "StakeDeposit"
              seeds == DepositSeeds(pool.list[i])
              x == amount
  <2>1. IsFor(ins, kind, i, seeds, x) /\ kind \in Kinds
    BY <1>1 DEF IsFor, Kinds
  <2>. HIDE DEF kind, seeds, x
  <2>2. Finds(ins, kind, i, seeds, x)
    BY <2>1, DueFacts
  <2>. QED
    BY <2>2 DEF Finds, kind, seeds, x
<1>3. s[1] = End(v) /\ (Len(s) = 2 => v.fresh)
  <2>. DEFINE e == End(v)
  <2>1. s = IF v.fresh THEN <<e, e - 1>> ELSE <<e>>
    BY DEF DepositSeeds
  <2>. HIDE DEF e, s
  <2>2. s[1] = e /\ (Len(s) = 2 => v.fresh)
    BY <2>1
  <2>. QED
    BY <2>2 DEF e
<1>4. q \in stake_deposit(ins)
  <2>1. q = Deposited(i, s, amount)
    BY DEF Deposited
  <2>2. q = Deposited(i, ins.seeds, ins.amount)
    BY <1>2, <2>1
  <2>. HIDE DEF q
  <2>3. i \in Named(ins) /\ check_can_stake_amount(ins.amount) /\ ins.seeds[1] = End(v)
        /\ (Len(ins.seeds) = 2 => v.fresh)
    BY <1>1, <1>2, <1>3
  <2>. QED
    BY <1>1, <2>2, <2>3, DepositIsDone
<1>5. r # pool.reserve
  BY <1>1, <1>2, BalanceAssumption DEF check_can_stake_amount
<1>6. q # pool
  <2>. HIDE DEF q
  <2>1. Changes(i, w, r, q)
    BY <1>2, <1>4, StakeDone
  <2>. HIDE DEF w, r
  <2>. QED
    BY <1>5, <2>1, Differs
<1>7. q \in Executed(ins, Reliable, Claimed)
  BY <1>2, <1>4, ClaimIsValid DEF Executed
<1>. QED
  BY <1>2, <1>6, <1>7 DEF MakesProgress

\* The first of some positions exists.
LEMMA FirstOfExists ==
    ASSUME IsPool(pool), NEW S \in SUBSET DOMAIN pool.list, S # {}
    PROVE  FirstOf(S) # {}
<1>1. S \in SUBSET Nat
  BY PoolFacts
<1>. QED
  BY <1>1, LeastNumber DEF FirstOf

LEMMA ActiveProgress ==
    ASSUME IsPool(pool), Reliable \in Keys(maintainers), try_unstake_from_inactive_validator = {},
           NEW ins \in try_unstake_from_active_validators
    PROVE  ins # Panic /\ (Refused(ins) \/ MakesProgress(ins))
<1>1. PICK i \in DOMAIN pool.list, amount \in Nat \ {0} :
         /\ pool.list[i].stakes # <<>>
         /\ amount <= pool.list[i].stakes[1] - MINIMUM_STAKE_ACCOUNT_BALANCE
         /\ amount <= Effective(Book, i)
         /\ ins = Instruction("Unstake", i, <<pool.list[i].begin, UnstakeEnd(pool.list[i])>>, amount)
  BY ActiveIsDue
<1>. DEFINE v == pool.list[i]
            a == v.stakes[1]
<1>2. ins.kind = "Unstake" /\ ins.index = i /\ ins # Panic /\ IsEntry(v)
  <2>. DEFINE kind == "Unstake"
              seeds == <<pool.list[i].begin, UnstakeEnd(pool.list[i])>>
              x == amount
  <2>1. IsFor(ins, kind, i, seeds, x) /\ kind \in Kinds
    BY <1>1 DEF IsFor, Kinds
  <2>. HIDE DEF kind, seeds, x
  <2>2. Finds(ins, kind, i, seeds, x)
    BY <2>1, DueFacts
  <2>. QED
    BY <2>2 DEF Finds, kind, seeds, x
<1>3. CASE Len(v.unstakes) >= MAXIMUM_UNSTAKE_ACCOUNTS
  BY <1>2, <1>3 DEF Refused
<1>4. CASE ~(Len(v.unstakes) >= MAXIMUM_UNSTAKE_ACCOUNTS)
  <2>0. Len(v.unstakes) \in Nat /\ v.stakes \in Seq(Sufficient)
    <3>. HIDE DEF v
    <3>. QED
      BY <1>2, EntryFacts
  <2>1. Len(v.unstakes) < MAXIMUM_UNSTAKE_ACCOUNTS
    BY <1>4, <2>0, BalanceAssumption
  <2>2. IsActive(v)
    <3>. SUFFICES ASSUME ~IsActive(v) PROVE FALSE
      OBVIOUS
    <3>. DEFINE S == {j \in DOMAIN pool.list : /\ ~IsActive(pool.list[j])
                                               /\ Len(pool.list[j].unstakes) < MAXIMUM_UNSTAKE_ACCOUNTS
                                               /\ pool.list[j].stakes # <<>>}
    <3>1. i \in S
      BY <1>1, <2>1
    <3>2. FirstOf(S) # {}
      <4>1. S \in SUBSET DOMAIN pool.list /\ S # {}
        BY <3>1
      <4>. HIDE DEF S
      <4>. QED
        BY <4>1, FirstOfExists
    <3>. QED
      BY <3>2 DEF try_unstake_from_inactive_validator, Where
  <2>3. a \in Nat
    <3>. HIDE DEF v
    <3>. QED
      BY <1>1, <2>0, SufficientFacts DEF v
  <2>4. amount \in Nat /\ amount <= a /\ a - amount >= MINIMUM_STAKE_ACCOUNT_BALANCE
    <3>1. amount <= a - MINIMUM_STAKE_ACCOUNT_BALANCE
      BY <1>1
    <3>. HIDE DEF a
    <3>. QED
      BY <2>3, <3>1, BalanceAssumption
  <2>5. LeavesEnough(v, amount)
    BY <2>2, <2>4 DEF LeavesEnough
  <2>6. Sum(v.unstakes) + amount <= v.tracked
    <3>1. /\ Effective(Book, i) = v.tracked - Sum(v.unstakes)
          /\ Sum(v.unstakes) \in Nat /\ v.tracked \in Nat
      BY BookFacts
    <3>. HIDE DEF v
    <3>. QED
      BY <1>1, <2>4, <3>1
  <2>7. MakesProgress(ins)
    BY <1>1, <2>1, <2>4, <2>5, <2>6, UnstakeProgress
  <2>. QED
    BY <1>2, <2>7
<1>. QED
  BY <1>3, <1>4

LEMMA RemoveProgress ==
    ASSUME IsPool(pool), NEW ins \in try_remove_pending_validators
    PROVE  MakesProgress(ins)
<1>1. PICK i \in DOMAIN pool.list : /\ check_can_be_removed(pool.list[i])
                                    /\ ins = Instruction("RemoveValidator", i, <<>>, 0)
  BY RemoveIsDue
<1>2. ins.kind = "RemoveValidator" /\ Named(ins) = {i} /\ ins # Panic
  <2>. DEFINE kind == "RemoveValidator"
              seeds == <<>>
              x == 0
  <2>1. IsFor(ins, kind, i, seeds, x) /\ kind \in Kinds
    BY <1>1 DEF IsFor, Kinds
  <2>. HIDE DEF kind, seeds, x
  <2>2. Finds(ins, kind, i, seeds, x)
    BY <2>1, DueFacts
  <2>. QED
    BY <2>2 DEF Finds, kind, seeds, x
<1>. DEFINE q == [pool EXCEPT !.list = SwapRemove(@, i)]
<1>3. q \in remove_validator(ins)
  BY <1>1, <1>2 DEF remove_validator
<1>. HIDE DEF q
<1>4. Len(q.list) # Len(pool.list)
  BY <1>3, RemoveDone
<1>5. q # pool
  BY <1>4
<1>6. q \in Executed(ins, Reliable, Claimed)
  BY <1>2, <1>3 DEF Executed
<1>. QED
  BY <1>2, <1>5, <1>6 DEF MakesProgress

LEMMA ProgressIsMade == DaemonInv => DueMakesProgress
<1>. SUFFICES ASSUME DaemonInv, NEW ins \in try_perform_maintenance,
                     \A i \in DOMAIN pool.list : IsOpen(pool.list[i])
              PROVE  ins # Panic /\ (Refused(ins) \/ MakesProgress(ins))
  BY DEF DueMakesProgress, MakesProgress, Claimed
<1>0. IsPool(pool) /\ Reliable \in Keys(maintainers)
  BY DEF DaemonInv
<1>1. MakesProgress(ins) => ins # Panic
  BY DEF MakesProgress
<1>. QED
  BY <1>0, <1>1, DueCases, MergeProgress, RateProgress, CommissionProgress, RestProgress,
     ReactivateProgress, InactiveProgress, UpdateProgress, DeactivateProgress, StakeProgress,
     ActiveProgress, RemoveProgress

(***************************************************************************)
(* DueMakesProgress: what is due on an unchanged pool succeeds and changes *)
(* it, and no daemon panics, unless a vote account is closed, an inactive  *)
(* validator has unrecorded rewards, or the one to unstake from has no     *)
(* unstake account left.                                                   *)
(***************************************************************************)
THEOREM DueKeepsProgressing == Spec => []DueMakesProgress
BY DaemonInvariant, ProgressIsMade, PTL

=============================================================================
