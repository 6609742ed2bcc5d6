--------------------------- MODULE SnapshotClient ---------------------------
(***************************************************************************)
(* How a maintainer reads accounts (`SnapshotClient::with_snapshot`): all  *)
(* accounts that the previous snapshot referenced are queried, in as few   *)
(* calls as the RPC node allows; the reader then follows references from   *)
(* account to account, and when it meets one that was not queried, the     *)
(* whole snapshot is taken again with that account included.  The chain    *)
(* changes between any two calls.                                          *)
(*                                                                         *)
(* The chain is in one of a number of versions.  In version n the reader   *)
(* that starts at `Root` needs the accounts References[n], in this order,  *)
(* and the info of a validator, which is in the account InfoAddress[n] and *)
(* can only be found through a mapping that the client keeps.              *)
(*                                                                         *)
(* An operator whose name ends in _Bug is a mutation of the operator that  *)
(* follows it; no specification uses it.                                   *)
(***************************************************************************)
EXTENDS Filter

CONSTANTS
    Root,          \* the Solido account
    References,    \* References[n]: addresses that version n of Root leads to
    InfoAddress,   \* InfoAddress[n]: address of the validator info, or NoAddress
    NoAddress,
    RpcLimits,     \* how many accounts a call may ask for; nodes differ
    UsizeMax,      \* the initial `max_items_per_call`
    MaxErrors      \* bound: failed calls

Versions == DOMAIN References

RangeOf(s) == {s[i] : i \in DOMAIN s}

Infos == {InfoAddress[n] : n \in Versions} \ {NoAddress}
Addresses == {Root} \cup (UNION {RangeOf(References[n]) : n \in Versions}) \cup Infos

\* The reader collects the addresses it meets in an ordered set, so that References[n] holds
\* none twice; the infos are accounts of another program than those.
ASSUME SnapshotAssumption ==
    /\ References \in Seq(Seq(Addresses)) /\ References # <<>>
    /\ \A n \in Versions : \A i, j \in DOMAIN References[n] :
          References[n][i] = References[n][j] => i = j
    /\ \A n \in Versions : ({Root} \cup Infos) \cap RangeOf(References[n]) = {}
    /\ Root \notin Infos
    /\ DOMAIN InfoAddress = Versions
    /\ RpcLimits \subseteq 1..UsizeMax /\ RpcLimits # {}
    /\ UsizeMax \in Nat
    /\ IsFiniteSet(Addresses)
    /\ MaxErrors \in Nat

VARIABLES
    chain,                \* version of the chain
    accounts_to_query,    \* an ordered set
    validator_info_addr,  \* the mapping, for the one validator
    max_items_per_call,
    pc,                   \* "idle", "query" or "read"
    num_chunks,           \* of the attempt under way
    result,               \* versions at which the first accounts were read
    outcome,              \* of the last snapshot: "none", "ok" or "error"
    errors                \* number of failed calls

clientVars == <<chain, accounts_to_query, validator_info_addr, max_items_per_call, pc,
                num_chunks, result, outcome, errors>>

\* Accounts that exist in a version of the chain.  The config program never closes an
\* account, but uses it for the info of another validator.
Existing(n) == {Root} \cup RangeOf(References[n]) \cup Infos

-----------------------------------------------------------------------------
(* Ordered sets *)

\* `union_with`: the elements of `other` that are new go to the end, in their order.
UnionWith(set, other) ==
    set \o ElementsAt(other, {j \in DOMAIN other : other[j] \notin RangeOf(set)})

IsOrderedSet(s) == \A i, j \in DOMAIN s : s[i] = s[j] => i = j

-----------------------------------------------------------------------------
(* GetMultipleAccounts in chunks *)

items_per_chunk == Len(accounts_to_query) \div num_chunks

Smaller(a, b) == IF a < b THEN a ELSE b

chunk_len == Smaller(items_per_chunk, Len(accounts_to_query) - Len(result))

StartQuery ==
    /\ pc' = "query"
    /\ num_chunks' = 1
    /\ result' = <<>>

\* The call of with_snapshot.
Begin ==
    /\ pc = "idle"
    /\ StartQuery
    /\ outcome' = "none"
    /\ UNCHANGED <<chain, accounts_to_query, validator_info_addr, max_items_per_call, errors>>

\* Mutation: an attempt is skipped that would have been in the limit.
IsTooLarge_Bug == items_per_chunk >= max_items_per_call

\* "We already know that this would fail".
IsTooLarge == items_per_chunk > max_items_per_call

MoreChunks ==
    /\ pc = "query"
    /\ Len(result) < Len(accounts_to_query)
    /\ IsTooLarge
    /\ num_chunks' = num_chunks + 1
    /\ UNCHANGED <<chain, accounts_to_query, validator_info_addr, max_items_per_call, pc,
                   result, outcome, errors>>

IsChunkDue == /\ pc = "query"
              /\ Len(result) < Len(accounts_to_query)
              /\ items_per_chunk > 0
              /\ ~IsTooLarge

\* One call succeeds.
GetMultipleAccounts ==
    /\ IsChunkDue
    /\ \E limit \in RpcLimits : chunk_len <= limit
    /\ result' = result \o [i \in 1..chunk_len |-> chain]
    /\ UNCHANGED <<chain, accounts_to_query, validator_info_addr, max_items_per_call, pc,
                   num_chunks, outcome, errors>>

\* Mutation: off by one.
LearnedLimit_Bug == chunk_len - 2

LearnedLimit == chunk_len - 1

\* One call fails because it asks for too many accounts: start again.
TooManyInputs ==
    /\ IsChunkDue
    /\ \E limit \in RpcLimits : chunk_len > limit
    /\ max_items_per_call' = LearnedLimit
    /\ num_chunks' = num_chunks + 1
    /\ result' = <<>>
    /\ UNCHANGED <<chain, accounts_to_query, validator_info_addr, pc, outcome, errors>>

\* One call fails for another reason: the snapshot fails.
RpcFails ==
    /\ IsChunkDue
    /\ errors < MaxErrors
    /\ errors' = errors + 1
    /\ pc' = "idle"
    /\ outcome' = "error"
    /\ UNCHANGED <<chain, accounts_to_query, validator_info_addr, max_items_per_call,
                   num_chunks, result>>

AllQueried ==
    /\ pc = "query"
    /\ Len(result) = Len(accounts_to_query)
    /\ pc' = "read"
    /\ UNCHANGED <<chain, accounts_to_query, validator_info_addr, max_items_per_call,
                   num_chunks, result, outcome, errors>>

-----------------------------------------------------------------------------
(* Reading the snapshot *)

\* The version at which an account was read, as a set of at most one number.
VersionRead(a) == {result[i] : i \in {j \in DOMAIN result : accounts_to_query[j] = a}}

IsQueried(a) == VersionRead(a) # {}
IsPresent(a) == \E n \in VersionRead(a) : a \in Existing(n)

\* The accounts that the reader references, up to the validator info.
Wanted == <<Root>> \o (IF IsPresent(Root) THEN References[CHOOSE n \in VersionRead(Root) : TRUE]
                                         ELSE <<>>)

WantedWithInfo == Append(Wanted, validator_info_addr)

IsMissing(s, i) == i \in DOMAIN s /\ ~IsQueried(s[i]) /\ \A j \in 1..(i - 1) : IsPresent(s[j])
IsAbsent(s, i) == /\ i \in DOMAIN s
                  /\ IsQueried(s[i]) /\ ~IsPresent(s[i])
                  /\ \A j \in 1..(i - 1) : IsPresent(s[j])
ArePresent(s) == \A i \in DOMAIN s : IsPresent(s[i])

\* The reader knows an account with the info of this validator, as it was read.
HasInfo == \E n \in VersionRead(validator_info_addr) : InfoAddress[n] = validator_info_addr

\* What the reader references in this order: the info only if its address is known.
Reading == IF validator_info_addr = NoAddress THEN Wanted ELSE WantedWithInfo

\* The referenced accounts first, then the ones that were known before.
Extended(referenced) == UnionWith(referenced, accounts_to_query)

\* An account was not queried: again, with all accounts that were referenced.
MissingAccount ==
    /\ pc = "read"
    /\ \E i \in DOMAIN Reading :
          /\ IsMissing(Reading, i)
          /\ accounts_to_query' = Extended(SubSeq(Reading, 1, i))
    /\ StartQuery
    /\ UNCHANGED <<chain, validator_info_addr, max_items_per_call, outcome, errors>>

\* An account was queried and did not exist: the snapshot fails.
OtherError ==
    /\ pc = "read"
    /\ \E i \in DOMAIN Reading : IsAbsent(Reading, i)
    /\ pc' = "idle"
    /\ outcome' = "error"
    /\ UNCHANGED <<chain, accounts_to_query, validator_info_addr, max_items_per_call,
                   num_chunks, result, errors>>

\* Mutation: the mapping is loaded again, but it is not checked.
IsReloaded_Bug == TRUE

\* The mapping has the validator after it was loaded again.
IsReloaded == InfoAddress[chain] # NoAddress

\* The mapping does not know the validator, or the account is used for another one:
\* the mapping is loaded again, and the snapshot is taken again with the accounts of
\* before, unless the mapping still lacks the validator.
MissingValidatorIdentity ==
    /\ pc = "read"
    /\ ArePresent(Wanted)
    /\ \/ validator_info_addr = NoAddress
       \/ IsQueried(validator_info_addr) /\ IsPresent(validator_info_addr) /\ ~HasInfo
    /\ validator_info_addr' = InfoAddress[chain]
    /\ IF IsReloaded
       THEN StartQuery /\ UNCHANGED outcome
       ELSE pc' = "idle" /\ outcome' = "error" /\ UNCHANGED <<num_chunks, result>>
    /\ UNCHANGED <<chain, accounts_to_query, max_items_per_call, errors>>

\* Mutation: accounts that are not needed any more stay.
Pruned_Bug == Extended(Reading)

\* Only what the reader used is queried next time.
Pruned == Reading

\* The reader has all it needs, and sends its transaction if there is one to send.
Succeed ==
    /\ pc = "read"
    /\ validator_info_addr # NoAddress
    /\ ArePresent(Reading) /\ HasInfo
    /\ accounts_to_query' = Pruned
    /\ pc' = "idle"
    /\ outcome' = "ok"
    /\ UNCHANGED <<chain, validator_info_addr, max_items_per_call, num_chunks, result, errors>>

-----------------------------------------------------------------------------
\* Transactions of others change the accounts, in any order and without end.
ChainAdvances ==
    /\ chain' \in Versions \ {chain}
    /\ UNCHANGED <<accounts_to_query, validator_info_addr, max_items_per_call, pc,
                   num_chunks, result, outcome, errors>>

ClientInit ==
    /\ chain = 1
    /\ accounts_to_query = <<>>
    /\ validator_info_addr = NoAddress
    /\ max_items_per_call = UsizeMax
    /\ pc = "idle"
    /\ num_chunks = 1
    /\ result = <<>>
    /\ outcome = "none"
    /\ errors = 0

\* What the client does without a failure of the RPC node.
Progress == \/ Begin \/ MoreChunks \/ GetMultipleAccounts \/ TooManyInputs \/ AllQueried
            \/ MissingAccount \/ OtherError \/ MissingValidatorIdentity \/ Succeed

ClientNext == Progress \/ RpcFails \/ ChainAdvances

\* The client never stops, and a call that can be made is made; which limit a node
\* has is not up to the client.
ClientSpec == ClientInit /\ [][ClientNext]_clientVars /\ WF_clientVars(Progress)

-----------------------------------------------------------------------------
(* Properties *)

\* The types of the state; the accounts to query are an ordered set.
ClientTypeOK ==
    /\ chain \in Versions
    /\ accounts_to_query \in Seq(Addresses) /\ IsOrderedSet(accounts_to_query)
    /\ validator_info_addr \in Infos \cup {NoAddress}
    /\ max_items_per_call \in 1..UsizeMax
    /\ pc \in {"idle", "query", "read"}
    /\ num_chunks \in Nat \ {0}
    /\ result \in Seq(Versions) /\ Len(result) <= Cardinality(Addresses)
    /\ outcome \in {"none", "ok", "error"}
    /\ errors \in 0..MaxErrors

(***************************************************************************)
(* "We should be able to get at least *one* account with                   *)
(* GetMultipleAccounts" (assertion in get_multiple_accounts_chunked): the  *)
(* search for a size that the node accepts ends before the chunks are      *)
(* empty, and never with a limit that no node has, although nodes that     *)
(* answer different calls have different limits.                           *)
(***************************************************************************)
ChunksAreNotEmpty ==
    /\ \E limit \in RpcLimits : limit <= max_items_per_call
    /\ pc = "query" /\ accounts_to_query # <<>> => items_per_chunk > 0

\* What a call of get_multiple_accounts relies on: the types of the state, a set of accounts
\* without duplicates, and a chunk size that is not zero and that some node may accept.
CallsAreSound == ClientTypeOK /\ ChunksAreNotEmpty

(***************************************************************************)
(* The snapshot that the reader works with mixes versions of the chain only*)
(* if it is larger than what the node is known to accept in one call.      *)
(***************************************************************************)
IsTorn == \E i, j \in DOMAIN result : result[i] # result[j]

TornOnlyIfTooLarge ==
    pc = "read" /\ IsTorn => Len(accounts_to_query) > max_items_per_call

(***************************************************************************)
(* Every call of with_snapshot ends once the chain settles, in whatever    *)
(* version: neither the search for the chunk size, nor the retries for     *)
(* accounts that were not queried, nor the ones for a validator whose info *)
(* moved or is gone, go on for ever.  Without the condition a call may     *)
(* never end, as the comment at the head of snapshot.rs says ("we are stuck*)
(* in a loop"): the info moves again between each reload and the next read.*)
(***************************************************************************)
EverySnapshotEnds ==
    \A n \in Versions : <>[](chain = n) => (pc # "idle" ~> pc = "idle")

(***************************************************************************)
(* When the chain settles in a version where everything that is needed     *)
(* exists, the client settles as well: its snapshots succeed, and they     *)
(* query exactly what is needed, although the reader met accounts on the   *)
(* way that came and went.                                                 *)
(***************************************************************************)
SettlesWithTheChain ==
    \A n \in {m \in Versions : InfoAddress[m] # NoAddress} :
        <>[](chain = n) =>
        <>[](pc = "idle" => /\ outcome = "ok"
                            /\ accounts_to_query = <<Root>> \o References[n] \o <<InfoAddress[n]>>)

=============================================================================
