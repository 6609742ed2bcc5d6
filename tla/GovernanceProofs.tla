-------------------------- MODULE GovernanceProofs --------------------------
(***************************************************************************)
(* Who can change an instance, and that it is usable, for any owners and   *)
(* thresholds, any number of proposals, any lists and any order in which   *)
(* the transactions of all commands are executed or lost.                  *)
(***************************************************************************)
EXTENDS Governance, DataLemmas, FiniteSetTheorems, TLAPS

-----------------------------------------------------------------------------
(* The inductive invariant: the accounts of the program *)

ListAccounts ==
    [type : {"Uninitialized", "Validator", "ValidatorPerf", "Maintainer"}, bytes : Nat,
     max : Nat, entries : Seq(ValidatorEntries) \cup Seq(MaintainerEntries)]

\* An account with the type of a list holds such a list, and has the bytes for it.
IsListAccount(a) ==
    /\ a \in ListAccounts
    /\ a.type = "Validator" =>
          /\ IsList(ValidatorEntries, a.max, a.entries)
          /\ a.bytes >= required_bytes("validator_list", a.max)
    /\ a.type = "Maintainer" =>
          /\ IsList(MaintainerEntries, a.max, a.entries)
          /\ a.bytes >= required_bytes("maintainer_list", a.max)

AccountsAreSound ==
    /\ accounts \in Seq(ListAccounts)
    /\ \A i \in DOMAIN accounts : IsListAccount(accounts[i])

\* Addresses that are in use stay what they are: these lists only grow.
TokensAreSound ==
    /\ mints \in Seq(Mint)
    /\ tokens \in Seq(Nat)
    /\ \A i \in DOMAIN tokens : tokens[i] \in DOMAIN mints

IsTokenOf(token, mint) == token \in DOMAIN tokens /\ tokens[token] = mint

V2Fields == {"version", "manager", "mint", "treasury", "developer", "fees", "criteria",
             "validator_list", "validator_perf_list", "maintainer_list"}

AllFees == FeeOptions \cup {Running.fees}

\* An instance of either version, with the address of the multisig as its manager.
V1IsSound ==
    /\ lido = [LidoV1 EXCEPT !.validators = lido.validators]
    /\ reserve
    /\ 1 \in DOMAIN mints /\ mints[1].authority = "mint_authority"
    /\ IsTokenOf(1, 1)

V2IsSound ==
    /\ DOMAIN lido = V2Fields
    /\ lido.manager = "multisig" /\ lido.fees \in AllFees
    /\ reserve
    /\ lido.mint \in DOMAIN mints /\ mints[lido.mint].authority = "mint_authority"
    /\ IsTokenOf(lido.treasury, lido.mint)
    /\ IsTokenOf(lido.developer, lido.mint)
    /\ lido.validator_list \in DOMAIN accounts
    /\ accounts[lido.validator_list].type = "Validator"
    /\ lido.maintainer_list \in DOMAIN accounts
    /\ accounts[lido.maintainer_list].type = "Maintainer"

LidoIsSound ==
    \/ lido = NoLido
    \/ lido.version = "v1" /\ V1IsSound
    \/ lido.version = "v2" /\ V2IsSound

\* What a run of create-solido has put in place so far.
SetupIsSound ==
    \/ setup = Idle
    \/ setup = [pc |-> "mint", mint |-> 0, given |-> FALSE]
    \/ /\ setup = [pc |-> "fees", mint |-> setup.mint, given |-> setup.given]
       /\ setup.given \in BOOLEAN
       /\ setup.mint \in DOMAIN mints
       /\ ~setup.given => reserve /\ check_mint(mints[setup.mint])
    \/ /\ setup = [pc |-> "init", mint |-> setup.mint, given |-> setup.given,
                   treasury |-> setup.treasury, developer |-> setup.developer]
       /\ setup.given \in BOOLEAN
       /\ setup.mint \in DOMAIN mints
       /\ reserve
       /\ ~setup.given => check_mint(mints[setup.mint])
       /\ IsTokenOf(setup.treasury, setup.mint)
       /\ IsTokenOf(setup.developer, setup.mint)

InstanceInv ==
    /\ AccountsAreSound
    /\ reserve \in BOOLEAN
    /\ TokensAreSound
    /\ LidoIsSound
    /\ SetupIsSound

-----------------------------------------------------------------------------
(* The inductive invariant: owners and proposals *)

\* The instructions that commands propose.
Proposals ==
    [kind : {"AddValidator"}, key : Votes]
      \cup [kind : {"AddMaintainer"}, key : Maintainers]
      \cup [kind : {"RemoveMaintainer", "DeactivateValidator", "EnqueueValidatorForRemoval"},
            key : Votes \cup Maintainers, index : Nat]
      \cup [kind : {"ChangeCriteria"}, criteria : CriteriaOptions]
      \cup [kind : {"ChangeRewardDistribution"}, fees : FeeOptions, treasury : Nat,
            developer : Nat]
      \cup [kind : {"MigrateStateToV2"}, fees : FeeOptions, developer : Nat,
            max_commission : 0..255, validator_list : 1..3, validator_perf_list : 1..3, maintainer_list : 1..3,
            max : [validator_list : Nat, validator_perf_list : Nat, maintainer_list : Nat]]
      \cup [kind : {"SetOwners"}, owners : Seq(OwnerKeys), threshold : Nat]
      \cup [kind : {"Upgrade"}, image : {"new"}]
      \cup [kind : {"SetAuthority"}, authority : {"other"}]
      \cup [kind : {"Transfer"}, amount : Nat]

\* The accounts that a proposal names exist.
NamesAccounts(ins) ==
    /\ ins.kind = "ChangeRewardDistribution" =>
          ins.treasury \in DOMAIN tokens /\ ins.developer \in DOMAIN tokens
    /\ ins.kind = "MigrateStateToV2" => Len(accounts) >= 3 /\ ins.developer \in DOMAIN tokens

Multisigs == [owners : Seq(OwnerKeys), threshold : Nat, seqno : Nat]

Displays ==
    [kind : Foreign \cup Managed \cup {"InvalidSolidoInstruction", "Unsupported", "Unrecognized"},
     multisig : SUBSET Multisigs, rewards : SUBSET (AllFees \X Nat \X Nat), done : SUBSET Nat]

Transactions ==
    [ins : Proposals, signers : SUBSET Nat, seqno : Nat, did_execute : BOOLEAN,
     agreed : SUBSET OwnerKeys, shown : SUBSET Displays]

\* A proposal that the present owners can execute has the flags of just those owners who
\* agreed to it.
IsSoundTransaction(tx) ==
    /\ NamesAccounts(tx.ins)
    /\ IsFiniteSet(tx.agreed)
    /\ tx.seqno <= multisig.seqno
    /\ tx.seqno = multisig.seqno =>
          /\ \A o \in tx.agreed : IsOwner(o)
          /\ tx.signers = {IndexOf(o) : o \in tx.agreed}

MultisigIsSound ==
    /\ multisig \in Multisigs
    /\ multisig.threshold <= Len(multisig.owners)
    /\ multisig = NoMultisig => txs = <<>> /\ session = NoSession

TransactionsAreSound ==
    /\ txs \in Seq(Transactions)
    /\ \A t \in DOMAIN txs : IsSoundTransaction(txs[t])

SessionIsSound ==
    \/ session = NoSession
    \/ /\ session \in [stage : {"propose"}, who : OwnerKeys, ins : Proposals, room : Nat]
       /\ NamesAccounts(session.ins)
    \/ /\ session \in [stage : {"shown", "count", "execute"}, who : OwnerKeys, tx : Nat,
                       seen : Displays]
       /\ session.tx \in DOMAIN txs

GovernanceInv ==
    /\ InstanceInv
    /\ MultisigIsSound
    /\ TransactionsAreSound
    /\ SessionIsSound
    /\ vault \in 0 .. VaultSize

-----------------------------------------------------------------------------
(* Privileges of instructions *)

\* Roles in instructions that are proposed.
Roles ==
    {"lido", "manager", "maintainer", "validator_vote_account",
     "validator_vote_account_to_deactivate", "validator_vote_account_to_remove",
     "validator_list", "validator_perf_list", "maintainer_list", "treasury_account",
     "developer_account", "multisig", "program_data", "program", "buffer", "spill",
     "sysvar_rent", "sysvar_clock", "new_authority", "from", "to", "program_id"}

Metas == [role : Roles, is_signer : BOOLEAN, is_writable : BOOLEAN]

LEMMA MetaFacts ==
    \A role \in Roles :
        /\ R(role) \in Metas /\ R(role).role = role
        /\ R(role).is_signer = FALSE /\ R(role).is_writable = FALSE
        /\ W(role) \in Metas /\ W(role).role = role
        /\ W(role).is_signer = FALSE /\ W(role).is_writable = TRUE
        /\ S(role) \in Metas /\ S(role).role = role
        /\ S(role).is_signer = TRUE /\ S(role).is_writable = FALSE
BY DEF R, W, S, AccountMeta, Metas

\* A builder without fixed accounts lists just the roles.
LEMMA ToVecRoles ==
    ASSUME NEW struct, struct.consts = <<>>, struct.roles \in Seq(Metas)
    PROVE  to_vec(struct, 0) = struct.roles
<1>. DEFINE a == [i \in DOMAIN struct.consts |-> R(struct.consts[i])]
            b == [i \in 1 .. 0 |-> W("stake_account")]
<1>1. a = <<>> /\ b = <<>>
  OBVIOUS
<1>2. to_vec(struct, 0) = struct.roles \o a \o b
  BY DEF to_vec
<1>3. struct.roles \o <<>> \o <<>> = struct.roles
  OBVIOUS
<1>. QED
  BY <1>1, <1>2, <1>3

\* The struct of an instruction that the manager signs, as the second account and alone.
IsManaged(struct) ==
    /\ struct.consts = <<>> /\ ~struct.variadic
    /\ struct.roles \in Seq(Metas)
    /\ 2 \in DOMAIN struct.roles /\ struct.roles[2] = S("manager")
    /\ \A i \in DOMAIN struct.roles :
          struct.roles[i].is_signer => struct.roles[i].role = "manager"

\* The handler writes only to accounts that are listed as writable.
MayWrite(kind, struct) ==
    \A i \in DOMAIN struct.roles :
        struct.roles[i].role \in Writes(kind) => struct.roles[i].is_writable

LEMMA ManagedStructs ==
    \A kind \in Managed : /\ IsManaged(AccountsOf[kind])
                          /\ MayWrite(kind, AccountsOf[kind])
<1>. USE MetaFacts DEF IsManaged, MayWrite, Struct, Roles, Writes
<1>1. /\ IsManaged(AddMaintainerMetaV2)
      /\ MayWrite("AddMaintainer", AddMaintainerMetaV2)
  BY DEF AddMaintainerMetaV2
<1>2. /\ IsManaged(RemoveMaintainerMetaV2)
      /\ MayWrite("RemoveMaintainer", RemoveMaintainerMetaV2)
  BY DEF RemoveMaintainerMetaV2
<1>3. /\ IsManaged(AddValidatorMetaV2)
      /\ MayWrite("AddValidator", AddValidatorMetaV2)
  BY DEF AddValidatorMetaV2
<1>4. /\ IsManaged(DeactivateValidatorMetaV2)
      /\ MayWrite("DeactivateValidator", DeactivateValidatorMetaV2)
  BY DEF DeactivateValidatorMetaV2
<1>5. /\ IsManaged(EnqueueValidatorForRemovalMetaV2)
      /\ MayWrite("EnqueueValidatorForRemoval", EnqueueValidatorForRemovalMetaV2)
  BY DEF EnqueueValidatorForRemovalMetaV2
<1>6. /\ IsManaged(ChangeCriteriaMeta)
      /\ MayWrite("ChangeCriteria", ChangeCriteriaMeta)
  BY DEF ChangeCriteriaMeta
<1>7. /\ IsManaged(ChangeRewardDistributionMeta)
      /\ MayWrite("ChangeRewardDistribution", ChangeRewardDistributionMeta)
  BY DEF ChangeRewardDistributionMeta
<1>8. /\ IsManaged(MigrateStateToV2Meta)
      /\ MayWrite("MigrateStateToV2", MigrateStateToV2Meta)
  BY DEF MigrateStateToV2Meta
<1>. HIDE MetaFacts DEF IsManaged, MayWrite, Struct, Roles, Writes
<1>9. /\ AccountsOf["AddMaintainer"] = AddMaintainerMetaV2
      /\ AccountsOf["RemoveMaintainer"] = RemoveMaintainerMetaV2
      /\ AccountsOf["AddValidator"] = AddValidatorMetaV2
      /\ AccountsOf["DeactivateValidator"] = DeactivateValidatorMetaV2
      /\ AccountsOf["EnqueueValidatorForRemoval"] = EnqueueValidatorForRemovalMetaV2
      /\ AccountsOf["ChangeCriteria"] = ChangeCriteriaMeta
      /\ AccountsOf["ChangeRewardDistribution"] = ChangeRewardDistributionMeta
      /\ AccountsOf["MigrateStateToV2"] = MigrateStateToV2Meta
  BY DEF AccountsOf
<1>. QED
  BY <1>1, <1>2, <1>3, <1>4, <1>5, <1>6, <1>7, <1>8, <1>9 DEF Managed

\* What their builders list.
LEMMA ManagedAccounts ==
    ASSUME NEW kind \in Managed
    PROVE  /\ kind \in Kinds /\ kind \notin Foreign
           /\ AccountsIn[kind] = AccountsOf[kind].roles
<1>1. kind \in Kinds /\ kind \notin Foreign
  BY DEF Managed, Foreign, ForeignAccounts, Kinds, AccountsOf
<1>2. AccountsIn[kind] = to_vec(AccountsOf[kind], 0)
  BY <1>1 DEF AccountsIn
<1>3. to_vec(AccountsOf[kind], 0) = AccountsOf[kind].roles
  BY ManagedStructs, ToVecRoles DEF IsManaged
<1>. QED
  BY <1>1, <1>2, <1>3

\* The struct that the handler decodes has as many accounts, with the same flags.
LEMMA DecodedRoles ==
    ASSUME NEW kind \in Managed
    PROVE  /\ IsManaged(DecodedWith(kind))
           /\ Len(DecodedWith(kind).roles) = Len(AccountsOf[kind].roles)
           /\ \A i \in DOMAIN AccountsOf[kind].roles :
                 /\ DecodedWith(kind).roles[i].is_signer <=> AccountsOf[kind].roles[i].is_signer
                 /\ DecodedWith(kind).roles[i].is_writable <=> AccountsOf[kind].roles[i].is_writable
<1>1. CASE kind = "EnqueueValidatorForRemoval"
  <2>1. DecodedWith(kind) = AccountsOf["DeactivateValidator"]
    BY <1>1 DEF DecodedWith, AccountsOf
  <2>2. AccountsOf[kind] = EnqueueValidatorForRemovalMetaV2
    BY <1>1 DEF AccountsOf
  <2>3. AccountsOf["DeactivateValidator"] = DeactivateValidatorMetaV2
    BY DEF AccountsOf
  <2>4. IsManaged(DecodedWith(kind))
    BY <2>1, ManagedStructs DEF Managed
  <2>. QED
    BY <2>1, <2>2, <2>3, <2>4, MetaFacts
    DEF EnqueueValidatorForRemovalMetaV2, DeactivateValidatorMetaV2, Struct, Roles
<1>2. CASE kind # "EnqueueValidatorForRemoval"
  BY <1>2, ManagedStructs DEF DecodedWith
<1>. QED
  BY <1>1, <1>2

\* As accounts of the outer transaction they need not sign and keep what they may write.
LEMMA OuterAccounts ==
    ASSUME NEW metas \in Seq(Metas)
    PROVE  LET outer == TransactionAccounts(metas)
           IN  /\ \A i \in DOMAIN outer : ~outer[i].is_signer
               /\ \A i \in DOMAIN metas : metas[i].is_writable => outer[i].is_writable
<1>. DEFINE inner == [i \in DOMAIN metas |-> [metas[i] EXCEPT !.is_signer = FALSE]]
            outer == TransactionAccounts(metas)
<1>1. outer = Append(inner, R("program_id"))
  BY DEF TransactionAccounts
<1>2. ASSUME NEW i \in DOMAIN metas
      PROVE  /\ inner[i] \in Metas
             /\ ~inner[i].is_signer
             /\ inner[i].is_writable = metas[i].is_writable
  <2>1. metas[i] \in Metas /\ inner[i] = [metas[i] EXCEPT !.is_signer = FALSE]
    OBVIOUS
  <2>. QED
    BY <2>1 DEF Metas
<1>3. /\ inner \in Seq(Metas) /\ Len(inner) = Len(metas) /\ DOMAIN inner = DOMAIN metas
      /\ \A i \in DOMAIN metas : ~inner[i].is_signer /\ inner[i].is_writable = metas[i].is_writable
  <2>1. DOMAIN inner = 1 .. Len(metas) /\ Len(metas) \in Nat /\ DOMAIN metas = 1 .. Len(metas)
    OBVIOUS
  <2>2. inner = [i \in 1 .. Len(metas) |-> inner[i]]
    BY <2>1
  <2>. HIDE DEF inner
  <2>3. inner \in Seq(Metas) /\ Len(inner) = Len(metas)
    BY <1>2, <2>1, <2>2
  <2>. QED
    BY <1>2, <2>1, <2>3
<1>4. R("program_id") \in Metas /\ ~R("program_id").is_signer
  BY MetaFacts DEF Roles
<1>. HIDE DEF inner, outer
<1>5. /\ DOMAIN metas = 1 .. Len(metas) /\ Len(metas) \in Nat
      /\ DOMAIN outer = 1 .. (Len(metas) + 1)
      /\ \A i \in 1 .. Len(metas) : outer[i] = inner[i]
      /\ outer[Len(metas) + 1] = R("program_id")
  BY <1>1, <1>3, <1>4
<1>6. ASSUME NEW i \in DOMAIN outer
      PROVE  ~outer[i].is_signer
  <2>1. CASE i \in 1 .. Len(metas)
    BY <1>3, <1>5, <2>1
  <2>2. CASE i = Len(metas) + 1
    BY <1>4, <1>5, <2>2
  <2>. QED
    BY <1>5, <2>1, <2>2
<1>7. \A i \in DOMAIN metas : metas[i].is_writable => outer[i].is_writable
  BY <1>3, <1>5
<1>. QED
  BY <1>6, <1>7 DEF outer

\* Every kind of instruction that is proposed can be called by the multisig program.
LEMMA AllAreCallable == Foreign \cup Managed \subseteq Callable
<1>1. ASSUME NEW kind \in Foreign \cup Managed, AccountsIn[kind] \in Seq(Metas),
             \A i \in DOMAIN AccountsIn[kind] :
                AccountsIn[kind][i].is_signer => AccountsIn[kind][i].role = "manager",
             Accepts(kind, AccountsIn[kind])
      PROVE  kind \in Callable
  BY <1>1, OuterAccounts DEF Callable
<1>2. ASSUME NEW kind \in Managed
      PROVE  kind \in Callable
  <2>. DEFINE given == AccountsOf[kind].roles
              struct == DecodedWith(kind)
  <2>1. AccountsIn[kind] = given /\ kind \in Kinds /\ kind \notin Foreign
    BY ManagedAccounts
  <2>2. /\ given \in Seq(Metas)
        /\ \A i \in DOMAIN given : given[i].is_signer => given[i].role = "manager"
        /\ \A i \in DOMAIN given : given[i].role \in Writes(kind) => given[i].is_writable
    BY ManagedStructs DEF IsManaged, MayWrite
  <2>3. /\ struct.consts = <<>> /\ ~struct.variadic /\ struct.roles \in Seq(Metas)
        /\ Len(struct.roles) = Len(given)
        /\ \A i \in DOMAIN given : /\ struct.roles[i].is_signer <=> given[i].is_signer
                                   /\ struct.roles[i].is_writable <=> given[i].is_writable
    BY DecodedRoles DEF IsManaged
  <2>. HIDE DEF given, struct
  <2>4. try_from_slice(struct, given)
    BY <2>2, <2>3 DEF try_from_slice
  <2>5. Accepts(kind, given)
    BY <2>1, <2>2, <2>4 DEF Accepts, process, struct
  <2>. QED
    BY <1>1, <2>1, <2>2, <2>5
<1>3. ASSUME NEW kind \in Foreign
      PROVE  kind \in Callable
  <2>1. AccountsIn[kind] = ForeignAccounts[kind]
    BY DEF AccountsIn
  <2>2. /\ ForeignAccounts[kind] \in Seq(Metas)
        /\ \A i \in DOMAIN ForeignAccounts[kind] :
              ForeignAccounts[kind][i].is_signer => ForeignAccounts[kind][i].role = "manager"
    <3>. USE MetaFacts DEF ForeignAccounts, Roles
    <3>1. CASE kind = "SetOwners"
      BY <3>1
    <3>2. CASE kind = "Upgrade"
      BY <3>2
    <3>3. CASE kind = "SetAuthority"
      BY <3>3
    <3>4. CASE kind = "Transfer"
      BY <3>4
    <3>. QED
      BY <3>1, <3>2, <3>3, <3>4, ZenonT(30) DEF Foreign
  <2>3. Accepts(kind, AccountsIn[kind])
    BY <2>1 DEF Accepts
  <2>. QED
    BY <1>1, <2>1, <2>2, <2>3
<1>. QED
  BY <1>2, <1>3

\* Without the multisig program the derived address cannot sign, and the program refuses
\* it as the manager.
LEMMA ManagedNeedsManager ==
    ASSUME NEW kind \in Managed
    PROVE  "multisig" \notin Accepted[kind]
<1>. DEFINE given == AccountsOf[kind].roles
            struct == DecodedWith(kind)
<1>1. AccountsIn[kind] = given
  BY ManagedAccounts
<1>2. 2 \in DOMAIN given /\ given[2] = S("manager") /\ S("manager").role = "manager"
  BY ManagedStructs, MetaFacts DEF IsManaged, Roles
<1>3. /\ Unsigned(given)[2] = R("manager")
      /\ ~R("manager").is_signer
  BY <1>2, MetaFacts DEF Unsigned, Roles
<1>4. /\ struct.roles \in Seq(Metas) /\ 2 \in DOMAIN struct.roles
      /\ struct.roles[2] = S("manager") /\ S("manager").is_signer
  BY DecodedRoles, MetaFacts DEF IsManaged, Roles
<1>. HIDE DEF given, struct
<1>5. ~try_from_slice(struct, Unsigned(given))
  <2>1. 2 \in 1 .. Len(struct.roles)
    BY <1>4
  <2>2. struct.roles[2].is_signer /\ ~Unsigned(given)[2].is_signer
    BY <1>3, <1>4
  <2>3. try_from_slice(struct, Unsigned(given)) =>
          \A i \in 1 .. Len(struct.roles) :
              struct.roles[i].is_signer => Unsigned(given)[i].is_signer
    BY DEF try_from_slice
  <2>. QED
    BY <2>1, <2>2, <2>3
<1>6. ~process(kind, Unsigned(AccountsIn[kind]))
  BY <1>1, <1>5 DEF process, struct
<1>7. kind \in Kinds
  BY ManagedAccounts
<1>. QED
  BY <1>6, <1>7 DEF Accepted

-----------------------------------------------------------------------------
(* The instance: initial states and steps of the set-up *)

\* Nothing that has an address goes away or becomes another.
AddressesStay ==
    /\ DOMAIN tokens \subseteq DOMAIN tokens' /\ \A i \in DOMAIN tokens : tokens'[i] = tokens[i]
    /\ DOMAIN mints \subseteq DOMAIN mints' /\ \A i \in DOMAIN mints : mints'[i] = mints[i]
    /\ Len(accounts) <= Len(accounts')

\* An instance of version 2 is sound, and so are its lists.
LEMMA V2Facts ==
    ASSUME InstanceInv, lido.version = "v2"
    PROVE  /\ V2IsSound
           /\ IsListAccount(accounts[lido.validator_list])
           /\ IsListAccount(accounts[lido.maintainer_list])
BY DEF InstanceInv, LidoIsSound, NoLido, AccountsAreSound, V2IsSound

\* A list account is sound when it was just allocated, and when it is saved with a list.
LEMMA AllocatedIsSound ==
    ASSUME NEW bytes \in Nat
    PROVE  IsListAccount(Allocated(bytes)) /\ Allocated(bytes).type = "Uninitialized"
BY DEF Allocated, IsListAccount, ListAccounts

LEMMA SavedIsSound ==
    ASSUME NEW a \in ListAccounts, NEW max \in Nat, NEW entries
    PROVE  /\ a.bytes >= required_bytes("validator_list", max)
                /\ IsList(ValidatorEntries, max, entries)
              => LET b == Saved(a, "validator_list", max, entries)
                 IN  IsListAccount(b) /\ b.type = "Validator"
           /\ a.bytes >= required_bytes("maintainer_list", max)
                /\ IsList(MaintainerEntries, max, entries)
              => LET b == Saved(a, "maintainer_list", max, entries)
                 IN  IsListAccount(b) /\ b.type = "Maintainer"
           /\ entries \in Seq(ValidatorEntries)
              => IsListAccount(Saved(a, "validator_perf_list", max, entries))
<1>1. /\ Types["validator_list"] = "Validator"
      /\ Types["validator_perf_list"] = "ValidatorPerf"
      /\ Types["maintainer_list"] = "Maintainer"
  BY DEF Types
<1>2. ASSUME NEW type \in {"Validator", "ValidatorPerf", "Maintainer"},
             entries \in Seq(ValidatorEntries) \cup Seq(MaintainerEntries)
      PROVE  LET b == [a EXCEPT !.type = type, !.max = max, !.entries = entries]
             IN  /\ b \in ListAccounts
                 /\ b.type = type /\ b.max = max /\ b.entries = entries /\ b.bytes = a.bytes
  BY <1>2 DEF ListAccounts
<1>3. \A E : IsList(E, max, entries) => entries \in Seq(E)
  BY DEF IsList
<1>4. ASSUME a.bytes >= required_bytes("validator_list", max),
             IsList(ValidatorEntries, max, entries)
      PROVE  LET b == Saved(a, "validator_list", max, entries)
             IN  IsListAccount(b) /\ b.type = "Validator"
  BY <1>1, <1>2, <1>3, <1>4 DEF Saved, IsListAccount
<1>5. ASSUME a.bytes >= required_bytes("maintainer_list", max),
             IsList(MaintainerEntries, max, entries)
      PROVE  LET b == Saved(a, "maintainer_list", max, entries)
             IN  IsListAccount(b) /\ b.type = "Maintainer"
  BY <1>1, <1>2, <1>3, <1>5 DEF Saved, IsListAccount
<1>6. ASSUME entries \in Seq(ValidatorEntries)
      PROVE  IsListAccount(Saved(a, "validator_perf_list", max, entries))
  BY <1>1, <1>2, <1>6 DEF Saved, IsListAccount
<1>. QED
  BY <1>4, <1>5, <1>6

\* An empty list fits.
LEMMA EmptyIsList ==
    ASSUME NEW E, NEW max \in Nat
    PROVE  IsList(E, max, <<>>)
BY DEF IsList, HasUniqueKeys

\* Bytes for lists are natural numbers.
LEMMA BytesAreNatural ==
    ASSUME NEW name \in ListNames, NEW max \in Nat
    PROVE  required_bytes(name, max) \in Nat
<1>1. EntryLen[name] \in Nat
  BY DEF EntryLen, ListNames, Types
<1>. QED
  BY <1>1 DEF required_bytes

\* A list account that was allocated with the right size and saved.
LEMMA NewListIsSound ==
    ASSUME NEW max \in Nat, NEW entries
    PROVE  /\ IsList(ValidatorEntries, max, entries)
              => LET b == Saved(Allocated(required_bytes("validator_list", max)),
                                "validator_list", max, entries)
                 IN  IsListAccount(b) /\ b.type = "Validator"
           /\ IsList(MaintainerEntries, max, entries)
              => LET b == Saved(Allocated(required_bytes("maintainer_list", max)),
                                "maintainer_list", max, entries)
                 IN  IsListAccount(b) /\ b.type = "Maintainer"
           /\ entries \in Seq(ValidatorEntries)
              => IsListAccount(Saved(Allocated(required_bytes("validator_perf_list", max)),
                                     "validator_perf_list", max, entries))
<1>1. \A name \in ListNames :
         /\ required_bytes(name, max) \in Nat
         /\ Allocated(required_bytes(name, max)) \in ListAccounts
         /\ Allocated(required_bytes(name, max)).bytes = required_bytes(name, max)
  <2>. SUFFICES ASSUME NEW name \in ListNames
                PROVE  /\ required_bytes(name, max) \in Nat
                       /\ Allocated(required_bytes(name, max)) \in ListAccounts
                       /\ Allocated(required_bytes(name, max)).bytes = required_bytes(name, max)
    OBVIOUS
  <2>1. required_bytes(name, max) \in Nat
    BY BytesAreNatural
  <2>2. IsListAccount(Allocated(required_bytes(name, max)))
    BY <2>1, AllocatedIsSound
  <2>3. Allocated(required_bytes(name, max)) \in ListAccounts
    BY <2>2 DEF IsListAccount
  <2>. QED
    BY <2>1, <2>3 DEF Allocated
<1>2. {"validator_list", "validator_perf_list", "maintainer_list"} \subseteq ListNames
  BY DEF ListNames, Types
<1>. QED
  BY <1>1, <1>2, SavedIsSound

LEMMA InitInstance == Init => InstanceInv
<1>. SUFFICES ASSUME Init
              PROVE  InstanceInv
  OBVIOUS
<1>1. SetupIsSound
  BY DEF Init, DeploymentInit, RunningInit, SetupIsSound
<1>2. mints = GivenMints /\ GivenMints \in Seq(Mint) /\ Len(GivenMints) > 0
      /\ GivenMints[1].authority = "mint_authority"
  BY DeploymentAssumption DEF Init, DeploymentInit, RunningInit
<1>3. mints \in Seq(Mint) /\ 1 \in DOMAIN mints /\ mints[1].authority = "mint_authority"
  BY <1>2
<1>4. CASE DeploymentInit /\ lido = NoLido /\ reserve = FALSE /\ tokens = <<>>
  <2>1. AccountsAreSound
    BY <1>4 DEF DeploymentInit, AccountsAreSound
  <2>2. TokensAreSound
    BY <1>3, <1>4 DEF TokensAreSound
  <2>. QED
    BY <1>1, <1>4, <2>1, <2>2 DEF InstanceInv, LidoIsSound
<1>5. CASE DeploymentInit /\ lido = LidoV1 /\ reserve = TRUE /\ tokens = <<1>>
  <2>1. AccountsAreSound
    BY <1>5 DEF DeploymentInit, AccountsAreSound
  <2>2. TokensAreSound
    BY <1>3, <1>5 DEF TokensAreSound
  <2>3. lido = [LidoV1 EXCEPT !.validators = lido.validators] /\ lido.version = "v1"
    BY <1>5 DEF LidoV1
  <2>4. IsTokenOf(1, 1)
    BY <1>5 DEF IsTokenOf
  <2>. QED
    BY <1>1, <1>3, <1>5, <2>1, <2>2, <2>3, <2>4 DEF InstanceInv, LidoIsSound, V1IsSound
<1>6. CASE RunningInit
  <2>. DEFINE none == <<>>
              val == RunningList("validator_list", Running.validators)
              perf == RunningList("validator_perf_list", none)
              main == RunningList("maintainer_list", Running.maintainers)
  <2>1. /\ MaxEntries \in Nat
        /\ IsList(ValidatorEntries, MaxEntries, Running.validators)
        /\ IsList(MaintainerEntries, MaxEntries, Running.maintainers)
        /\ none \in Seq(ValidatorEntries)
    BY DeploymentAssumption, GovernanceAssumption DEF IsList
  <2>. HIDE DEF none
  <2>2. /\ IsListAccount(val) /\ val.type = "Validator"
        /\ IsListAccount(main) /\ main.type = "Maintainer"
        /\ IsListAccount(perf)
    BY <2>1, NewListIsSound DEF RunningList
  <2>. HIDE DEF val, perf, main
  <2>3. accounts = <<val, perf, main>>
    BY <1>6 DEF RunningInit, val, perf, main, none
  <2>4. AccountsAreSound
    BY <2>2, <2>3 DEF AccountsAreSound, IsListAccount
  <2>5. tokens = <<1>> /\ reserve = TRUE
    BY <1>6 DEF RunningInit
  <2>6. TokensAreSound /\ IsTokenOf(1, 1)
    BY <1>3, <2>5 DEF TokensAreSound, IsTokenOf
  <2>7. /\ DOMAIN lido = V2Fields /\ lido.version = "v2" /\ lido.mint = 1
        /\ lido.treasury = 1 /\ lido.developer = 1
        /\ lido.validator_list = 1 /\ lido.maintainer_list = 3
        /\ lido.manager = "multisig" /\ lido.fees \in AllFees
    BY <1>6 DEF RunningInit, RunningLido, V2Fields, AllFees
  <2>8. V2IsSound
    BY <1>3, <2>2, <2>3, <2>5, <2>6, <2>7 DEF V2IsSound
  <2>. QED
    BY <1>1, <2>4, <2>5, <2>6, <2>7, <2>8 DEF InstanceInv, LidoIsSound
<1>. QED
  BY <1>4, <1>5, <1>6 DEF Init, DeploymentInit

\* Steps that change no account of the program: addresses that are in use stay what they
\* are, so that an instance stays sound.
LEMMA LidoStays ==
    ASSUME InstanceInv, AddressesStay, UNCHANGED <<lido, accounts>>, reserve => reserve'
    PROVE  AccountsAreSound' /\ LidoIsSound'
<1>1. AccountsAreSound'
  BY DEF InstanceInv, AccountsAreSound
<1>2. \A token, mint : IsTokenOf(token, mint) => token \in DOMAIN tokens' /\ tokens'[token] = mint
  BY DEF AddressesStay, IsTokenOf
<1>3. LidoIsSound
  BY DEF InstanceInv
<1>4. CASE lido = NoLido
  BY <1>1, <1>4 DEF LidoIsSound
<1>5. CASE lido.version = "v1" /\ V1IsSound
  <2>1. V1IsSound'
    BY <1>2, <1>5 DEF V1IsSound, AddressesStay, IsTokenOf
  <2>. QED
    BY <1>1, <1>5, <2>1 DEF LidoIsSound
<1>6. CASE lido.version = "v2" /\ V2IsSound
  <2>1. V2IsSound'
    BY <1>2, <1>6 DEF V2IsSound, AddressesStay, IsTokenOf
  <2>. QED
    BY <1>1, <1>6, <2>1 DEF LidoIsSound
<1>. QED
  BY <1>1, <1>3, <1>4, <1>5, <1>6 DEF LidoIsSound

LEMMA CreateSolidoStep ==
    ASSUME InstanceInv, NEW given \in BOOLEAN, NEW mint \in 0 .. Len(GivenMints),
           command_create_solido(given, mint)
    PROVE  InstanceInv' /\ AddressesStay
<1>. USE DEF command_create_solido
<1>1. AddressesStay
  BY DEF AddressesStay, InstanceInv, AccountsAreSound
<1>2. AccountsAreSound' /\ LidoIsSound'
  BY <1>1, LidoStays
<1>3. SetupIsSound'
  <2>1. CASE given
    BY <2>1 DEF SetupIsSound
  <2>2. CASE ~given
    BY <2>2 DEF SetupIsSound
  <2>. QED
    BY <2>1, <2>2
<1>. QED
  BY <1>1, <1>2, <1>3 DEF InstanceInv, TokensAreSound

LEMMA SendMintStep ==
    ASSUME InstanceInv, NEW landed \in BOOLEAN, NEW seen \in BOOLEAN, SendMint(landed, seen)
    PROVE  InstanceInv' /\ AddressesStay
<1>. DEFINE mint == [authority |-> "mint_authority", supply |-> 0]
<1>1. /\ setup.pc = "mint" /\ UNCHANGED <<lido, accounts, tokens, budget>>
      /\ setup' = IF landed /\ seen
                  THEN [setup EXCEPT !.pc = "fees", !.mint = Len(mints) + 1] ELSE Idle
  BY DEF SendMint, Continue
<1>2. IF landed THEN reserve' = TRUE /\ mints' = Append(mints, mint)
                ELSE UNCHANGED <<reserve, mints>>
  BY DEF SendMint, push_create_spl_token_mint
<1>3. mint \in Mint
  BY DEF Mint
<1>. HIDE DEF mint
<1>4. mints \in Seq(Mint) /\ tokens \in Seq(Nat) /\ reserve \in BOOLEAN
      /\ accounts \in Seq(ListAccounts) /\ \A i \in DOMAIN tokens : tokens[i] \in DOMAIN mints
  BY DEF InstanceInv, TokensAreSound, AccountsAreSound
<1>5. /\ mints' \in Seq(Mint)
      /\ DOMAIN mints \subseteq DOMAIN mints' /\ \A i \in DOMAIN mints : mints'[i] = mints[i]
      /\ landed => Len(mints) + 1 \in DOMAIN mints' /\ mints'[Len(mints) + 1] = mint
  <2>1. CASE landed
    <3>1. mints' = Append(mints, mint)
      BY <1>2, <2>1
    <3>. QED
      BY <1>3, <1>4, <3>1
  <2>2. CASE ~landed
    BY <1>2, <1>4, <2>2
  <2>. QED
    BY <2>1, <2>2
<1>6. AddressesStay
  BY <1>1, <1>4, <1>5 DEF AddressesStay
<1>7. reserve' \in BOOLEAN /\ (reserve => reserve') /\ (landed => reserve')
  BY <1>2, <1>4
<1>8. AccountsAreSound' /\ LidoIsSound'
  BY <1>1, <1>6, <1>7, LidoStays
<1>9. setup = [pc |-> "mint", mint |-> 0, given |-> FALSE]
  BY <1>1 DEF InstanceInv, SetupIsSound, Idle
<1>10. SetupIsSound'
  <2>1. CASE landed /\ seen
    <3>1. setup' = [pc |-> "fees", mint |-> Len(mints) + 1, given |-> FALSE]
      BY <1>1, <1>9, <2>1
    <3>2. check_mint(mints'[Len(mints) + 1])
      BY <1>5, <2>1 DEF check_mint, mint
    <3>. QED
      BY <1>5, <1>7, <2>1, <3>1, <3>2 DEF SetupIsSound
  <2>2. CASE ~(landed /\ seen)
    BY <1>1, <2>2 DEF SetupIsSound
  <2>. QED
    BY <2>1, <2>2
<1>11. TokensAreSound'
  BY <1>1, <1>4, <1>5 DEF TokensAreSound
<1>. QED
  BY <1>6, <1>7, <1>8, <1>10, <1>11 DEF InstanceInv

LEMMA SendFeesStep ==
    ASSUME InstanceInv, NEW landed \in BOOLEAN, NEW seen \in BOOLEAN, SendFees(landed, seen)
    PROVE  InstanceInv' /\ AddressesStay
<1>. DEFINE n == Len(tokens)
<1>1. /\ setup.pc = "fees" /\ UNCHANGED <<lido, accounts, mints, budget>>
      /\ tokens' = IF landed THEN tokens \o <<setup.mint, setup.mint>> ELSE tokens
      /\ reserve' = (reserve \/ (landed /\ setup.given))
      /\ setup' = IF landed /\ seen
                  THEN [pc |-> "init", mint |-> setup.mint, given |-> setup.given,
                        treasury |-> n + 1, developer |-> n + 2] ELSE Idle
  BY DEF SendFees, Continue, FundsReserve
<1>2. mints \in Seq(Mint) /\ tokens \in Seq(Nat) /\ reserve \in BOOLEAN
      /\ accounts \in Seq(ListAccounts) /\ \A i \in DOMAIN tokens : tokens[i] \in DOMAIN mints
  BY DEF InstanceInv, TokensAreSound, AccountsAreSound
<1>3. /\ setup.mint \in DOMAIN mints /\ setup.given \in BOOLEAN
      /\ ~setup.given => reserve /\ check_mint(mints[setup.mint])
  BY <1>1 DEF InstanceInv, SetupIsSound, Idle
<1>4. setup.mint \in Nat
  BY <1>2, <1>3
<1>5. /\ tokens' \in Seq(Nat)
      /\ DOMAIN tokens \subseteq DOMAIN tokens' /\ \A i \in DOMAIN tokens : tokens'[i] = tokens[i]
      /\ landed => /\ DOMAIN tokens' = 1 .. (n + 2)
                   /\ tokens'[n + 1] = setup.mint /\ tokens'[n + 2] = setup.mint
      /\ ~landed => tokens' = tokens
  BY <1>1, <1>2, <1>4, SMTT(30)
<1>6. n \in Nat /\ DOMAIN tokens = 1 .. n
  BY <1>2
<1>. HIDE DEF n
<1>7. AddressesStay
  BY <1>1, <1>2, <1>5 DEF AddressesStay
<1>8. reserve' \in BOOLEAN /\ (reserve => reserve') /\ (landed => reserve')
  BY <1>1, <1>2, <1>3
<1>9. AccountsAreSound' /\ LidoIsSound'
  BY <1>1, <1>7, <1>8, LidoStays
<1>10. SetupIsSound'
  <2>1. CASE landed /\ seen
    <3>1. setup' = [pc |-> "init", mint |-> setup.mint, given |-> setup.given,
                    treasury |-> n + 1, developer |-> n + 2]
      BY <1>1, <2>1
    <3>2. /\ n + 1 \in DOMAIN tokens' /\ tokens'[n + 1] = setup.mint
          /\ n + 2 \in DOMAIN tokens' /\ tokens'[n + 2] = setup.mint
      BY <1>5, <1>6, <2>1
    <3>3. /\ setup.mint \in DOMAIN mints' /\ reserve' /\ setup.given \in BOOLEAN
          /\ ~setup.given => check_mint(mints'[setup.mint])
      BY <1>1, <1>3, <1>8, <2>1
    <3>. QED
      BY <3>1, <3>2, <3>3 DEF SetupIsSound, IsTokenOf
  <2>2. CASE ~(landed /\ seen)
    BY <1>1, <2>2 DEF SetupIsSound
  <2>. QED
    BY <2>1, <2>2
<1>11. TokensAreSound'
  <2>1. ASSUME NEW i \in DOMAIN tokens'
        PROVE  tokens'[i] \in DOMAIN mints
    <3>1. CASE i \in DOMAIN tokens
      BY <1>2, <1>5, <3>1
    <3>2. CASE i \notin DOMAIN tokens
      <4>1. landed
        BY <1>5, <3>2
      <4>2. i = n + 1 \/ i = n + 2
        BY <1>5, <1>6, <3>2, <4>1
      <4>. QED
        BY <1>3, <1>5, <4>1, <4>2
    <3>. QED
      BY <3>1, <3>2
  <2>. QED
    BY <1>1, <1>2, <1>5, <2>1 DEF TokensAreSound
<1>. QED
  BY <1>7, <1>8, <1>9, <1>10, <1>11 DEF InstanceInv

\* Steps that change no token: what the set-up has put in place stays.
LEMMA SetupStays ==
    ASSUME InstanceInv, UNCHANGED <<reserve, mints, tokens, setup>>
    PROVE  TokensAreSound' /\ SetupIsSound' /\ reserve' \in BOOLEAN
BY DEF InstanceInv, TokensAreSound, SetupIsSound, IsTokenOf

LEMMA SendInitStep ==
    ASSUME InstanceInv, NEW landed \in BOOLEAN, NEW fees \in FeeOptions,
           NEW criteria \in CriteriaOptions, SendInit(landed, fees, criteria)
    PROVE  InstanceInv' /\ AddressesStay
<1>1. setup.pc = "init" /\ setup' = Idle /\ UNCHANGED <<reserve, mints, tokens, budget>>
  BY DEF SendInit
<1>2. TokensAreSound' /\ SetupIsSound' /\ reserve' \in BOOLEAN
  BY <1>1 DEF InstanceInv, TokensAreSound, SetupIsSound
<1>3. CASE ~landed
  <2>1. UNCHANGED <<lido, accounts>>
    BY <1>3 DEF SendInit
  <2>2. AddressesStay
    BY <1>1, <2>1 DEF AddressesStay, InstanceInv, AccountsAreSound
  <2>. QED
    BY <1>1, <1>2, <2>1, <2>2, LidoStays DEF InstanceInv
<1>4. CASE landed
  <2>. DEFINE n == Len(accounts)
              none == <<>>
              val == Saved(NewLists["validator_list"], "validator_list", MaxEntries, none)
              perf == Saved(NewLists["validator_perf_list"], "validator_perf_list",
                            MaxEntries, none)
              main == Saved(NewLists["maintainer_list"], "maintainer_list", MaxEntries, none)
  <2>1. process_initialize(NewLists, setup, fees, criteria)
    BY <1>4 DEF SendInit
  <2>2. /\ accounts' = accounts \o <<val, perf, main>>
        /\ lido' = [version |-> "v2", manager |-> "multisig", mint |-> setup.mint,
                    treasury |-> setup.treasury, developer |-> setup.developer,
                    fees |-> fees, criteria |-> criteria,
                    validator_list |-> n + 1, validator_perf_list |-> n + 2,
                    maintainer_list |-> n + 3]
        /\ mints[setup.mint].authority = "mint_authority"
    BY <2>1 DEF process_initialize, CanInitialize, check_mint
  <2>3. /\ IsList(ValidatorEntries, MaxEntries, none)
        /\ IsList(MaintainerEntries, MaxEntries, none)
        /\ none \in Seq(ValidatorEntries)
        /\ MaxEntries \in Nat
    BY EmptyIsList, DeploymentAssumption DEF IsList
  <2>. HIDE DEF none
  <2>4. /\ NewLists["validator_list"] = Allocated(required_bytes("validator_list", MaxEntries))
        /\ NewLists["validator_perf_list"]
              = Allocated(required_bytes("validator_perf_list", MaxEntries))
        /\ NewLists["maintainer_list"] = Allocated(required_bytes("maintainer_list", MaxEntries))
    BY DEF NewLists, ListNames, Types
  <2>5. /\ IsListAccount(val) /\ val.type = "Validator"
        /\ IsListAccount(main) /\ main.type = "Maintainer"
        /\ IsListAccount(perf)
    BY <2>3, <2>4, NewListIsSound
  <2>. HIDE DEF val, perf, main
  <2>6. val \in ListAccounts /\ perf \in ListAccounts /\ main \in ListAccounts
    BY <2>5 DEF IsListAccount
  <2>7. accounts \in Seq(ListAccounts)
    BY DEF InstanceInv, AccountsAreSound
  <2>8. /\ accounts' \in Seq(ListAccounts) /\ n \in Nat
        /\ Len(accounts') = n + 3
        /\ DOMAIN accounts = 1 .. n /\ DOMAIN accounts' = 1 .. (n + 3)
        /\ \A i \in 1 .. n : accounts'[i] = accounts[i]
        /\ accounts'[n + 1] = val /\ accounts'[n + 2] = perf /\ accounts'[n + 3] = main
    BY <2>2, <2>6, <2>7
  <2>. HIDE DEF n
  <2>9. AccountsAreSound'
    <3>1. ASSUME NEW i \in DOMAIN accounts'
          PROVE  IsListAccount(accounts'[i])
      <4>1. CASE i \in 1 .. n
        BY <2>8, <4>1 DEF InstanceInv, AccountsAreSound
      <4>2. CASE i = n + 1 \/ i = n + 2 \/ i = n + 3
        BY <2>5, <2>8, <4>2
      <4>. QED
        BY <2>8, <4>1, <4>2
    <3>. QED
      BY <2>8, <3>1 DEF AccountsAreSound
  <2>10. AddressesStay
    BY <1>1, <2>8 DEF AddressesStay, n
  <2>11. /\ setup.mint \in DOMAIN mints /\ reserve
         /\ IsTokenOf(setup.treasury, setup.mint) /\ IsTokenOf(setup.developer, setup.mint)
    BY <1>1 DEF InstanceInv, SetupIsSound, Idle
  <2>12. V2IsSound'
    <3>1. DOMAIN lido' = V2Fields
      BY <2>2 DEF V2Fields
    <3>2. /\ lido'.mint = setup.mint /\ lido'.treasury = setup.treasury
          /\ lido'.developer = setup.developer
          /\ lido'.validator_list = n + 1 /\ lido'.maintainer_list = n + 3
          /\ lido'.manager = "multisig" /\ lido'.fees \in AllFees
      BY <2>2 DEF AllFees
    <3>3. /\ n + 1 \in DOMAIN accounts' /\ accounts'[n + 1].type = "Validator"
          /\ n + 3 \in DOMAIN accounts' /\ accounts'[n + 3].type = "Maintainer"
      BY <2>5, <2>8
    <3>. QED
      BY <1>1, <2>2, <2>11, <3>1, <3>2, <3>3 DEF V2IsSound, IsTokenOf
  <2>13. lido'.version = "v2"
    BY <2>2
  <2>. QED
    BY <1>2, <2>9, <2>10, <2>12, <2>13 DEF InstanceInv, LidoIsSound
<1>. QED
  BY <1>3, <1>4

\* A new account is added to those of the program.
LEMMA CreateAccountsStep ==
    ASSUME InstanceInv, NEW mint \in DOMAIN mints, command_create_v2_accounts(mint)
    PROVE  InstanceInv' /\ AddressesStay
<1>. DEFINE a == Allocated(required_bytes("validator_list", 50000))
            b == Allocated(required_bytes("maintainer_list", 5000))
<1>1. /\ lido.version = "v1" /\ accounts = <<>>
      /\ tokens' = Append(tokens, mint)
      /\ accounts' = accounts \o <<a, b>>
      /\ UNCHANGED <<lido, reserve, mints, setup>>
  BY DEF command_create_v2_accounts, push_create_spl_token_account
<1>2. IsListAccount(a) /\ IsListAccount(b)
  <2>1. {"validator_list", "maintainer_list"} \subseteq ListNames
    BY DEF ListNames, Types
  <2>2. required_bytes("validator_list", 50000) \in Nat
        /\ required_bytes("maintainer_list", 5000) \in Nat
    BY <2>1, BytesAreNatural
  <2>. QED
    BY <2>2, AllocatedIsSound
<1>. HIDE DEF a, b
<1>3. accounts' = <<a, b>>
  BY <1>1
<1>4. AccountsAreSound'
  BY <1>2, <1>3 DEF AccountsAreSound, IsListAccount
<1>5. mints \in Seq(Mint) /\ tokens \in Seq(Nat) /\ mint \in Nat
      /\ \A i \in DOMAIN tokens : tokens[i] \in DOMAIN mints
  BY DEF InstanceInv, TokensAreSound
<1>6. /\ tokens' \in Seq(Nat) /\ DOMAIN tokens = 1 .. Len(tokens) /\ Len(tokens) \in Nat
      /\ DOMAIN tokens' = 1 .. (Len(tokens) + 1)
      /\ \A i \in 1 .. Len(tokens) : tokens'[i] = tokens[i]
      /\ tokens'[Len(tokens) + 1] = mint
  BY <1>1, <1>5
<1>7. TokensAreSound'
  <2>1. ASSUME NEW i \in DOMAIN tokens'
        PROVE  tokens'[i] \in DOMAIN mints
    <3>1. CASE i \in 1 .. Len(tokens)
      BY <1>5, <1>6, <3>1
    <3>2. CASE i = Len(tokens) + 1
      BY <1>6, <3>2
    <3>. QED
      BY <1>6, <3>1, <3>2
  <2>. QED
    BY <1>1, <1>5, <1>6, <2>1 DEF TokensAreSound
<1>8. DOMAIN tokens \subseteq DOMAIN tokens' /\ \A i \in DOMAIN tokens : tokens'[i] = tokens[i]
  BY <1>6
<1>9. AddressesStay
  BY <1>1, <1>3, <1>8 DEF AddressesStay
<1>10. \A token, m : IsTokenOf(token, m) => token \in DOMAIN tokens' /\ tokens'[token] = m
  BY <1>8 DEF IsTokenOf
<1>11. V1IsSound
  BY <1>1 DEF InstanceInv, LidoIsSound, NoLido
<1>12. LidoIsSound'
  BY <1>1, <1>10, <1>11 DEF LidoIsSound, V1IsSound, IsTokenOf
<1>13. SetupIsSound'
  <2>1. SetupIsSound
    BY DEF InstanceInv
  <2>. QED
    BY <1>1, <1>10, <2>1 DEF SetupIsSound, IsTokenOf
<1>. QED
  BY <1>1, <1>4, <1>7, <1>9, <1>12, <1>13 DEF InstanceInv

LEMMA CreatePerfListStep ==
    ASSUME InstanceInv, NEW bytes \in PerfListSizes, CreatePerfList(bytes)
    PROVE  InstanceInv' /\ AddressesStay
<1>. DEFINE a == Allocated(bytes)
<1>1. /\ lido.version = "v1" /\ accounts' = Append(accounts, a)
      /\ UNCHANGED <<lido, reserve, mints, tokens, setup>>
  BY DEF CreatePerfList
<1>2. IsListAccount(a)
  BY DeploymentAssumption, AllocatedIsSound
<1>. HIDE DEF a
<1>3. a \in ListAccounts /\ accounts \in Seq(ListAccounts)
      /\ \A i \in DOMAIN accounts : IsListAccount(accounts[i])
  BY <1>2 DEF InstanceInv, AccountsAreSound, IsListAccount
<1>4. /\ accounts' \in Seq(ListAccounts) /\ Len(accounts) \in Nat
      /\ Len(accounts') = Len(accounts) + 1
      /\ DOMAIN accounts = 1 .. Len(accounts) /\ DOMAIN accounts' = 1 .. (Len(accounts) + 1)
      /\ \A i \in 1 .. Len(accounts) : accounts'[i] = accounts[i]
      /\ accounts'[Len(accounts) + 1] = a
  BY <1>1, <1>3
<1>5. AccountsAreSound'
  <2>1. ASSUME NEW i \in DOMAIN accounts'
        PROVE  IsListAccount(accounts'[i])
    <3>1. CASE i \in 1 .. Len(accounts)
      BY <1>3, <1>4, <3>1
    <3>2. CASE i = Len(accounts) + 1
      BY <1>2, <1>4, <3>2
    <3>. QED
      BY <1>4, <3>1, <3>2
  <2>. QED
    BY <1>4, <2>1 DEF AccountsAreSound
<1>6. V1IsSound
  BY <1>1 DEF InstanceInv, LidoIsSound, NoLido
<1>7. LidoIsSound'
  BY <1>1, <1>6 DEF LidoIsSound, V1IsSound, IsTokenOf
<1>8. AddressesStay
  BY <1>1, <1>4 DEF AddressesStay
<1>. QED
  BY <1>1, <1>5, <1>7, <1>8, SetupStays DEF InstanceInv

LEMMA DrainV1Step ==
    ASSUME InstanceInv, DrainV1
    PROVE  InstanceInv' /\ AddressesStay
<1>1. /\ lido.version = "v1" /\ lido' = [lido EXCEPT !.validators = {}]
      /\ UNCHANGED <<accounts, reserve, mints, tokens, setup>>
  BY DEF DrainV1
<1>2. V1IsSound
  BY <1>1 DEF InstanceInv, LidoIsSound, NoLido
<1>3. lido' = [LidoV1 EXCEPT !.validators = lido'.validators] /\ lido'.version = "v1"
  BY <1>1, <1>2 DEF V1IsSound, LidoV1
<1>4. LidoIsSound'
  BY <1>1, <1>2, <1>3 DEF LidoIsSound, V1IsSound, IsTokenOf
<1>5. AccountsAreSound'
  BY <1>1 DEF InstanceInv, AccountsAreSound
<1>6. AddressesStay
  BY <1>1 DEF AddressesStay, InstanceInv, AccountsAreSound
<1>. QED
  BY <1>1, <1>4, <1>5, <1>6, SetupStays DEF InstanceInv

LEMMA SetUpStep ==
    ASSUME InstanceInv, Set_up
    PROVE  InstanceInv' /\ AddressesStay
BY CreateSolidoStep, SendMintStep, SendFeesStep, SendInitStep, CreateAccountsStep,
   CreatePerfListStep, DrainV1Step DEF Set_up

-----------------------------------------------------------------------------
(* The instance: handlers *)

\* What `lido` and `accounts` do not contain stays.
ElseStays == UNCHANGED <<reserve, mints, tokens, setup>>

EntryType(name) == IF name = "validator_list" THEN ValidatorEntries ELSE MaintainerEntries

TheLists == {"validator_list", "maintainer_list"}

\* The entries of the two lists.
LEMMA ListFacts ==
    ASSUME InstanceInv, lido.version = "v2", NEW name \in TheLists
    PROVE  LET a == accounts[lido[name]]
           IN  /\ lido[name] \in DOMAIN accounts
               /\ a \in ListAccounts /\ a.max \in Nat
               /\ a.type = Types[name]
               /\ IsList(EntryType(name), a.max, Entries(name))
               /\ a.bytes >= required_bytes(name, a.max)
<1>1. /\ V2IsSound
      /\ IsListAccount(accounts[lido.validator_list])
      /\ IsListAccount(accounts[lido.maintainer_list])
  BY V2Facts
<1>2. Types["validator_list"] = "Validator" /\ Types["maintainer_list"] = "Maintainer"
  BY DEF Types
<1>3. \A a \in ListAccounts : a.max \in Nat
  BY DEF ListAccounts
<1>4. CASE name = "validator_list"
  BY <1>1, <1>2, <1>3, <1>4 DEF V2IsSound, IsListAccount, EntryType, Entries
<1>5. CASE name = "maintainer_list"
  BY <1>1, <1>2, <1>3, <1>5 DEF V2IsSound, IsListAccount, EntryType, Entries
<1>. QED
  BY <1>4, <1>5 DEF TheLists

\* Saving a list that fits its account keeps the instance sound, and changes no other list.
LEMMA SaveListStep ==
    ASSUME InstanceInv, lido.version = "v2", NEW name \in TheLists, NEW new,
           IsList(EntryType(name), accounts[lido[name]].max, new),
           SaveEntries(name, new), ElseStays
    PROVE  /\ InstanceInv' /\ AddressesStay
           /\ lido' = lido
           /\ Entries(name)' = new
           /\ \A other \in TheLists : other # name => Entries(other)' = Entries(other)
<1>. DEFINE p == lido[name]
            a == accounts[p]
            b == [a EXCEPT !.entries = new]
<1>1. /\ p \in DOMAIN accounts /\ a \in ListAccounts /\ a.max \in Nat
      /\ a.type = Types[name] /\ a.bytes >= required_bytes(name, a.max)
  BY ListFacts
<1>2. accounts' = [accounts EXCEPT ![p] = b] /\ lido' = lido
  BY DEF SaveEntries
<1>3. IsList(EntryType(name), a.max, new)
  OBVIOUS
<1>4. /\ b \in ListAccounts /\ b.type = a.type /\ b.max = a.max /\ b.bytes = a.bytes
      /\ b.entries = new
  <2>1. new \in Seq(ValidatorEntries) \cup Seq(MaintainerEntries)
    BY <1>3 DEF IsList, EntryType
  <2>. QED
    BY <1>1, <2>1 DEF ListAccounts
<1>5. accounts \in Seq(ListAccounts) /\ \A i \in DOMAIN accounts : IsListAccount(accounts[i])
  BY DEF InstanceInv, AccountsAreSound
<1>. HIDE DEF b
<1>6. /\ accounts' \in Seq(ListAccounts) /\ DOMAIN accounts' = DOMAIN accounts
      /\ Len(accounts') = Len(accounts) /\ Len(accounts) \in Nat
      /\ accounts'[p] = b
      /\ \A i \in DOMAIN accounts : i # p => accounts'[i] = accounts[i]
  BY <1>1, <1>2, <1>4, <1>5
<1>7. IsListAccount(b)
  <2>1. CASE name = "validator_list"
    BY <1>1, <1>3, <1>4, <2>1 DEF IsListAccount, EntryType, Types
  <2>2. CASE name = "maintainer_list"
    BY <1>1, <1>3, <1>4, <2>2 DEF IsListAccount, EntryType, Types
  <2>. QED
    BY <2>1, <2>2 DEF TheLists
<1>. HIDE DEF p, a
<1>8. AccountsAreSound'
  BY <1>5, <1>6, <1>7 DEF AccountsAreSound
<1>9. AddressesStay
  BY <1>6 DEF AddressesStay, ElseStays
<1>10. \A i \in DOMAIN accounts : accounts'[i].type = accounts[i].type
  BY <1>4, <1>6 DEF a
<1>11. LidoIsSound'
  <2>1. V2IsSound
    BY V2Facts
  <2>2. V2IsSound'
    BY <1>2, <1>6, <1>10, <2>1 DEF V2IsSound, ElseStays, IsTokenOf
  <2>. QED
    BY <1>2, <2>2 DEF LidoIsSound
<1>12. InstanceInv'
  BY <1>8, <1>11, SetupStays DEF InstanceInv, ElseStays
<1>13. Entries(name)' = new
  BY <1>2, <1>4, <1>6 DEF Entries, p
<1>14. ASSUME NEW other \in TheLists, other # name
       PROVE  Entries(other)' = Entries(other)
  <2>1. lido[other] \in DOMAIN accounts /\ accounts[lido[other]].type = Types[other]
    BY ListFacts
  <2>2. Types[other] # Types[name]
    BY <1>14 DEF Types, TheLists
  <2>3. lido[other] # p
    BY <1>1, <2>1, <2>2 DEF a, p
  <2>. QED
    BY <1>2, <1>6, <2>1, <2>3 DEF Entries
<1>. QED
  BY <1>2, <1>9, <1>12, <1>13, <1>14

\* The status of a validator, after an instruction that leaves it in the list.
StatusByKind(ins, v) ==
    \/ StatusOf(v)' = StatusOf(v)
    \/ /\ StatusOf(v)' = "PendingRemoval"
       /\ ins.kind = "EnqueueValidatorForRemoval" /\ ins.key = v
    \/ StatusOf(v)' = "StakesSuspended" /\ ins.kind = "DeactivateValidator" /\ ins.key = v
    \/ StatusOf(v) = "StakesSuspended" /\ StatusOf(v)' = "AcceptingStakes"

\* What an instruction may change on an instance of version 2: only what it is for, to
\* what it says, and only the entry that it names.
ChangesByKind(ins) ==
    /\ lido'.version = "v2"
    /\ lido' # lido => /\ ins.kind \in {"ChangeCriteria", "ChangeRewardDistribution"}
                       /\ lido' = ChangedLido(ins)
    /\ \A m \in Keys(Entries("maintainer_list")) \ Keys(Entries("maintainer_list")') :
          ins.kind = "RemoveMaintainer" /\ ins.key = m
    /\ \A m \in Keys(Entries("maintainer_list")') \ Keys(Entries("maintainer_list")) :
          ins.kind = "AddMaintainer" /\ ins.key = m
    /\ \A v \in Keys(Entries("validator_list")') \ Keys(Entries("validator_list")) :
          ins.kind = "AddValidator" /\ ins.key = v
    /\ \A v \in Keys(Entries("validator_list")) \ Keys(Entries("validator_list")') :
          StatusOf(v) = "PendingRemoval"
    /\ \A v \in Keys(Entries("validator_list")) \cap Keys(Entries("validator_list")') :
          StatusByKind(ins, v)

LEMMA AddMaintainerStep ==
    ASSUME InstanceInv, NEW ins, ins.key \in Maintainers, NEW manager,
           process_add_maintainer(ins, manager), ElseStays
    PROVE  InstanceInv' /\ AddressesStay /\ ChangesByKind(ins)
<1>. DEFINE list == Entries("maintainer_list")
            max == accounts[lido.maintainer_list].max
            e == [pubkey |-> ins.key]
            new == Append(list, e)
<1>1. /\ ins.kind = "AddMaintainer" /\ lido.version = "v2"
      /\ CanPush(list, max, ins.key)
      /\ SaveEntries("maintainer_list", new)
  BY DEF process_add_maintainer, deserialize_account_list_info, deserialize_lido
<1>2. max \in Nat /\ IsList(MaintainerEntries, max, list)
  BY <1>1, ListFacts DEF TheLists, EntryType
<1>3. e \in MaintainerEntries /\ e.pubkey = ins.key
  BY DEF MaintainerEntries
<1>4. Pushes(list, e, new)
  BY DEF Pushes
<1>. HIDE DEF list, max, e, new
<1>5. IsList(MaintainerEntries, max, new) /\ Keys(new) = Keys(list) \cup {ins.key}
  BY <1>1, <1>2, <1>3, <1>4, PushEntry
<1>6. /\ InstanceInv' /\ AddressesStay /\ lido' = lido
      /\ Entries("maintainer_list")' = new
      /\ Entries("validator_list")' = Entries("validator_list")
  BY <1>1, <1>5, SaveListStep DEF TheLists, EntryType, max
<1>7. \A v : StatusOf(v)' = StatusOf(v)
  BY <1>6 DEF StatusOf
<1>. QED
  BY <1>1, <1>5, <1>6, <1>7 DEF ChangesByKind, StatusByKind, list

LEMMA RemoveMaintainerStep ==
    ASSUME InstanceInv, NEW ins, NEW manager,
           process_remove_maintainer(ins, manager), ElseStays
    PROVE  InstanceInv' /\ AddressesStay /\ ChangesByKind(ins)
<1>. DEFINE list == Entries("maintainer_list")
            max == accounts[lido.maintainer_list].max
            new == SwapRemove(list, ins.index)
<1>1. /\ ins.kind = "RemoveMaintainer" /\ lido.version = "v2"
      /\ ins.index \in DOMAIN list /\ list[ins.index].pubkey = ins.key
      /\ SaveEntries("maintainer_list", new)
  BY DEF process_remove_maintainer, deserialize_account_list_info, deserialize_lido, IsAt
<1>2. max \in Nat /\ IsList(MaintainerEntries, max, list)
  BY <1>1, ListFacts DEF TheLists, EntryType
<1>3. Removes(list, ins.index, new)
  BY DEF Removes
<1>. HIDE DEF list, max, new
<1>4. IsList(MaintainerEntries, max, new) /\ Keys(new) = Keys(list) \ {ins.key}
  BY <1>1, <1>2, <1>3, RemoveEntry
<1>5. /\ InstanceInv' /\ AddressesStay /\ lido' = lido
      /\ Entries("maintainer_list")' = new
      /\ Entries("validator_list")' = Entries("validator_list")
  BY <1>1, <1>4, SaveListStep DEF TheLists, EntryType, max
<1>6. \A v : StatusOf(v)' = StatusOf(v)
  BY <1>5 DEF StatusOf
<1>. QED
  BY <1>1, <1>4, <1>5, <1>6 DEF ChangesByKind, StatusByKind, list

\* Saving the validators: the maintainers stay, and the status of a validator is that of
\* its entry.
LEMMA SaveValidators ==
    ASSUME InstanceInv, lido.version = "v2", NEW new,
           IsList(ValidatorEntries, accounts[lido.validator_list].max, new),
           SaveEntries("validator_list", new), ElseStays
    PROVE  /\ InstanceInv' /\ AddressesStay /\ lido' = lido
           /\ Entries("validator_list")' = new
           /\ Entries("maintainer_list")' = Entries("maintainer_list")
           /\ \A v : /\ StatusOf(v) = EntryFor(Entries("validator_list"), v).status
                     /\ StatusOf(v)' = EntryFor(new, v).status
<1>1. /\ InstanceInv' /\ AddressesStay /\ lido' = lido
      /\ Entries("validator_list")' = new
      /\ Entries("maintainer_list")' = Entries("maintainer_list")
  BY SaveListStep DEF TheLists, EntryType
<1>. QED
  BY <1>1 DEF StatusOf, EntryFor

LEMMA AddValidatorStep ==
    ASSUME InstanceInv, NEW ins, ins.key \in Votes, NEW manager,
           process_add_validator(ins, manager), ElseStays
    PROVE  InstanceInv' /\ AddressesStay /\ ChangesByKind(ins)
<1>. DEFINE list == Entries("validator_list")
            max == accounts[lido.validator_list].max
            e == [pubkey |-> ins.key, status |-> "AcceptingStakes"]
            new == Append(list, e)
<1>1. /\ ins.kind = "AddValidator" /\ lido.version = "v2"
      /\ CanPush(list, max, ins.key)
      /\ SaveEntries("validator_list", new)
  BY DEF process_add_validator, deserialize_account_list_info, deserialize_lido
<1>2. max \in Nat /\ IsList(ValidatorEntries, max, list)
  BY <1>1, ListFacts DEF TheLists, EntryType
<1>3. e \in ValidatorEntries /\ e.pubkey = ins.key
  BY DEF ValidatorEntries
<1>4. Pushes(list, e, new)
  BY DEF Pushes
<1>. HIDE DEF list, max, e, new
<1>5. /\ IsList(ValidatorEntries, max, new)
      /\ Keys(new) = Keys(list) \cup {ins.key}
      /\ SameBut(ins.key, list, new)
  BY <1>1, <1>2, <1>3, <1>4, PushEntry
<1>6. /\ InstanceInv' /\ AddressesStay /\ lido' = lido
      /\ Entries("validator_list")' = new
      /\ Entries("maintainer_list")' = Entries("maintainer_list")
      /\ \A v : StatusOf(v) = EntryFor(list, v).status /\ StatusOf(v)' = EntryFor(new, v).status
  BY <1>1, <1>5, SaveValidators DEF max, list
<1>7. ins.key \notin Keys(list)
  BY <1>1 DEF CanPush
<1>8. \A v \in Keys(list) : StatusOf(v)' = StatusOf(v)
  BY <1>5, <1>6, <1>7 DEF SameBut
<1>. QED
  BY <1>1, <1>5, <1>6, <1>8 DEF ChangesByKind, StatusByKind, list

LEMMA RemoveValidatorStep ==
    ASSUME InstanceInv, NEW ins, process_remove_validator(ins), ElseStays
    PROVE  InstanceInv' /\ AddressesStay /\ ChangesByKind(ins)
<1>. DEFINE list == Entries("validator_list")
            max == accounts[lido.validator_list].max
            new == SwapRemove(list, ins.index)
<1>1. /\ ins.kind = "RemoveValidator" /\ lido.version = "v2"
      /\ ins.index \in DOMAIN list /\ list[ins.index].pubkey = ins.key
      /\ list[ins.index].status = "PendingRemoval"
      /\ SaveEntries("validator_list", new)
  BY DEF process_remove_validator, deserialize_account_list_info, deserialize_lido, IsAt
<1>2. max \in Nat /\ IsList(ValidatorEntries, max, list)
  BY <1>1, ListFacts DEF TheLists, EntryType
<1>3. Removes(list, ins.index, new)
  BY DEF Removes
<1>. HIDE DEF list, max, new
<1>4. /\ IsList(ValidatorEntries, max, new)
      /\ Keys(new) = Keys(list) \ {ins.key}
      /\ SameBut(ins.key, list, new)
  BY <1>1, <1>2, <1>3, RemoveEntry
<1>5. /\ InstanceInv' /\ AddressesStay /\ lido' = lido
      /\ Entries("validator_list")' = new
      /\ Entries("maintainer_list")' = Entries("maintainer_list")
      /\ \A v : StatusOf(v) = EntryFor(list, v).status /\ StatusOf(v)' = EntryFor(new, v).status
  BY <1>1, <1>4, SaveValidators DEF max, list
<1>6. Position(list, ins.key) = ins.index
  BY <1>1, <1>2, PositionIsUnique DEF IsList
<1>7. StatusOf(ins.key) = "PendingRemoval"
  BY <1>1, <1>5, <1>6 DEF EntryFor
<1>8. \A v \in Keys(list) : v # ins.key => StatusOf(v)' = StatusOf(v)
  BY <1>4, <1>5 DEF SameBut
<1>. QED
  BY <1>1, <1>4, <1>5, <1>7, <1>8 DEF ChangesByKind, StatusByKind, list

\* A new status for the validator that is named.
LEMMA SetStatusStep ==
    ASSUME InstanceInv, NEW ins, NEW from,
           NEW status \in {"AcceptingStakes", "StakesSuspended", "PendingRemoval"},
           \/ ins.kind = "EnqueueValidatorForRemoval" /\ status = "PendingRemoval"
           \/ ins.kind = "DeactivateValidator" /\ status = "StakesSuspended"
           \/ from = {"StakesSuspended"} /\ status = "AcceptingStakes",
           SetStatus(ins, from, status), ElseStays
    PROVE  InstanceInv' /\ AddressesStay /\ ChangesByKind(ins)
<1>. DEFINE list == Entries("validator_list")
            max == accounts[lido.validator_list].max
            p == ins.index
            e == [list[p] EXCEPT !.status = IF @ \in from THEN status ELSE @]
            new == [list EXCEPT ![p].status = IF @ \in from THEN status ELSE @]
<1>1. /\ lido.version = "v2"
      /\ p \in DOMAIN list /\ list[p].pubkey = ins.key
      /\ SaveEntries("validator_list", new)
  BY DEF SetStatus, deserialize_account_list_info, deserialize_lido, IsAt
<1>2. max \in Nat /\ IsList(ValidatorEntries, max, list)
  BY <1>1, ListFacts DEF TheLists, EntryType
<1>3. /\ e \in ValidatorEntries /\ e.pubkey = ins.key
      /\ e.status = IF list[p].status \in from THEN status ELSE list[p].status
  <2>1. list[p] \in ValidatorEntries
    BY <1>1, <1>2 DEF IsList
  <2>. QED
    BY <1>1, <2>1 DEF ValidatorEntries
<1>4. Overwrites(list, p, e, new)
  BY <1>1 DEF Overwrites
<1>. HIDE DEF list, max, e, new, p
<1>5. /\ IsList(ValidatorEntries, max, new)
      /\ Keys(new) = Keys(list)
      /\ EntryFor(new, ins.key) = e
      /\ SameBut(ins.key, list, new)
  BY <1>1, <1>2, <1>3, <1>4, WriteEntry
<1>6. /\ InstanceInv' /\ AddressesStay /\ lido' = lido
      /\ Entries("validator_list")' = new
      /\ Entries("maintainer_list")' = Entries("maintainer_list")
      /\ \A v : StatusOf(v) = EntryFor(list, v).status /\ StatusOf(v)' = EntryFor(new, v).status
  BY <1>1, <1>5, SaveValidators DEF max, list
<1>7. \A v \in Keys(list) : v # ins.key => StatusOf(v)' = StatusOf(v)
  BY <1>5, <1>6 DEF SameBut
<1>8. EntryFor(list, ins.key) = list[p]
  BY <1>1, <1>2, PositionIsUnique DEF EntryFor, IsList
<1>9. StatusOf(ins.key)' = IF StatusOf(ins.key) \in from THEN status ELSE StatusOf(ins.key)
  BY <1>3, <1>5, <1>6, <1>8
<1>10. \A v \in Keys(list) : StatusByKind(ins, v)
  BY <1>7, <1>9 DEF StatusByKind
<1>. QED
  BY <1>1, <1>5, <1>6, <1>10 DEF ChangesByKind, list

\* Changes of the instance itself, which leave its lists alone.
LEMMA ChangeLidoStep ==
    ASSUME InstanceInv, lido.version = "v2", UNCHANGED accounts, ElseStays,
           DOMAIN lido' = DOMAIN lido,
           \A f \in {"version", "manager", "mint", "validator_list", "maintainer_list"} :
              lido'[f] = lido[f],
           lido'.fees \in AllFees,
           IsTokenOf(lido'.treasury, lido.mint), IsTokenOf(lido'.developer, lido.mint),
           NEW ins, ins.kind \in {"ChangeCriteria", "ChangeRewardDistribution"},
           lido' = ChangedLido(ins)
    PROVE  InstanceInv' /\ AddressesStay /\ ChangesByKind(ins)
<1>1. V2IsSound
  BY V2Facts
<1>2. V2IsSound' /\ lido'.version = "v2"
  BY <1>1 DEF V2IsSound, ElseStays, IsTokenOf
<1>3. AccountsAreSound' /\ AddressesStay
  BY DEF InstanceInv, AccountsAreSound, AddressesStay, ElseStays
<1>4. InstanceInv'
  BY <1>2, <1>3, SetupStays DEF InstanceInv, ElseStays, LidoIsSound
<1>5. /\ Entries("validator_list")' = Entries("validator_list")
      /\ Entries("maintainer_list")' = Entries("maintainer_list")
  BY DEF Entries
<1>6. \A v : StatusOf(v)' = StatusOf(v)
  BY <1>5 DEF StatusOf
<1>. QED
  BY <1>2, <1>3, <1>4, <1>5, <1>6 DEF ChangesByKind, StatusByKind

LEMMA ChangeCriteriaStep ==
    ASSUME InstanceInv, NEW ins, NEW manager,
           process_change_criteria(ins, manager), ElseStays
    PROVE  InstanceInv' /\ AddressesStay /\ ChangesByKind(ins)
<1>1. /\ ins.kind = "ChangeCriteria" /\ lido.version = "v2"
      /\ lido' = [lido EXCEPT !.criteria = ins.criteria] /\ UNCHANGED accounts
  BY DEF process_change_criteria, deserialize_lido
<1>2. V2IsSound
  BY <1>1, V2Facts
<1>3. /\ DOMAIN lido' = DOMAIN lido
      /\ \A f \in {"version", "manager", "mint", "treasury", "developer", "fees",
                   "validator_list", "maintainer_list"} : lido'[f] = lido[f]
  BY <1>1, <1>2 DEF V2IsSound, V2Fields
<1>4. /\ IsTokenOf(lido'.treasury, lido.mint) /\ IsTokenOf(lido'.developer, lido.mint)
      /\ lido'.fees \in AllFees
  BY <1>2, <1>3 DEF V2IsSound
<1>5. lido' = ChangedLido(ins)
  BY <1>1 DEF ChangedLido
<1>. QED
  BY <1>1, <1>3, <1>4, <1>5, ChangeLidoStep

LEMMA ChangeRewardDistributionStep ==
    ASSUME InstanceInv, NEW ins, ins.fees \in FeeOptions, NEW manager, NamesAccounts(ins),
           process_change_reward_distribution(ins, manager), ElseStays
    PROVE  InstanceInv' /\ AddressesStay /\ ChangesByKind(ins)
<1>1. /\ ins.kind = "ChangeRewardDistribution" /\ lido.version = "v2"
      /\ tokens[ins.treasury] = lido.mint /\ tokens[ins.developer] = lido.mint
      /\ lido' = [lido EXCEPT !.fees = ins.fees, !.treasury = ins.treasury,
                              !.developer = ins.developer]
      /\ UNCHANGED accounts
  BY DEF process_change_reward_distribution, deserialize_lido, check_is_st_sol_account
<1>2. DOMAIN lido = V2Fields
  BY <1>1, V2Facts DEF V2IsSound
<1>3. /\ DOMAIN lido' = DOMAIN lido
      /\ \A f \in {"version", "manager", "mint", "validator_list", "maintainer_list"} :
            lido'[f] = lido[f]
      /\ lido'.treasury = ins.treasury /\ lido'.developer = ins.developer
      /\ lido'.fees \in AllFees
  BY <1>1, <1>2 DEF V2Fields, AllFees
<1>4. IsTokenOf(ins.treasury, lido.mint) /\ IsTokenOf(ins.developer, lido.mint)
  BY <1>1 DEF NamesAccounts, IsTokenOf
<1>5. lido' = ChangedLido(ins)
  BY <1>1 DEF ChangedLido
<1>. QED
  BY <1>1, <1>3, <1>4, <1>5, ChangeLidoStep

\* The instance is migrated to what the instruction says.
IsMigration(ins) ==
    /\ ins.kind = "MigrateStateToV2" /\ lido.version = "v1" /\ lido'.version = "v2"
    /\ Rewards(lido') = <<ins.fees, lido.treasury, ins.developer>>
    /\ \A name \in ListNames : lido'[name] = ins[name]

\* The lists of the migrated instance are accounts that were not in use.
LEMMA MigrateStep ==
    ASSUME InstanceInv, NEW ins \in Proposals, ins.kind = "MigrateStateToV2",
           NEW manager, NamesAccounts(ins), process_migrate_to_v2(ins, manager), ElseStays
    PROVE  InstanceInv' /\ AddressesStay /\ IsMigration(ins)
<1>. DEFINE vl == ins.validator_list
            ml == ins.maintainer_list
            vmax == ins.max.validator_list
            mmax == ins.max.maintainer_list
            new == [i \in DOMAIN lido.maintainers |-> [pubkey |-> lido.maintainers[i]]]
            a == Saved(accounts[vl], "validator_list", vmax, <<>>)
            b == Saved(accounts[ml], "maintainer_list", mmax, new)
<1>1. /\ lido.version = "v1" /\ vl # ml
      /\ \A name \in ListNames : accounts[ins[name]].bytes >= required_bytes(name, ins.max[name])
      /\ Len(new) <= mmax
      /\ tokens[ins.developer] = lido.mint
      /\ accounts' = [accounts EXCEPT ![vl] = Saved(@, "validator_list", vmax, <<>>),
                                      ![ml] = Saved(@, "maintainer_list", mmax, new)]
      /\ lido' = [version |-> "v2", manager |-> lido.manager, mint |-> lido.mint,
                  treasury |-> lido.treasury, developer |-> ins.developer,
                  fees |-> ins.fees, criteria |-> DefaultCriteria,
                  validator_list |-> ins.validator_list,
                  validator_perf_list |-> ins.validator_perf_list,
                  maintainer_list |-> ins.maintainer_list]
  BY DEF process_migrate_to_v2, check_account_data, check_is_st_sol_account
<1>2. /\ vl \in 1..3 /\ ml \in 1..3 /\ vmax \in Nat /\ mmax \in Nat
      /\ ins.fees \in FeeOptions
  BY DEF Proposals
<1>3. /\ accounts \in Seq(ListAccounts) /\ Len(accounts) >= 3
      /\ ins.developer \in DOMAIN tokens
      /\ \A i \in DOMAIN accounts : IsListAccount(accounts[i])
  BY DEF InstanceInv, AccountsAreSound, NamesAccounts
<1>4. vl \in DOMAIN accounts /\ ml \in DOMAIN accounts
  <2>1. Len(accounts) \in Nat /\ DOMAIN accounts = 1 .. Len(accounts)
    BY <1>3
  <2>. QED
    BY <1>2, <1>3, <2>1
<1>5. /\ accounts[vl] \in ListAccounts /\ accounts[ml] \in ListAccounts
      /\ accounts[vl].bytes >= required_bytes("validator_list", vmax)
      /\ accounts[ml].bytes >= required_bytes("maintainer_list", mmax)
  BY <1>1, <1>3, <1>4 DEF ListNames, Types
<1>6. V1IsSound
  BY <1>1 DEF InstanceInv, LidoIsSound, NoLido
<1>7. /\ lido.maintainers = LegacyMaintainers /\ lido.mint = 1 /\ lido.treasury = 1
      /\ lido.manager = "multisig"
  BY <1>6 DEF V1IsSound, LidoV1
<1>8. IsList(MaintainerEntries, mmax, new)
  <2>1. new = [i \in 1 .. Len(LegacyMaintainers) |-> [pubkey |-> LegacyMaintainers[i]]]
    BY <1>7, GovernanceAssumption
  <2>2. /\ Len(LegacyMaintainers) \in Nat
        /\ \A i \in 1 .. Len(LegacyMaintainers) : LegacyMaintainers[i] \in Maintainers
        /\ \A i, j \in 1 .. Len(LegacyMaintainers) :
              LegacyMaintainers[i] = LegacyMaintainers[j] => i = j
    BY GovernanceAssumption
  <2>3. /\ DOMAIN new = 1 .. Len(LegacyMaintainers)
        /\ \A i \in 1 .. Len(LegacyMaintainers) :
              new[i] = [pubkey |-> LegacyMaintainers[i]]
    BY <2>1
  <2>4. new \in Seq(MaintainerEntries)
    <3>1. \A i \in 1 .. Len(LegacyMaintainers) :
             [pubkey |-> LegacyMaintainers[i]] \in MaintainerEntries
      BY <2>2 DEF MaintainerEntries
    <3>. HIDE DEF new
    <3>. QED
      BY <2>1, <2>2, <3>1
  <2>. HIDE DEF new
  <2>5. HasUniqueKeys(new)
    BY <2>2, <2>3 DEF HasUniqueKeys
  <2>. QED
    BY <1>1, <2>4, <2>5 DEF IsList
<1>9. IsListAccount(a) /\ a.type = "Validator"
  <2>. DEFINE none == <<>>
  <2>1. IsList(ValidatorEntries, vmax, none)
    BY <1>2, EmptyIsList
  <2>. HIDE DEF none, vl, vmax
  <2>2. LET x == Saved(accounts[vl], "validator_list", vmax, none)
        IN  IsListAccount(x) /\ x.type = "Validator"
    BY <1>2, <1>5, <2>1, SavedIsSound
  <2>. QED
    BY <2>2 DEF none
<1>10. IsListAccount(b) /\ b.type = "Maintainer"
  <2>. HIDE DEF new, ml, mmax
  <2>1. LET x == Saved(accounts[ml], "maintainer_list", mmax, new)
        IN  IsListAccount(x) /\ x.type = "Maintainer"
    BY <1>2, <1>5, <1>8, SavedIsSound
  <2>. QED
    BY <2>1
<1>11. a \in ListAccounts /\ b \in ListAccounts
  BY <1>9, <1>10 DEF IsListAccount
<1>12. accounts' = [accounts EXCEPT ![vl] = a, ![ml] = b]
  BY <1>1, <1>4
<1>. HIDE DEF a, b, new
<1>13. /\ accounts' \in Seq(ListAccounts) /\ DOMAIN accounts' = DOMAIN accounts
       /\ Len(accounts') = Len(accounts) /\ Len(accounts) \in Nat
       /\ accounts'[vl] = a /\ accounts'[ml] = b
       /\ \A i \in DOMAIN accounts : i # vl /\ i # ml => accounts'[i] = accounts[i]
  BY <1>1, <1>3, <1>4, <1>11, <1>12
<1>14. AccountsAreSound'
  BY <1>3, <1>9, <1>10, <1>13 DEF AccountsAreSound
<1>15. AddressesStay
  BY <1>13 DEF AddressesStay, ElseStays
<1>16. V2IsSound' /\ lido'.version = "v2"
  <2>1. /\ DOMAIN lido' = V2Fields /\ lido'.version = "v2"
        /\ lido'.mint = 1 /\ lido'.treasury = 1 /\ lido'.developer = ins.developer
        /\ lido'.validator_list = vl /\ lido'.maintainer_list = ml
        /\ lido'.manager = "multisig" /\ lido'.fees \in AllFees
    BY <1>1, <1>2, <1>7 DEF V2Fields, AllFees
  <2>2. IsTokenOf(1, 1) /\ IsTokenOf(ins.developer, 1) /\ reserve
        /\ 1 \in DOMAIN mints /\ mints[1].authority = "mint_authority"
    BY <1>1, <1>3, <1>6, <1>7 DEF V1IsSound, IsTokenOf
  <2>. QED
    BY <1>4, <1>9, <1>10, <1>13, <2>1, <2>2 DEF V2IsSound, IsTokenOf, ElseStays
<1>17. /\ Rewards(lido') = <<ins.fees, lido.treasury, ins.developer>>
       /\ \A name \in ListNames : lido'[name] = ins[name]
  BY <1>1 DEF Rewards, ListNames, Types
<1>18. IsMigration(ins)
  BY <1>1, <1>16, <1>17 DEF IsMigration
<1>. QED
  BY <1>14, <1>15, <1>16, <1>18, SetupStays DEF InstanceInv, LidoIsSound, ElseStays

\* The instructions that are executed, through the multisig or directly.
Instructions ==
    Proposals \cup [kind : {"RemoveValidator", "ReactivateIfComplies"}, key : Votes, index : Nat]

LEMMA HandleStep ==
    ASSUME InstanceInv, NEW ins \in Instructions, NEW manager, NamesAccounts(ins),
           Handle(ins, manager), ElseStays
    PROVE  /\ InstanceInv' /\ AddressesStay
           /\ lido.version = "v2" => ChangesByKind(ins)
           /\ lido.version # "v2" => IsMigration(ins)
           /\ UNCHANGED <<multisig, program, vault>>
<1>1. UNCHANGED <<multisig, program, vault>>
  BY DEF Handle
<1>2. /\ ins.kind = "AddMaintainer" => ins.key \in Maintainers
      /\ ins.kind = "AddValidator" => ins.key \in Votes
      /\ ins.kind = "ChangeRewardDistribution" => ins.fees \in FeeOptions
      /\ ins.kind = "MigrateStateToV2" => ins \in Proposals
  BY DEF Instructions, Proposals
<1>3. CASE ins.kind = "MigrateStateToV2" /\ process_migrate_to_v2(ins, manager)
  BY <1>1, <1>2, <1>3, MigrateStep DEF IsMigration
<1>4. ASSUME \/ process_add_maintainer(ins, manager) \/ process_remove_maintainer(ins, manager)
             \/ process_add_validator(ins, manager) \/ process_remove_validator(ins)
             \/ process_enqueue_validator_for_removal(ins, manager)
             \/ process_deactivate_validator(ins, manager) \/ process_reactivate_if_complies(ins)
             \/ process_change_criteria(ins, manager)
             \/ process_change_reward_distribution(ins, manager)
      PROVE  lido.version = "v2"
  BY <1>4 DEF process_add_maintainer, process_remove_maintainer, process_add_validator,
     process_remove_validator, process_enqueue_validator_for_removal,
     process_deactivate_validator, process_reactivate_if_complies, SetStatus,
     process_change_criteria, process_change_reward_distribution,
     deserialize_account_list_info, deserialize_lido
<1>5. CASE process_add_maintainer(ins, manager)
  <2>1. ins.kind = "AddMaintainer"
    BY <1>5 DEF process_add_maintainer
  <2>. QED
    BY <1>1, <1>2, <1>4, <1>5, <2>1, AddMaintainerStep
<1>6. CASE process_add_validator(ins, manager)
  <2>1. ins.kind = "AddValidator"
    BY <1>6 DEF process_add_validator
  <2>. QED
    BY <1>1, <1>2, <1>4, <1>6, <2>1, AddValidatorStep
<1>7. CASE process_remove_maintainer(ins, manager)
  BY <1>1, <1>4, <1>7, RemoveMaintainerStep
<1>8. CASE process_remove_validator(ins)
  BY <1>1, <1>4, <1>8, RemoveValidatorStep
<1>9. CASE process_enqueue_validator_for_removal(ins, manager)
  <2>. DEFINE from == {"AcceptingStakes", "StakesSuspended"}
  <2>1. ins.kind = "EnqueueValidatorForRemoval" /\ SetStatus(ins, from, "PendingRemoval")
    BY <1>9 DEF process_enqueue_validator_for_removal
  <2>. HIDE DEF from
  <2>2. InstanceInv' /\ AddressesStay /\ ChangesByKind(ins)
    BY <2>1, SetStatusStep
  <2>. QED
    BY <1>1, <1>4, <1>9, <2>2
<1>10. CASE process_deactivate_validator(ins, manager)
  <2>. DEFINE from == {"AcceptingStakes"}
  <2>1. ins.kind = "DeactivateValidator" /\ SetStatus(ins, from, "StakesSuspended")
    BY <1>10 DEF process_deactivate_validator
  <2>. HIDE DEF from
  <2>2. InstanceInv' /\ AddressesStay /\ ChangesByKind(ins)
    BY <2>1, SetStatusStep
  <2>. QED
    BY <1>1, <1>4, <1>10, <2>2
<1>11. CASE process_reactivate_if_complies(ins)
  <2>. DEFINE from == {"StakesSuspended"}
  <2>1. from = {"StakesSuspended"} /\ SetStatus(ins, from, "AcceptingStakes")
    BY <1>11 DEF process_reactivate_if_complies
  <2>. HIDE DEF from
  <2>2. InstanceInv' /\ AddressesStay /\ ChangesByKind(ins)
    BY <2>1, SetStatusStep
  <2>. QED
    BY <1>1, <1>4, <1>11, <2>2
<1>12. CASE process_change_criteria(ins, manager)
  BY <1>1, <1>4, <1>12, ChangeCriteriaStep
<1>13. CASE process_change_reward_distribution(ins, manager)
  <2>1. ins.kind = "ChangeRewardDistribution"
    BY <1>13 DEF process_change_reward_distribution
  <2>. QED
    BY <1>1, <1>2, <1>4, <1>13, <2>1, ChangeRewardDistributionStep
<1>. QED
  BY <1>3, <1>5, <1>6, <1>7, <1>8, <1>9, <1>10, <1>11, <1>12, <1>13 DEF Handle

\* Whoever is given as the manager of a managed instruction is that of the instance.
LEMMA ManagerIsChecked ==
    ASSUME InstanceInv, NEW ins, NEW manager, Handle(ins, manager), ins.kind \in Managed
    PROVE  manager = "multisig"
<1>1. /\ manager = lido.manager
      /\ lido.version = "v1" \/ lido.version = "v2"
  BY DEF Handle, process_add_maintainer, process_remove_maintainer, process_add_validator,
     process_remove_validator, process_enqueue_validator_for_removal,
     process_deactivate_validator, process_reactivate_if_complies,
     process_change_criteria, process_change_reward_distribution, process_migrate_to_v2,
     deserialize_account_list_info, deserialize_lido, check_manager, Managed
<1>2. CASE lido.version = "v1"
  <2>1. V1IsSound
    BY <1>2 DEF InstanceInv, LidoIsSound, NoLido
  <2>. QED
    BY <1>1, <2>1 DEF V1IsSound, LidoV1
<1>3. CASE lido.version = "v2"
  BY <1>1, <1>3, V2Facts DEF V2IsSound
<1>. QED
  BY <1>1, <1>2, <1>3

-----------------------------------------------------------------------------
(* Owners, proposals and sessions *)

\* When nothing of the instance changes.
LEMMA InstanceStays ==
    ASSUME InstanceInv, UNCHANGED <<lido, accounts, reserve, mints, tokens, setup>>
    PROVE  InstanceInv' /\ AddressesStay
<1>1. AddressesStay
  BY DEF AddressesStay, InstanceInv, AccountsAreSound
<1>. QED
  BY <1>1, LidoStays, SetupStays DEF InstanceInv

\* An owner has a position, and only a multisig that exists has owners.
LEMMA OwnerFacts ==
    ASSUME MultisigIsSound, NEW key, IsOwner(key)
    PROVE  /\ IndexOf(key) \in DOMAIN multisig.owners /\ IndexOf(key) \in Nat
           /\ multisig.owners[IndexOf(key)] = key
           /\ multisig # NoMultisig
<1>1. \E i \in DOMAIN multisig.owners : multisig.owners[i] = key
  BY DEF IsOwner
<1>2. IndexOf(key) \in DOMAIN multisig.owners /\ multisig.owners[IndexOf(key)] = key
  BY <1>1 DEF IndexOf
<1>3. multisig.owners \in Seq(OwnerKeys)
  BY DEF MultisigIsSound, Multisigs
<1>4. multisig # NoMultisig
  BY <1>2 DEF NoMultisig
<1>. QED
  BY <1>2, <1>3, <1>4

\* Proposals stay sound while the owners stay.
LEMMA TransactionsStay ==
    ASSUME InstanceInv, InstanceInv', AddressesStay, TransactionsAreSound,
           UNCHANGED <<multisig, txs>>
    PROVE  TransactionsAreSound'
<1>1. Len(accounts) \in Nat /\ Len(accounts') \in Nat
  BY DEF InstanceInv, AccountsAreSound
<1>. QED
  BY <1>1 DEF TransactionsAreSound, IsSoundTransaction, NamesAccounts, AddressesStay, IsOwner, IndexOf

\* So does the open session.
LEMMA SessionStays ==
    ASSUME InstanceInv, InstanceInv', AddressesStay, SessionIsSound,
           session' = session, DOMAIN txs \subseteq DOMAIN txs'
    PROVE  SessionIsSound'
<1>1. Len(accounts) \in Nat /\ Len(accounts') \in Nat
  BY DEF InstanceInv, AccountsAreSound
<1>2. CASE session = NoSession
  BY <1>2 DEF SessionIsSound
<1>3. CASE /\ session \in [stage : {"propose"}, who : OwnerKeys, ins : Proposals, room : Nat]
           /\ NamesAccounts(session.ins)
  BY <1>1, <1>3 DEF SessionIsSound, NamesAccounts, AddressesStay
<1>4. CASE /\ session \in [stage : {"shown", "count", "execute"}, who : OwnerKeys, tx : Nat,
                           seen : Displays]
           /\ session.tx \in DOMAIN txs
  BY <1>4 DEF SessionIsSound
<1>. QED
  BY <1>2, <1>3, <1>4 DEF SessionIsSound

LEMMA CreateMultisigStep ==
    ASSUME GovernanceInv, NEW threshold \in Thresholds \cup {FirstThreshold},
           create_multisig(Founders, threshold)
    PROVE  GovernanceInv'
<1>1. /\ multisig = NoMultisig
      /\ threshold \in 1 .. Len(Founders)
      /\ multisig' = [owners |-> Founders, threshold |-> threshold, seqno |-> 0]
      /\ UNCHANGED <<deployment, txs, session, program, vault>>
  BY DEF create_multisig, validate_or_exit
<1>2. txs = <<>> /\ session = NoSession
  BY <1>1 DEF GovernanceInv, MultisigIsSound
<1>3. InstanceInv'
  BY <1>1, InstanceStays DEF GovernanceInv, deployment
<1>4. MultisigIsSound'
  BY <1>1, <1>2, GovernanceAssumption DEF MultisigIsSound, Multisigs
<1>5. TransactionsAreSound' /\ SessionIsSound'
  BY <1>1, <1>2 DEF TransactionsAreSound, SessionIsSound
<1>. QED
  BY <1>1, <1>3, <1>4, <1>5 DEF GovernanceInv

\* A set-up step leaves the owners, the proposals and the session alone.
LEMMA SetUpKeepsAll ==
    ASSUME GovernanceInv, Set_up, UNCHANGED <<multisig, txs, session, program, vault>>
    PROVE  GovernanceInv'
<1>1. InstanceInv' /\ AddressesStay
  BY SetUpStep DEF GovernanceInv
<1>2. MultisigIsSound'
  BY DEF GovernanceInv, MultisigIsSound
<1>3. TransactionsAreSound'
  BY <1>1, TransactionsStay DEF GovernanceInv
<1>4. SessionIsSound'
  BY <1>1, SessionStays DEF GovernanceInv
<1>. QED
  BY <1>1, <1>2, <1>3, <1>4 DEF GovernanceInv

-----------------------------------------------------------------------------
(* Commands that propose *)

LEMMA DraftStep ==
    ASSUME GovernanceInv, NEW owner \in OwnerKeys, NEW ins \in Proposals, NamesAccounts(ins),
           Draft(owner, ins)
    PROVE  GovernanceInv'
<1>1. /\ IsOwner(owner)
      /\ session' = [stage |-> "propose", who |-> owner, ins |-> ins,
                     room |-> Len(multisig.owners)]
      /\ UNCHANGED <<lido, accounts, reserve, mints, tokens, setup, multisig, txs, program, vault>>
  BY DEF Draft
<1>2. InstanceInv' /\ AddressesStay
  BY <1>1, InstanceStays DEF GovernanceInv
<1>3. MultisigIsSound'
  <2>1. multisig # NoMultisig
    BY <1>1, OwnerFacts DEF GovernanceInv
  <2>. QED
    BY <1>1, <2>1 DEF GovernanceInv, MultisigIsSound
<1>4. TransactionsAreSound'
  BY <1>1, <1>2, TransactionsStay DEF GovernanceInv
<1>5. SessionIsSound'
  <2>1. Len(multisig.owners) \in Nat
    BY DEF GovernanceInv, MultisigIsSound, Multisigs
  <2>2. session' \in [stage : {"propose"}, who : OwnerKeys, ins : Proposals, room : Nat]
    BY <1>1, <2>1
  <2>3. session'.ins = ins
    BY <1>1
  <2>. QED
    BY <1>1, <2>2, <2>3 DEF SessionIsSound, NamesAccounts
<1>. QED
  BY <1>1, <1>2, <1>3, <1>4, <1>5 DEF GovernanceInv

\* The proposals of commands that look up an entry.
LEMMA DraftIndexedStep ==
    ASSUME GovernanceInv, NEW owner \in OwnerKeys,
           NEW kind \in {"RemoveMaintainer", "DeactivateValidator", "EnqueueValidatorForRemoval"},
           NEW name \in TheLists, NEW key \in Votes \cup Maintainers,
           DraftIndexed(owner, kind, name, key)
    PROVE  GovernanceInv'
<1>. DEFINE p == Position(Entries(name), key)
            ins == [kind |-> kind, key |-> key, index |-> p]
<1>1. /\ lido.version = "v2" /\ key \in Keys(Entries(name)) /\ Draft(owner, ins)
  BY DEF DraftIndexed, deserialize_account_list_info, deserialize_lido
<1>2. Entries(name) \in Seq(EntryType(name))
  BY <1>1, ListFacts DEF GovernanceInv, IsList
<1>3. p \in Nat
  BY <1>1, <1>2, PositionOfKey
<1>. HIDE DEF p
<1>4. ins \in Proposals /\ NamesAccounts(ins)
  BY <1>3 DEF Proposals, NamesAccounts
<1>. HIDE DEF ins
<1>. QED
  BY <1>1, <1>4, DraftStep

LEMMA ProposeMigrationStep ==
    ASSUME GovernanceInv, NEW owner \in OwnerKeys, NEW fees \in FeeOptions,
           propose_migration(owner, fees)
    PROVE  GovernanceInv'
<1>1. PICK args \in MigrationArguments, developer \in DOMAIN tokens :
        /\ Len(accounts) = 3
        /\ Draft(owner, command_migrate_state_to_v2(args, developer, fees))
  BY DEF propose_migration
<1>. DEFINE ins == command_migrate_state_to_v2(args, developer, fees)
<1>2. args[1] \in 1..3 /\ args[2] \in 1..3 /\ args[3] \in 1..3 /\ args[4] \in 0..255
  BY GovernanceAssumption
<1>3. developer \in Nat
  BY DEF GovernanceInv, InstanceInv, TokensAreSound
<1>4. [validator_list |-> 6700, validator_perf_list |-> 6700, maintainer_list |-> 5000]
        \in [validator_list : Nat, validator_perf_list : Nat, maintainer_list : Nat]
  OBVIOUS
<1>5. ins \in [kind : {"MigrateStateToV2"}, fees : FeeOptions, developer : Nat,
               max_commission : 0..255, validator_list : 1..3, validator_perf_list : 1..3, maintainer_list : 1..3,
               max : [validator_list : Nat, validator_perf_list : Nat, maintainer_list : Nat]]
  BY <1>2, <1>3, <1>4 DEF command_migrate_state_to_v2
<1>6. ins.kind = "MigrateStateToV2" /\ ins.developer = developer
  BY DEF command_migrate_state_to_v2
<1>. HIDE DEF ins
<1>7. ins \in Proposals /\ NamesAccounts(ins)
  BY <1>1, <1>5, <1>6 DEF Proposals, NamesAccounts
<1>. QED
  BY <1>1, <1>7, DraftStep DEF ins

LEMMA ProposeOwnersStep ==
    ASSUME GovernanceInv, NEW owner \in OwnerKeys, NEW owners \in Seq(OwnerKeys),
           NEW threshold \in Nat,
           Draft(owner, [kind |-> "SetOwners", owners |-> owners, threshold |-> threshold])
    PROVE  GovernanceInv'
<1>. DEFINE ins == [kind |-> "SetOwners", owners |-> owners, threshold |-> threshold]
<1>1. ins \in Proposals /\ NamesAccounts(ins)
  BY DEF Proposals, NamesAccounts
<1>2. Draft(owner, ins)
  OBVIOUS
<1>. HIDE DEF ins
<1>. QED
  BY <1>1, <1>2, DraftStep

LEMMA ProposeStep ==
    ASSUME GovernanceInv, NEW owner \in OwnerKeys, Propose(owner)
    PROVE  GovernanceInv'
<1>1. /\ multisig.owners \in Seq(OwnerKeys) /\ multisig.threshold \in Nat
      /\ DOMAIN tokens \subseteq Nat
  BY DEF GovernanceInv, MultisigIsSound, Multisigs, InstanceInv, TokensAreSound
<1>2. \A ins \in Proposals : NamesAccounts(ins) /\ Draft(owner, ins) => GovernanceInv'
  BY DraftStep
<1>3. ASSUME NEW vote \in Votes, command_add_validator(owner, vote)
      PROVE  GovernanceInv'
  <2>. DEFINE ins == [kind |-> "AddValidator", key |-> vote]
  <2>1. ins \in Proposals /\ NamesAccounts(ins)
    BY DEF Proposals, NamesAccounts
  <2>2. Draft(owner, ins)
    BY <1>3 DEF command_add_validator
  <2>. HIDE DEF ins
  <2>. QED
    BY <1>2, <2>1, <2>2
<1>4. ASSUME NEW maintainer \in Maintainers, command_add_maintainer(owner, maintainer)
      PROVE  GovernanceInv'
  <2>. DEFINE ins == [kind |-> "AddMaintainer", key |-> maintainer]
  <2>1. ins \in Proposals /\ NamesAccounts(ins)
    BY DEF Proposals, NamesAccounts
  <2>2. Draft(owner, ins)
    BY <1>4 DEF command_add_maintainer
  <2>. HIDE DEF ins
  <2>. QED
    BY <1>2, <2>1, <2>2
<1>5. ASSUME NEW vote \in Votes,
             command_deactivate_validator(owner, vote) \/ command_remove_validator(owner, vote)
      PROVE  GovernanceInv'
  BY <1>5, DraftIndexedStep DEF command_deactivate_validator, command_remove_validator, TheLists
<1>6. ASSUME NEW maintainer \in Maintainers, command_remove_maintainer(owner, maintainer)
      PROVE  GovernanceInv'
  BY <1>6, DraftIndexedStep DEF command_remove_maintainer, TheLists
<1>7. ASSUME NEW criteria \in CriteriaOptions, command_change_criteria(owner, criteria)
      PROVE  GovernanceInv'
  <2>. DEFINE ins == [kind |-> "ChangeCriteria", criteria |-> criteria]
  <2>1. ins \in Proposals /\ NamesAccounts(ins)
    BY DEF Proposals, NamesAccounts
  <2>2. Draft(owner, ins)
    BY <1>7 DEF command_change_criteria
  <2>. HIDE DEF ins
  <2>. QED
    BY <1>2, <2>1, <2>2
<1>8. ASSUME NEW fees \in FeeOptions, NEW treasury \in DOMAIN tokens,
             NEW developer \in DOMAIN tokens,
             propose_change_reward_distribution(owner, fees, treasury, developer)
      PROVE  GovernanceInv'
  <2>. DEFINE ins == [kind |-> "ChangeRewardDistribution", fees |-> fees,
                      treasury |-> treasury, developer |-> developer]
  <2>1. ins \in Proposals /\ NamesAccounts(ins)
    BY <1>1 DEF Proposals, NamesAccounts
  <2>2. Draft(owner, ins)
    BY <1>8 DEF propose_change_reward_distribution
  <2>. HIDE DEF ins
  <2>. QED
    BY <1>2, <2>1, <2>2
<1>9. ASSUME NEW fees \in FeeOptions, propose_migration(owner, fees)
      PROVE  GovernanceInv'
  BY <1>9, ProposeMigrationStep
<1>10. ASSUME NEW key \in Candidates, propose_revoke_owner(owner, key)
       PROVE  GovernanceInv'
  <2>. DEFINE kept == {i \in DOMAIN multisig.owners : multisig.owners[i] # key}
              owners == ElementsAt(multisig.owners, kept)
  <2>1. kept \in SUBSET DOMAIN multisig.owners
    OBVIOUS
  <2>2. Draft(owner, [kind |-> "SetOwners", owners |-> owners, threshold |-> multisig.threshold])
    <3>1. [kind |-> "SetOwners", owners |-> owners, threshold |-> multisig.threshold]
            = [kind |-> "SetOwners", threshold |-> multisig.threshold, owners |-> owners]
      OBVIOUS
    <3>. QED
      BY <1>10, <3>1 DEF propose_revoke_owner
  <2>. HIDE DEF kept
  <2>3. owners \in Seq(OwnerKeys)
    BY <1>1, <2>1, ElementsAtType
  <2>. HIDE DEF owners
  <2>. QED
    BY <1>1, <2>2, <2>3, ProposeOwnersStep
<1>11. ASSUME NEW key \in Candidates, propose_add_owner(owner, key)
       PROVE  GovernanceInv'
  <2>. DEFINE owners == Append(multisig.owners, key)
  <2>1. owners \in Seq(OwnerKeys)
    BY <1>1, GovernanceAssumption
  <2>2. Draft(owner, [kind |-> "SetOwners", owners |-> owners, threshold |-> multisig.threshold])
    <3>1. [kind |-> "SetOwners", owners |-> owners, threshold |-> multisig.threshold]
            = [kind |-> "SetOwners", threshold |-> multisig.threshold, owners |-> owners]
      OBVIOUS
    <3>. QED
      BY <1>11, <3>1 DEF propose_add_owner
  <2>. HIDE DEF owners
  <2>. QED
    BY <1>1, <2>1, <2>2, ProposeOwnersStep
<1>12. ASSUME NEW threshold \in Thresholds,
              propose_change_multisig(owner, multisig.owners, threshold)
       PROVE  GovernanceInv'
  <2>1. Draft(owner, [kind |-> "SetOwners", owners |-> multisig.owners, threshold |-> threshold])
    BY <1>12 DEF propose_change_multisig
  <2>2. threshold \in Nat
    BY GovernanceAssumption
  <2>. QED
    BY <1>1, <2>1, <2>2, ProposeOwnersStep
<1>13. ASSUME propose_upgrade(owner, "new")
       PROVE  GovernanceInv'
  <2>. DEFINE ins == [kind |-> "Upgrade", image |-> "new"]
  <2>1. ins \in Proposals /\ NamesAccounts(ins)
    BY DEF Proposals, NamesAccounts
  <2>2. Draft(owner, ins)
    BY <1>13 DEF propose_upgrade
  <2>. HIDE DEF ins
  <2>. QED
    BY <1>2, <2>1, <2>2
<1>14. ASSUME propose_set_upgrade_authority(owner, "other")
       PROVE  GovernanceInv'
  <2>. DEFINE ins == [kind |-> "SetAuthority", authority |-> "other"]
  <2>1. ins \in Proposals /\ NamesAccounts(ins)
    BY DEF Proposals, NamesAccounts
  <2>2. Draft(owner, ins)
    BY <1>14 DEF propose_set_upgrade_authority
  <2>. HIDE DEF ins
  <2>. QED
    BY <1>2, <2>1, <2>2
<1>15. ASSUME transfer_token(owner, 1)
       PROVE  GovernanceInv'
  <2>. DEFINE ins == [kind |-> "Transfer", amount |-> 1]
  <2>1. ins \in Proposals /\ NamesAccounts(ins)
    BY DEF Proposals, NamesAccounts
  <2>2. Draft(owner, ins)
    BY <1>15 DEF transfer_token
  <2>. HIDE DEF ins
  <2>. QED
    BY <1>2, <2>1, <2>2
<1>. QED
  BY <1>3, <1>4, <1>5, <1>6, <1>7, <1>8, <1>9, <1>10, <1>11, <1>12, <1>13, <1>14, <1>15
  DEF Propose

-----------------------------------------------------------------------------
(* Proposals and approvals *)

\* A step that leaves the instance and the owners alone, and whose proposals are sound.
LEMMA OnlyTransactions ==
    ASSUME GovernanceInv, UNCHANGED <<deployment, multisig, program, vault>>,
           multisig # NoMultisig, txs' \in Seq(Transactions),
           \A t \in DOMAIN txs' : IsSoundTransaction(txs'[t])
    PROVE  /\ InstanceInv' /\ AddressesStay /\ MultisigIsSound' /\ TransactionsAreSound'
           /\ vault' \in 0 .. VaultSize
<1>1. InstanceInv' /\ AddressesStay
  BY InstanceStays DEF GovernanceInv, deployment
<1>2. MultisigIsSound'
  BY DEF GovernanceInv, MultisigIsSound
<1>3. accounts' = accounts /\ tokens' = tokens
  BY DEF deployment
<1>4. TransactionsAreSound'
  BY <1>3 DEF TransactionsAreSound, IsSoundTransaction, NamesAccounts, IsOwner, IndexOf
<1>. QED
  BY <1>1, <1>2, <1>4 DEF GovernanceInv

\* Sessions that propose, and sessions that approve.
LEMMA SessionFacts ==
    ASSUME SessionIsSound
    PROVE  /\ session.stage = "propose" =>
                 /\ session.who \in OwnerKeys /\ session.ins \in Proposals
                 /\ NamesAccounts(session.ins)
           /\ session.stage \in {"shown", "count", "execute"} =>
                 /\ session \in [stage : {"shown", "count", "execute"}, who : OwnerKeys,
                                 tx : Nat, seen : Displays]
                 /\ session.tx \in DOMAIN txs
BY DEF SessionIsSound, NoSession

LEMMA NoSessionIsSound ==
    ASSUME session' = NoSession
    PROVE  SessionIsSound'
BY DEF SessionIsSound

LEMMA ProposeInstructionStep ==
    ASSUME GovernanceInv, NEW landed \in BOOLEAN, propose_instruction(landed)
    PROVE  GovernanceInv'
<1>1. /\ session.stage = "propose" /\ session' = NoSession
      /\ UNCHANGED <<deployment, multisig, program, vault>>
      /\ IF landed THEN CreateTransaction(session.who, session.ins) ELSE UNCHANGED txs
  BY DEF propose_instruction
<1>2. /\ session.who \in OwnerKeys /\ session.ins \in Proposals /\ NamesAccounts(session.ins)
  BY <1>1, SessionFacts DEF GovernanceInv
<1>3. multisig # NoMultisig
  BY <1>1 DEF GovernanceInv, MultisigIsSound, NoSession
<1>4. txs \in Seq(Transactions) /\ \A t \in DOMAIN txs : IsSoundTransaction(txs[t])
  BY DEF GovernanceInv, TransactionsAreSound
<1>5. /\ txs' \in Seq(Transactions)
      /\ \A t \in DOMAIN txs' : IsSoundTransaction(txs'[t])
  <2>1. CASE ~landed
    BY <1>1, <1>4, <2>1
  <2>2. CASE landed
    <3>. DEFINE who == session.who
                tx == [ins |-> session.ins, signers |-> {IndexOf(who)},
                       seqno |-> multisig.seqno, did_execute |-> FALSE,
                       agreed |-> {who}, shown |-> {}]
    <3>1. IsOwner(who) /\ txs' = Append(txs, tx)
      BY <1>1, <2>2 DEF CreateTransaction
    <3>2. IndexOf(who) \in Nat
      BY <3>1, OwnerFacts DEF GovernanceInv
    <3>3. multisig.seqno \in Nat
      BY DEF GovernanceInv, MultisigIsSound, Multisigs
    <3>4. tx \in Transactions
      BY <1>2, <3>2, <3>3 DEF Transactions
    <3>5. IsSoundTransaction(tx)
      <4>1. IsFiniteSet({who})
        BY FS_Singleton
      <4>. QED
        BY <1>2, <3>1, <3>3, <4>1 DEF IsSoundTransaction
    <3>. HIDE DEF tx
    <3>6. /\ txs' \in Seq(Transactions) /\ Len(txs) \in Nat
          /\ DOMAIN txs' = 1 .. (Len(txs) + 1) /\ DOMAIN txs = 1 .. Len(txs)
          /\ \A t \in 1 .. Len(txs) : txs'[t] = txs[t]
          /\ txs'[Len(txs) + 1] = tx
      BY <1>4, <3>1, <3>4
    <3>7. ASSUME NEW t \in DOMAIN txs'
          PROVE  IsSoundTransaction(txs'[t])
      <4>1. CASE t \in 1 .. Len(txs)
        BY <1>4, <3>6, <4>1
      <4>2. CASE t = Len(txs) + 1
        BY <3>5, <3>6, <4>2
      <4>. QED
        BY <3>6, <4>1, <4>2
    <3>. QED
      BY <3>6, <3>7
  <2>. QED
    BY <2>1, <2>2
<1>6. InstanceInv' /\ MultisigIsSound' /\ TransactionsAreSound' /\ vault' \in 0 .. VaultSize
  BY <1>1, <1>3, <1>5, OnlyTransactions
<1>. QED
  BY <1>1, <1>6, NoSessionIsSound DEF GovernanceInv

\* An approval adds the owner to those who agreed, with the flag of that owner.
LEMMA ApprovedIsSound ==
    ASSUME MultisigIsSound, NEW t \in DOMAIN txs, txs[t] \in Transactions,
           IsSoundTransaction(txs[t]), NEW owner \in OwnerKeys, CanApprove(owner, t),
           NEW shown \in SUBSET Displays
    PROVE  LET new == Approved(t, owner, shown)
           IN  /\ new \in Transactions /\ IsSoundTransaction(new)
               /\ new.ins = txs[t].ins /\ new.seqno = txs[t].seqno
               /\ new.did_execute = txs[t].did_execute /\ new.shown = txs[t].shown \cup shown
<1>. DEFINE new == Approved(t, owner, shown)
            tx == txs[t]
<1>1. IsOwner(owner) /\ tx.seqno = multisig.seqno
  BY DEF CanApprove
<1>2. IndexOf(owner) \in Nat
  BY <1>1, OwnerFacts
<1>3. tx \in Transactions
  OBVIOUS
<1>4. /\ new.ins = tx.ins /\ new.seqno = tx.seqno /\ new.did_execute = tx.did_execute
      /\ new.signers = tx.signers \cup {IndexOf(owner)}
      /\ new.agreed = tx.agreed \cup {owner}
      /\ new.shown = tx.shown \cup shown
      /\ new \in Transactions
  <2>. DEFINE s == tx.signers \cup {IndexOf(owner)}
              g == tx.agreed \cup {owner}
              h == tx.shown \cup shown
  <2>1. new = [tx EXCEPT !.signers = s, !.agreed = g, !.shown = h]
    BY <1>3 DEF Approved, Transactions
  <2>2. s \in SUBSET Nat /\ g \in SUBSET OwnerKeys /\ h \in SUBSET Displays
    BY <1>2, <1>3 DEF Transactions
  <2>. HIDE DEF new, tx, s, g, h
  <2>3. /\ new \in Transactions
        /\ new.ins = tx.ins /\ new.seqno = tx.seqno /\ new.did_execute = tx.did_execute
        /\ new.signers = s /\ new.agreed = g /\ new.shown = h
    BY <1>3, <2>1, <2>2 DEF Transactions
  <2>. QED
    BY <2>3 DEF s, g, h
<1>. HIDE DEF new, tx
<1>5. /\ NamesAccounts(tx.ins) /\ IsFiniteSet(tx.agreed) /\ tx.seqno <= multisig.seqno
      /\ \A o \in tx.agreed : IsOwner(o)
      /\ tx.signers = {IndexOf(o) : o \in tx.agreed}
  BY <1>1 DEF IsSoundTransaction, tx
<1>6. IsFiniteSet(new.agreed)
  BY <1>4, <1>5, FS_AddElement
<1>7. new.signers = {IndexOf(o) : o \in new.agreed}
  BY <1>4, <1>5
<1>8. NamesAccounts(new.ins) /\ new.seqno <= multisig.seqno
  BY <1>4, <1>5
<1>9. \A o \in new.agreed : IsOwner(o)
  BY <1>1, <1>4, <1>5
<1>10. IsSoundTransaction(new)
  BY <1>6, <1>7, <1>8, <1>9 DEF IsSoundTransaction
<1>. QED
  BY <1>4, <1>10 DEF new, tx

\* Nothing is executed, and the proposals stay what they are.
ExecutesNothing ==
    /\ DOMAIN txs \subseteq DOMAIN txs'
    /\ \A t \in DOMAIN txs : /\ txs'[t].ins = txs[t].ins /\ txs'[t].seqno = txs[t].seqno
                             /\ txs'[t].did_execute = txs[t].did_execute

LEMMA ApproveStep ==
    ASSUME GovernanceInv, NEW owner \in OwnerKeys, NEW ts \in SUBSET DOMAIN txs,
           approve(owner, ts)
    PROVE  /\ GovernanceInv' /\ ExecutesNothing /\ DOMAIN txs' = DOMAIN txs
           /\ \A t \in DOMAIN txs : txs'[t].shown = txs[t].shown
<1>1. /\ \A t \in ts : CanApprove(owner, t)
      /\ txs' = [t \in DOMAIN txs |-> IF t \in ts THEN Approved(t, owner, {}) ELSE txs[t]]
      /\ UNCHANGED <<deployment, multisig, session, program, vault>>
  BY DEF approve
<1>2. txs \in Seq(Transactions) /\ \A t \in DOMAIN txs : IsSoundTransaction(txs[t])
  BY DEF GovernanceInv, TransactionsAreSound
<1>3. ASSUME NEW t \in DOMAIN txs
      PROVE  /\ txs'[t] \in Transactions /\ IsSoundTransaction(txs'[t])
             /\ txs'[t].ins = txs[t].ins /\ txs'[t].seqno = txs[t].seqno
             /\ txs'[t].did_execute = txs[t].did_execute /\ txs'[t].shown = txs[t].shown
  <2>1. txs[t] \in Transactions
    BY <1>2
  <2>2. CASE t \notin ts
    BY <1>1, <1>2, <2>1, <2>2
  <2>3. CASE t \in ts
    <3>. DEFINE none == {}
                new == Approved(t, owner, none)
    <3>1. txs'[t] = new
      BY <1>1, <2>3
    <3>2. none \in SUBSET Displays /\ txs[t].shown \cup none = txs[t].shown
      OBVIOUS
    <3>3. MultisigIsSound /\ CanApprove(owner, t) /\ IsSoundTransaction(txs[t])
      BY <1>1, <1>2, <2>3 DEF GovernanceInv
    <3>. HIDE DEF none
    <3>4. /\ new \in Transactions /\ IsSoundTransaction(new)
          /\ new.ins = txs[t].ins /\ new.seqno = txs[t].seqno
          /\ new.did_execute = txs[t].did_execute /\ new.shown = txs[t].shown \cup none
      BY <2>1, <3>2, <3>3, ApprovedIsSound
    <3>. HIDE DEF new
    <3>. QED
      BY <3>1, <3>2, <3>4
  <2>. QED
    BY <2>2, <2>3
<1>4. /\ DOMAIN txs' = DOMAIN txs /\ txs' \in Seq(Transactions)
  <2>1. DOMAIN txs = 1 .. Len(txs) /\ Len(txs) \in Nat
    BY <1>2
  <2>2. txs' = [t \in 1 .. Len(txs) |-> txs'[t]]
    BY <1>1, <2>1
  <2>. QED
    BY <1>3, <2>1, <2>2
<1>5. CASE DOMAIN txs = {}
  <2>1. txs = <<>> /\ txs' = txs
    BY <1>1, <1>2, <1>5
  <2>2. InstanceInv' /\ AddressesStay
    BY <1>1, InstanceStays DEF GovernanceInv, deployment
  <2>3. MultisigIsSound' /\ TransactionsAreSound'
    BY <1>1, <2>1 DEF GovernanceInv, MultisigIsSound, TransactionsAreSound
  <2>4. SessionIsSound'
    BY <1>1, <2>1, <2>2, SessionStays DEF GovernanceInv
  <2>. QED
    BY <1>1, <2>1, <2>2, <2>3, <2>4 DEF GovernanceInv, ExecutesNothing
<1>6. CASE DOMAIN txs # {}
  <2>1. multisig # NoMultisig
    BY <1>6 DEF GovernanceInv, MultisigIsSound
  <2>2. /\ InstanceInv' /\ AddressesStay /\ MultisigIsSound' /\ TransactionsAreSound'
        /\ vault' \in 0 .. VaultSize
    BY <1>1, <1>3, <1>4, <2>1, OnlyTransactions
  <2>3. SessionIsSound'
    BY <1>1, <1>4, <2>2, SessionStays DEF GovernanceInv
  <2>. QED
    BY <1>3, <1>4, <2>2, <2>3 DEF GovernanceInv, ExecutesNothing
<1>. QED
  BY <1>5, <1>6

\* A step of a batch approval that changes no proposal.
LEMMA OnlySession ==
    ASSUME GovernanceInv, UNCHANGED <<deployment, multisig, txs, program, vault>>,
           multisig # NoMultisig
    PROVE  /\ InstanceInv' /\ AddressesStay /\ MultisigIsSound' /\ TransactionsAreSound'
           /\ vault' \in 0 .. VaultSize
<1>1. txs' \in Seq(Transactions) /\ \A t \in DOMAIN txs' : IsSoundTransaction(txs'[t])
  BY DEF GovernanceInv, TransactionsAreSound
<1>. QED
  BY <1>1, OnlyTransactions

\* The kinds of proposals, and how they are displayed.
LEMMA KindsOfProposals ==
    ASSUME NEW ins \in Proposals
    PROVE  ins.kind \in Foreign \cup Managed
BY DEF Proposals, Foreign, ForeignAccounts, Managed

LEMMA DisplayFacts ==
    ASSUME NEW kind \in Foreign \cup Managed
    PROVE  \/ parsed_instr(kind) = kind
           \/ /\ parsed_instr(kind) = "InvalidSolidoInstruction"
              /\ \/ kind = "EnqueueValidatorForRemoval"
                 \/ kind = "ChangeRewardDistribution" /\ lido.version # "v2"
           \/ parsed_instr(kind) = "Unrecognized" /\ kind = "SetAuthority"
<1>1. CASE kind \in Managed
  <2>1. kind \notin {"Upgrade", "SetOwners"} /\ kind # "Transfer"
    BY <1>1 DEF Managed
  <2>2. parsed_instr(kind) = try_parse_solido_instruction(kind)
    BY <1>1, <2>1 DEF parsed_instr
  <2>. QED
    BY <1>1, <2>2 DEF try_parse_solido_instruction, deserialize_lido, Managed
<1>2. CASE kind \in {"Upgrade", "SetOwners"}
  <2>1. kind \notin Managed /\ kind # "Transfer"
    BY <1>2 DEF Managed
  <2>. QED
    BY <1>2, <2>1 DEF parsed_instr
<1>3. CASE kind = "Transfer"
  <2>1. kind \notin Managed /\ kind \notin {"Upgrade", "SetOwners"}
    BY <1>3 DEF Managed
  <2>. QED
    BY <1>3, <2>1 DEF parsed_instr, try_parse_token_instruction
<1>4. CASE kind = "SetAuthority"
  <2>1. kind \notin Managed /\ kind # "Transfer" /\ kind \notin {"Upgrade", "SetOwners"}
    BY <1>4 DEF Managed
  <2>2. parsed_instr(kind) = "Unrecognized"
    BY <2>1 DEF parsed_instr
  <2>. QED
    BY <1>4, <2>2
<1>. QED
  BY <1>1, <1>2, <1>3, <1>4 DEF Foreign, ForeignAccounts

LEMMA ShowTransactionStep ==
    ASSUME GovernanceInv, NEW owner \in OwnerKeys, NEW t \in DOMAIN txs,
           show_transaction(owner, t)
    PROVE  GovernanceInv'
<1>. DEFINE kind == txs[t].ins.kind
            seen == Display(kind)
<1>1. /\ IsOwner(owner)
      /\ session' = [stage |-> "shown", who |-> owner, tx |-> t, seen |-> seen]
      /\ UNCHANGED <<deployment, multisig, txs, program, vault>>
  BY DEF show_transaction
<1>2. multisig # NoMultisig
  BY <1>1, OwnerFacts DEF GovernanceInv
<1>3. txs[t] \in Transactions /\ t \in Nat /\ DOMAIN txs \subseteq Nat
  BY DEF GovernanceInv, TransactionsAreSound
<1>4. txs[t].ins \in Proposals
  BY <1>3 DEF Transactions
<1>5. kind \in Foreign \cup Managed
  BY <1>4, KindsOfProposals
<1>. HIDE DEF kind
<1>6. seen \in Displays
  <2>1. parsed_instr(kind)
          \in Foreign \cup Managed \cup {"InvalidSolidoInstruction", "Unsupported", "Unrecognized"}
    BY <1>5, DisplayFacts
  <2>2. multisig \in Multisigs
    BY DEF GovernanceInv, MultisigIsSound
  <2>3. ASSUME parsed_instr(kind) = "ChangeRewardDistribution"
        PROVE  Rewards(lido) \in AllFees \X Nat \X Nat
    <3>1. kind = "ChangeRewardDistribution"
      BY <1>5, <2>3, DisplayFacts
    <3>2. kind \in Managed /\ kind \notin {"Upgrade", "SetOwners"} /\ kind # "Transfer"
      BY <3>1 DEF Managed
    <3>3. try_parse_solido_instruction(kind) = "ChangeRewardDistribution"
      BY <2>3, <3>2 DEF parsed_instr
    <3>4. lido.version = "v2"
      BY <3>1, <3>3 DEF try_parse_solido_instruction, deserialize_lido
    <3>5. V2IsSound /\ tokens \in Seq(Nat)
      BY <3>4, V2Facts DEF GovernanceInv, InstanceInv, TokensAreSound
    <3>6. lido.fees \in AllFees /\ lido.treasury \in Nat /\ lido.developer \in Nat
      BY <3>5 DEF V2IsSound, IsTokenOf
    <3>. QED
      BY <3>6 DEF Rewards
  <2>4. seen.multisig \in SUBSET Multisigs /\ seen.done \in SUBSET Nat
    BY <1>3, <2>2 DEF Display
  <2>5. seen.rewards \in SUBSET (AllFees \X Nat \X Nat)
    BY <2>3 DEF Display
  <2>6. /\ seen = [kind |-> parsed_instr(kind), multisig |-> seen.multisig,
                   rewards |-> seen.rewards, done |-> seen.done]
    BY DEF Display
  <2>. HIDE DEF seen
  <2>. QED
    BY <2>1, <2>4, <2>5, <2>6 DEF Displays
<1>. HIDE DEF seen
<1>7. /\ session' \in [stage : {"shown", "count", "execute"}, who : OwnerKeys, tx : Nat,
                       seen : Displays]
      /\ session'.tx = t /\ session'.seen = seen
  BY <1>1, <1>3, <1>6
<1>8. SessionIsSound'
  BY <1>1, <1>7 DEF SessionIsSound
<1>. QED
  BY <1>1, <1>2, <1>8, OnlySession DEF GovernanceInv

LEMMA ApproveTransactionsStep ==
    ASSUME GovernanceInv, NEW yes \in BOOLEAN, approve_transactions(yes)
    PROVE  GovernanceInv' /\ ExecutesNothing
<1>. DEFINE t == session.tx
            who == session.who
            seen == session.seen
<1>1. /\ session.stage = "shown" /\ UNCHANGED <<deployment, multisig, program, vault>>
      /\ \/ session' = NoSession /\ UNCHANGED txs
         \/ /\ CanApprove(who, t)
            /\ txs' = [txs EXCEPT ![t] = Approved(t, who, {seen})]
            /\ session' = [session EXCEPT !.stage = "count"]
  BY DEF approve_transactions
<1>2. /\ session \in [stage : {"shown", "count", "execute"}, who : OwnerKeys,
                      tx : Nat, seen : Displays]
      /\ t \in DOMAIN txs
  BY <1>1, SessionFacts DEF GovernanceInv
<1>3. multisig # NoMultisig
  BY <1>1 DEF GovernanceInv, MultisigIsSound, NoSession
<1>4. CASE session' = NoSession /\ UNCHANGED txs
  BY <1>1, <1>3, <1>4, OnlySession, NoSessionIsSound DEF GovernanceInv, ExecutesNothing
<1>5. CASE /\ CanApprove(who, t)
           /\ txs' = [txs EXCEPT ![t] = Approved(t, who, {seen})]
           /\ session' = [session EXCEPT !.stage = "count"]
  <2>1. txs \in Seq(Transactions) /\ \A i \in DOMAIN txs : IsSoundTransaction(txs[i])
    BY DEF GovernanceInv, TransactionsAreSound
  <2>2. txs[t] \in Transactions /\ who \in OwnerKeys
    BY <1>2, <2>1
  <2>. DEFINE shown == {seen}
              new == Approved(t, who, shown)
  <2>3. shown \in SUBSET Displays
    BY <1>2
  <2>4. txs' = [txs EXCEPT ![t] = new]
    BY <1>5
  <2>. HIDE DEF shown, t, who
  <2>5. /\ new \in Transactions /\ IsSoundTransaction(new)
        /\ new.ins = txs[t].ins /\ new.seqno = txs[t].seqno
        /\ new.did_execute = txs[t].did_execute
    BY <1>2, <1>5, <2>1, <2>2, <2>3, ApprovedIsSound DEF GovernanceInv
  <2>. HIDE DEF new
  <2>6. /\ txs' \in Seq(Transactions) /\ DOMAIN txs' = DOMAIN txs
        /\ txs'[t] = new /\ \A i \in DOMAIN txs : i # t => txs'[i] = txs[i]
    BY <1>2, <2>1, <2>4, <2>5
  <2>7. \A i \in DOMAIN txs' : IsSoundTransaction(txs'[i])
    BY <2>1, <2>5, <2>6
  <2>8. \A i \in DOMAIN txs : /\ txs'[i].ins = txs[i].ins /\ txs'[i].seqno = txs[i].seqno
                              /\ txs'[i].did_execute = txs[i].did_execute
    BY <2>5, <2>6
  <2>9. /\ InstanceInv' /\ MultisigIsSound' /\ TransactionsAreSound' /\ vault' \in 0 .. VaultSize
    BY <1>1, <1>3, <2>6, <2>7, OnlyTransactions
  <2>10. /\ session' \in [stage : {"shown", "count", "execute"}, who : OwnerKeys,
                          tx : Nat, seen : Displays]
         /\ session'.tx = t /\ session'.seen = seen
    BY <1>2, <1>5 DEF t
  <2>11. SessionIsSound'
    BY <1>1, <1>2, <2>6, <2>10 DEF SessionIsSound
  <2>. QED
    BY <2>6, <2>8, <2>9, <2>11 DEF GovernanceInv, ExecutesNothing
<1>. QED
  BY <1>1, <1>4, <1>5

LEMMA CountApprovalsStep ==
    ASSUME GovernanceInv, count_approvals
    PROVE  GovernanceInv'
<1>1. /\ session.stage = "count" /\ UNCHANGED <<deployment, multisig, txs, program, vault>>
      /\ session' = NoSession \/ session' = [session EXCEPT !.stage = "execute"]
  BY DEF count_approvals
<1>2. multisig # NoMultisig
  BY <1>1 DEF GovernanceInv, MultisigIsSound, NoSession
<1>3. /\ session \in [stage : {"shown", "count", "execute"}, who : OwnerKeys,
                      tx : Nat, seen : Displays]
      /\ session.tx \in DOMAIN txs
  BY <1>1, SessionFacts DEF GovernanceInv
<1>4. CASE session' = [session EXCEPT !.stage = "execute"]
  <2>1. /\ session' \in [stage : {"shown", "count", "execute"}, who : OwnerKeys,
                         tx : Nat, seen : Displays]
        /\ session'.tx = session.tx /\ session'.seen = session.seen
    BY <1>3, <1>4
  <2>2. SessionIsSound'
    BY <1>1, <1>3, <2>1 DEF SessionIsSound
  <2>. QED
    BY <1>1, <1>2, <2>2, OnlySession DEF GovernanceInv
<1>5. CASE session' = NoSession
  BY <1>1, <1>2, <1>5, OnlySession, NoSessionIsSound DEF GovernanceInv
<1>. QED
  BY <1>1, <1>4, <1>5

-----------------------------------------------------------------------------
(* Execution *)

LEMMA NothingChanges ==
    ASSUME lido.version = "v2", UNCHANGED <<lido, accounts>>, NEW ins
    PROVE  ChangesByKind(ins)
<1>1. /\ Entries("validator_list")' = Entries("validator_list")
      /\ Entries("maintainer_list")' = Entries("maintainer_list")
  BY DEF Entries
<1>2. \A v : StatusOf(v)' = StatusOf(v)
  BY <1>1 DEF StatusOf
<1>. QED
  BY <1>1, <1>2 DEF ChangesByKind, StatusByKind

\* What the execution of an instruction may change, anywhere.
AllByKind(ins) ==
    /\ multisig' # multisig =>
          /\ ins.kind = "SetOwners"
          /\ multisig'.owners = ins.owners /\ multisig'.threshold = ins.threshold
    /\ program' # program =>
          \/ ins.kind = "Upgrade" /\ program' = [program EXCEPT !.image = ins.image]
          \/ ins.kind = "SetAuthority" /\ program' = [program EXCEPT !.authority = ins.authority]
    /\ vault' # vault => ins.kind = "Transfer" /\ vault' = vault - ins.amount
    /\ lido.version = "v2" => ChangesByKind(ins)
    /\ lido.version # "v2" =>
          /\ ins.kind \in Foreign \cup {"MigrateStateToV2"}
          /\ lido' # lido => IsMigration(ins)

LEMMA EffectStep ==
    ASSUME InstanceInv, MultisigIsSound, vault \in 0 .. VaultSize, NEW ins \in Proposals,
           NamesAccounts(ins), Effect(ins), ElseStays
    PROVE  /\ InstanceInv' /\ AddressesStay /\ AllByKind(ins)
           /\ vault' \in 0 .. VaultSize
           /\ multisig' \in Multisigs
           /\ multisig'.threshold <= Len(multisig'.owners)
           /\ multisig' = multisig \/ multisig'.seqno = multisig.seqno + 1
<1>1. /\ multisig \in Multisigs
      /\ multisig.threshold <= Len(multisig.owners)
  BY DEF MultisigIsSound
<1>2. CASE Handle(ins, "multisig")
  <2>1. ins \in Instructions
    BY DEF Instructions
  <2>2. /\ InstanceInv' /\ AddressesStay
        /\ lido.version = "v2" => ChangesByKind(ins)
        /\ lido.version # "v2" => IsMigration(ins)
        /\ UNCHANGED <<multisig, program, vault>>
    BY <1>2, <2>1, HandleStep
  <2>. QED
    BY <1>1, <2>2 DEF AllByKind, IsMigration
<1>3. ASSUME UNCHANGED <<lido, accounts>>
      PROVE  /\ InstanceInv' /\ AddressesStay
             /\ lido.version = "v2" => ChangesByKind(ins)
  BY <1>3, InstanceStays, NothingChanges DEF ElseStays
<1>4. CASE SetOwnersAndChangeThreshold(ins)
  <2>1. /\ ins.kind = "SetOwners" /\ ins.threshold \in 1 .. Len(ins.owners)
        /\ multisig' = [owners |-> ins.owners, threshold |-> ins.threshold,
                        seqno |-> multisig.seqno + 1]
        /\ UNCHANGED <<lido, accounts, program, vault>>
    BY <1>4 DEF SetOwnersAndChangeThreshold
  <2>2. ins.owners \in Seq(OwnerKeys) /\ ins.threshold \in Nat
    BY <2>1 DEF Proposals
  <2>3. /\ multisig' \in Multisigs
        /\ multisig'.threshold <= Len(multisig'.owners)
        /\ multisig'.seqno = multisig.seqno + 1
        /\ multisig'.owners = ins.owners /\ multisig'.threshold = ins.threshold
    BY <1>1, <2>1, <2>2 DEF Multisigs
  <2>4. ins.kind \in Foreign
    BY <2>1 DEF Foreign, ForeignAccounts
  <2>. QED
    BY <1>3, <2>1, <2>3, <2>4 DEF AllByKind
<1>5. CASE Upgrade(ins) \/ SetAuthority(ins)
  <2>1. /\ \/ ins.kind = "Upgrade" /\ program' = [program EXCEPT !.image = ins.image]
           \/ /\ ins.kind = "SetAuthority"
              /\ program' = [program EXCEPT !.authority = ins.authority]
        /\ UNCHANGED <<lido, accounts, multisig, vault>>
    BY <1>5 DEF Upgrade, SetAuthority
  <2>2. ins.kind \in Foreign
    BY <2>1 DEF Foreign, ForeignAccounts
  <2>. QED
    BY <1>1, <1>3, <2>1, <2>2 DEF AllByKind
<1>6. CASE Transfer(ins)
  <2>1. /\ ins.kind = "Transfer" /\ ins.amount <= vault /\ vault' = vault - ins.amount
        /\ UNCHANGED <<lido, accounts, multisig, program>>
    BY <1>6 DEF Transfer
  <2>2. ins.amount \in Nat
    BY <2>1 DEF Proposals
  <2>3. vault' \in 0 .. VaultSize
    BY <2>1, <2>2, GovernanceAssumption
  <2>4. ins.kind \in Foreign
    BY <2>1 DEF Foreign, ForeignAccounts
  <2>. QED
    BY <1>1, <1>3, <2>1, <2>3, <2>4 DEF AllByKind
<1>. QED
  BY <1>2, <1>4, <1>5, <1>6 DEF Effect

\* This proposal is executed, and no other; the proposals stay what they are.
Executes(t) ==
    /\ IsApproved(txs[t]) /\ AllByKind(txs[t].ins)
    /\ multisig' = multisig \/ multisig'.seqno = multisig.seqno + 1
    /\ txs'[t].did_execute
    /\ DOMAIN txs' = DOMAIN txs
    /\ \A i \in DOMAIN txs :
          /\ txs'[i].ins = txs[i].ins /\ txs'[i].seqno = txs[i].seqno
          /\ txs'[i].shown = txs[i].shown
          /\ i # t => txs'[i].did_execute = txs[i].did_execute

LEMMA ExecuteStep ==
    ASSUME GovernanceInv, NEW t \in DOMAIN txs, ExecuteTransaction(t), ElseStays,
           session' = session \/ session' = NoSession
    PROVE  GovernanceInv' /\ Executes(t)
<1>. DEFINE tx == txs[t]
            new == [tx EXCEPT !.did_execute = TRUE]
<1>1. /\ IsApproved(tx) /\ Effect(tx.ins) /\ txs' = [txs EXCEPT ![t] = new]
  BY DEF ExecuteTransaction
<1>2. txs \in Seq(Transactions) /\ \A i \in DOMAIN txs : IsSoundTransaction(txs[i])
  BY DEF GovernanceInv, TransactionsAreSound
<1>3. tx \in Transactions
  BY <1>2
<1>4. tx.ins \in Proposals /\ NamesAccounts(tx.ins)
  BY <1>2, <1>3 DEF Transactions, IsSoundTransaction
<1>5. /\ new \in Transactions /\ new.did_execute
      /\ new.ins = tx.ins /\ new.signers = tx.signers /\ new.seqno = tx.seqno
      /\ new.agreed = tx.agreed /\ new.shown = tx.shown
  BY <1>3 DEF Transactions
<1>. HIDE DEF new
<1>6. /\ txs' \in Seq(Transactions) /\ DOMAIN txs' = DOMAIN txs
      /\ txs'[t] = new /\ \A i \in DOMAIN txs : i # t => txs'[i] = txs[i]
  BY <1>1, <1>2, <1>5
<1>7. \A i \in DOMAIN txs :
         /\ txs'[i].ins = txs[i].ins /\ txs'[i].signers = txs[i].signers
         /\ txs'[i].seqno = txs[i].seqno /\ txs'[i].agreed = txs[i].agreed
         /\ txs'[i].shown = txs[i].shown
  BY <1>5, <1>6
<1>. HIDE DEF tx
<1>8. /\ InstanceInv' /\ AddressesStay /\ AllByKind(tx.ins)
      /\ vault' \in 0 .. VaultSize
      /\ multisig' \in Multisigs
      /\ multisig'.threshold <= Len(multisig'.owners)
      /\ multisig' = multisig \/ multisig'.seqno = multisig.seqno + 1
  BY <1>1, <1>4, EffectStep DEF GovernanceInv
<1>9. multisig # NoMultisig /\ multisig.seqno \in Nat
  BY DEF GovernanceInv, MultisigIsSound, Multisigs
<1>10. MultisigIsSound'
  <2>1. multisig' # NoMultisig
    BY <1>8, <1>9 DEF NoMultisig
  <2>. QED
    BY <1>8, <2>1 DEF MultisigIsSound
<1>11. Len(accounts) \in Nat /\ Len(accounts') \in Nat
  BY <1>8 DEF GovernanceInv, InstanceInv, AccountsAreSound
<1>12. \A i \in DOMAIN txs : txs[i].seqno \in Nat /\ txs[i].seqno <= multisig.seqno
  <2>1. \A x \in Transactions : x.seqno \in Nat
    BY DEF Transactions
  <2>. QED
    BY <1>2, <2>1 DEF IsSoundTransaction
<1>13. \A i \in DOMAIN txs :
          /\ txs[i].seqno <= multisig'.seqno
          /\ txs[i].seqno = multisig'.seqno => multisig' = multisig
  BY <1>8, <1>9, <1>12
<1>14. TransactionsAreSound'
  <2>1. ASSUME NEW i \in DOMAIN txs'
        PROVE  IsSoundTransaction(txs[i])'
    <3>1. IsSoundTransaction(txs[i]) /\ i \in DOMAIN txs
      BY <1>2, <1>6
    <3>2. NamesAccounts(txs[i].ins)'
      BY <1>7, <1>8, <1>11, <3>1 DEF IsSoundTransaction, NamesAccounts, AddressesStay
    <3>3. IsFiniteSet(txs'[i].agreed) /\ txs'[i].seqno <= multisig'.seqno
      BY <1>7, <1>13, <3>1 DEF IsSoundTransaction
    <3>4. ASSUME txs'[i].seqno = multisig'.seqno
          PROVE  /\ \A o \in txs'[i].agreed : IsOwner(o)'
                 /\ txs'[i].signers = {IndexOf(o)' : o \in txs'[i].agreed}
      <4>1. multisig' = multisig /\ txs[i].seqno = multisig.seqno
        BY <1>7, <1>13, <3>1, <3>4
      <4>. QED
        BY <1>7, <3>1, <4>1 DEF IsSoundTransaction, IsOwner, IndexOf
    <3>. QED
      BY <3>2, <3>3, <3>4 DEF IsSoundTransaction
  <2>. QED
    BY <1>6, <2>1 DEF TransactionsAreSound
<1>15. SessionIsSound'
  <2>1. CASE session' = NoSession
    BY <2>1, NoSessionIsSound
  <2>2. CASE session' = session
    BY <1>6, <1>8, <2>2, SessionStays DEF GovernanceInv
  <2>. QED
    BY <2>1, <2>2
<1>16. GovernanceInv'
  BY <1>8, <1>10, <1>14, <1>15 DEF GovernanceInv
<1>. QED
  BY <1>1, <1>5, <1>6, <1>7, <1>8, <1>16 DEF tx, Executes

\* Without the multisig, only a validator that is queued for removal can be removed, and
\* one that is suspended be reactivated.
LEMMA SubmitDirectlyStep ==
    ASSUME GovernanceInv, NEW ins \in Attempts, SubmitDirectly(ins)
    PROVE  /\ GovernanceInv' /\ AllByKind(ins)
           /\ ins.kind \in {"RemoveValidator", "ReactivateIfComplies"}
           /\ lido.version = "v2"
<1>1. PICK manager \in Accepted[ins.kind] : Handle(ins, manager)
  BY DEF SubmitDirectly
<1>2. ElseStays /\ UNCHANGED <<txs, session>>
  BY DEF SubmitDirectly, ElseStays
<1>3. ins.kind \notin Managed
  BY <1>1, ManagedNeedsManager, ManagerIsChecked DEF GovernanceInv
<1>4. PICK kind \in {"RemoveValidator", "ReactivateIfComplies"}, i \in Listed("validator_list") :
        ins = [kind |-> kind, key |-> Entries("validator_list")[i].pubkey, index |-> i]
  <2>1. ASSUME NEW args, NEW developer, NEW fees
        PROVE  command_migrate_state_to_v2(args, developer, fees).kind = "MigrateStateToV2"
    BY DEF command_migrate_state_to_v2
  <2>. QED
    BY <1>3, <2>1 DEF Attempts, Managed
<1>5. lido.version = "v2" /\ i \in DOMAIN Entries("validator_list")
  BY <1>4 DEF Listed, deserialize_account_list_info, deserialize_lido
<1>6. Entries("validator_list") \in Seq(ValidatorEntries)
  BY <1>5, ListFacts DEF GovernanceInv, IsList, TheLists, EntryType
<1>7. ins \in Instructions /\ ins.kind \in {"RemoveValidator", "ReactivateIfComplies"}
  <2>1. i \in Nat /\ Entries("validator_list")[i] \in ValidatorEntries
    BY <1>5, <1>6
  <2>2. Entries("validator_list")[i].pubkey \in Votes
    BY <2>1 DEF ValidatorEntries
  <2>3. ins \in [kind : {"RemoveValidator", "ReactivateIfComplies"}, key : Votes, index : Nat]
    BY <1>4, <2>1, <2>2
  <2>. QED
    BY <1>4, <2>3 DEF Instructions
<1>8. NamesAccounts(ins)
  BY <1>7 DEF NamesAccounts
<1>9. /\ InstanceInv' /\ AddressesStay /\ ChangesByKind(ins)
      /\ UNCHANGED <<multisig, program, vault>>
  BY <1>1, <1>2, <1>5, <1>7, <1>8, HandleStep DEF GovernanceInv
<1>10. MultisigIsSound'
  BY <1>2, <1>9 DEF GovernanceInv, MultisigIsSound
<1>11. TransactionsAreSound'
  BY <1>2, <1>9, TransactionsStay DEF GovernanceInv
<1>12. SessionIsSound'
  BY <1>2, <1>9, SessionStays DEF GovernanceInv
<1>13. GovernanceInv'
  BY <1>9, <1>10, <1>11, <1>12 DEF GovernanceInv
<1>. QED
  BY <1>5, <1>7, <1>9, <1>13 DEF AllByKind

-----------------------------------------------------------------------------
(* The theorems *)

LEMMA InitGovernance == Init => GovernanceInv
<1>. SUFFICES ASSUME Init
              PROVE  GovernanceInv
  OBVIOUS
<1>1. InstanceInv
  BY InitInstance
<1>2. MultisigIsSound
  <2>1. txs = <<>> /\ session = NoSession
    BY DEF Init
  <2>2. \/ multisig = [owners |-> Founders, threshold |-> FirstThreshold, seqno |-> 0]
        \/ multisig = NoMultisig
    BY DEF Init
  <2>3. CASE multisig = NoMultisig
    BY <2>1, <2>3 DEF MultisigIsSound, Multisigs, NoMultisig
  <2>4. CASE multisig = [owners |-> Founders, threshold |-> FirstThreshold, seqno |-> 0]
    BY <2>1, <2>4, GovernanceAssumption DEF MultisigIsSound, Multisigs
  <2>. QED
    BY <2>2, <2>3, <2>4
<1>3. TransactionsAreSound /\ SessionIsSound
  BY DEF Init, TransactionsAreSound, SessionIsSound
<1>4. vault \in 0 .. VaultSize
  BY GovernanceAssumption DEF Init
<1>. QED
  BY <1>1, <1>2, <1>3, <1>4 DEF GovernanceInv

\* The steps of the specification, by what they may change: those that execute a proposal,
\* those that are submitted directly, the set-up, and all others.
SetsUp == Set_up /\ UNCHANGED <<multisig, txs, session, program, vault>>

Creates == multisig = NoMultisig /\ UNCHANGED <<lido, accounts, program, vault>>

LEMMA NextStep ==
    ASSUME GovernanceInv, Next
    PROVE  /\ GovernanceInv'
           /\ \/ \E t \in DOMAIN txs : Executes(t)
              \/ /\ ExecutesNothing
                 /\ \/ SetsUp
                    \/ Creates
                    \/ UNCHANGED <<lido, accounts, multisig, program, vault>>
                    \/ /\ lido.version = "v2"
                       /\ \E ins \in Attempts :
                             /\ ins.kind \in {"RemoveValidator", "ReactivateIfComplies"}
                             /\ AllByKind(ins)
<1>1. CASE Set_up /\ UNCHANGED <<multisig, txs, session, program, vault>>
  BY <1>1, SetUpKeepsAll DEF SetsUp, ExecutesNothing
<1>2. ASSUME NEW threshold \in Thresholds \cup {FirstThreshold},
             create_multisig(Founders, threshold)
      PROVE  GovernanceInv' /\ ExecutesNothing /\ Creates
  BY <1>2, CreateMultisigStep DEF create_multisig, deployment, Creates, ExecutesNothing
<1>3. ASSUME NEW owner \in OwnerKeys, Propose(owner)
      PROVE  /\ GovernanceInv' /\ ExecutesNothing
             /\ UNCHANGED <<lido, accounts, multisig, program, vault>>
  <2>1. \E ins : Draft(owner, ins)
    BY <1>3 DEF Propose, command_add_validator, command_deactivate_validator,
       command_remove_validator, command_add_maintainer, command_remove_maintainer,
       command_change_criteria, propose_migration, propose_change_reward_distribution,
       propose_revoke_owner, propose_add_owner, propose_change_multisig, propose_upgrade,
       propose_set_upgrade_authority, transfer_token, DraftIndexed
  <2>2. UNCHANGED <<lido, accounts, multisig, txs, program, vault>>
    BY <2>1 DEF Draft
  <2>. QED
    BY <1>3, <2>2, ProposeStep DEF ExecutesNothing
<1>4. ASSUME NEW owner \in OwnerKeys, NEW ts \in SUBSET DOMAIN txs, approve(owner, ts)
      PROVE  /\ GovernanceInv' /\ ExecutesNothing
             /\ UNCHANGED <<lido, accounts, multisig, program, vault>>
  <2>1. UNCHANGED <<lido, accounts, multisig, program, vault>>
    BY <1>4 DEF approve, deployment
  <2>. QED
    BY <1>4, <2>1, ApproveStep
<1>5. ASSUME NEW owner \in OwnerKeys, NEW t \in DOMAIN txs, show_transaction(owner, t)
      PROVE  /\ GovernanceInv' /\ ExecutesNothing
             /\ UNCHANGED <<lido, accounts, multisig, program, vault>>
  <2>1. UNCHANGED <<lido, accounts, multisig, txs, program, vault>>
    BY <1>5 DEF show_transaction, deployment
  <2>. QED
    BY <1>5, <2>1, ShowTransactionStep DEF ExecutesNothing
<1>6. ASSUME NEW landed \in BOOLEAN, propose_instruction(landed)
      PROVE  /\ GovernanceInv' /\ ExecutesNothing
             /\ UNCHANGED <<lido, accounts, multisig, program, vault>>
  <2>1. UNCHANGED <<lido, accounts, multisig, program, vault>>
    BY <1>6 DEF propose_instruction, deployment
  <2>2. /\ DOMAIN txs \subseteq DOMAIN txs'
        /\ \A t \in DOMAIN txs : txs'[t] = txs[t]
    <3>1. txs \in Seq(Transactions)
      BY DEF GovernanceInv, TransactionsAreSound
    <3>2. txs' = txs \/ \E tx : txs' = Append(txs, tx)
      BY <1>6 DEF propose_instruction, CreateTransaction
    <3>. QED
      BY <3>1, <3>2
  <2>. QED
    BY <1>6, <2>1, <2>2, ProposeInstructionStep DEF ExecutesNothing
<1>7. ASSUME NEW t \in DOMAIN txs, execute_transaction(t)
      PROVE  GovernanceInv' /\ Executes(t)
  <2>1. ExecuteTransaction(t) /\ ElseStays /\ session' = session
    BY <1>7 DEF execute_transaction, ElseStays
  <2>. QED
    BY <2>1, ExecuteStep
<1>8. ASSUME NEW yes \in BOOLEAN, approve_transactions(yes)
      PROVE  /\ GovernanceInv' /\ ExecutesNothing
             /\ UNCHANGED <<lido, accounts, multisig, program, vault>>
  <2>1. UNCHANGED <<lido, accounts, multisig, program, vault>>
    BY <1>8 DEF approve_transactions, deployment
  <2>. QED
    BY <1>8, <2>1, ApproveTransactionsStep
<1>9. ASSUME NEW yes \in BOOLEAN, execute_after_approval(yes)
      PROVE  /\ GovernanceInv'
             /\ \/ \E t \in DOMAIN txs : Executes(t)
                \/ ExecutesNothing /\ UNCHANGED <<lido, accounts, multisig, program, vault>>
  <2>1. /\ session.stage = "execute" /\ session' = NoSession /\ ElseStays
        /\ \/ ExecuteTransaction(session.tx)
           \/ UNCHANGED <<lido, accounts, multisig, txs, program, vault>>
    BY <1>9 DEF execute_after_approval, ElseStays
  <2>2. session.tx \in DOMAIN txs
    BY <2>1, SessionFacts DEF GovernanceInv
  <2>3. CASE ExecuteTransaction(session.tx)
    <3>. DEFINE t == session.tx
    <3>1. t \in DOMAIN txs /\ ExecuteTransaction(t)
      BY <2>2, <2>3
    <3>. HIDE DEF t
    <3>2. GovernanceInv' /\ Executes(t)
      BY <2>1, <3>1, ExecuteStep
    <3>. QED
      BY <3>1, <3>2
  <2>4. CASE UNCHANGED <<lido, accounts, multisig, txs, program, vault>>
    <3>1. InstanceInv' /\ AddressesStay
      BY <2>1, <2>4, InstanceStays DEF GovernanceInv, ElseStays
    <3>2. multisig # NoMultisig
      BY <2>1 DEF GovernanceInv, MultisigIsSound, NoSession
    <3>3. MultisigIsSound'
      BY <2>4, <3>2 DEF GovernanceInv, MultisigIsSound
    <3>4. TransactionsAreSound'
      BY <2>4, <3>1, TransactionsStay DEF GovernanceInv
    <3>. QED
      BY <2>1, <2>4, <3>1, <3>3, <3>4, NoSessionIsSound DEF GovernanceInv, ExecutesNothing
  <2>. QED
    BY <2>1, <2>3, <2>4
<1>10. ASSUME count_approvals
       PROVE  /\ GovernanceInv' /\ ExecutesNothing
              /\ UNCHANGED <<lido, accounts, multisig, program, vault>>
  <2>1. UNCHANGED <<lido, accounts, multisig, txs, program, vault>>
    BY <1>10 DEF count_approvals, deployment
  <2>. QED
    BY <1>10, <2>1, CountApprovalsStep DEF ExecutesNothing
<1>11. ASSUME NEW ins \in Attempts, SubmitDirectly(ins)
       PROVE  /\ GovernanceInv' /\ ExecutesNothing /\ lido.version = "v2"
              /\ ins.kind \in {"RemoveValidator", "ReactivateIfComplies"} /\ AllByKind(ins)
  <2>1. txs' = txs
    BY <1>11 DEF SubmitDirectly
  <2>. QED
    BY <1>11, <2>1, SubmitDirectlyStep DEF ExecutesNothing
<1>. QED
  BY <1>1, <1>2, <1>3, <1>4, <1>5, <1>6, <1>7, <1>8, <1>9, <1>10, <1>11 DEF Next

LEMMA StutteringKeepsAll ==
    ASSUME GovernanceInv, UNCHANGED vars
    PROVE  GovernanceInv'
<1>1. UNCHANGED <<lido, accounts, reserve, mints, tokens, setup, multisig, txs, session, vault>>
  BY DEF vars, deployment
<1>2. InstanceInv' /\ AddressesStay
  BY <1>1, InstanceStays DEF GovernanceInv
<1>3. TransactionsAreSound' /\ SessionIsSound'
  BY <1>1, <1>2, TransactionsStay, SessionStays DEF GovernanceInv
<1>. QED
  BY <1>1, <1>2, <1>3 DEF GovernanceInv, MultisigIsSound

(***************************************************************************)
(* The accounts of the instance, the set-up command, the owners, the       *)
(* proposals with the flags of those who agreed, and the open session stay *)
(* consistent, for all handlers, all commands and all of their orders.     *)
(***************************************************************************)
THEOREM GovernanceInvariant == Spec => []GovernanceInv
<1>1. ASSUME GovernanceInv, [Next]_vars
      PROVE  GovernanceInv'
  BY <1>1, NextStep, StutteringKeepsAll
<1>. QED
  BY <1>1, InitGovernance, PTL DEF Spec

(***************************************************************************)
(* Whichever transactions of whichever runs of the set-up commands were    *)
(* executed, and whatever addresses were passed to the migration, an       *)
(* instance that exists is one that the handlers can use, and stays so     *)
(* under all of their changes.                                             *)
(***************************************************************************)
THEOREM InstanceStaysUsable == Spec => []InstanceIsUsable
<1>1. ASSUME GovernanceInv
      PROVE  InstanceIsUsable
  <2>. SUFFICES ASSUME lido.version = "v2"
                PROVE  /\ reserve
                       /\ mints[lido.mint].authority = "mint_authority"
                       /\ tokens[lido.treasury] = lido.mint
                       /\ tokens[lido.developer] = lido.mint
                       /\ \A name \in {"validator_list", "maintainer_list"} :
                             LET list == accounts[lido[name]]
                             IN /\ list.type = Types[name]
                                /\ list.bytes >= required_bytes(name, list.max)
                                /\ Len(list.entries) <= list.max
    BY DEF InstanceIsUsable
  <2>1. V2IsSound
    BY <1>1, V2Facts DEF GovernanceInv
  <2>2. ASSUME NEW name \in TheLists
        PROVE  LET list == accounts[lido[name]]
               IN /\ list.type = Types[name]
                  /\ list.bytes >= required_bytes(name, list.max)
                  /\ Len(list.entries) <= list.max
    BY <1>1, ListFacts DEF GovernanceInv, IsList, Entries
  <2>. QED
    BY <2>1, <2>2 DEF V2IsSound, IsTokenOf, TheLists
<1>. QED
  BY <1>1, GovernanceInvariant, PTL

(***************************************************************************)
(* A run of create-solido whose first transactions were executed finds at  *)
(* its last one all that the program checks, whatever earlier runs left    *)
(* behind half done.  The exceptions: an instance that exists, a mint that *)
(* the operator passed and the program refuses, and a maximal commission of*)
(* more than 100 percent.                                                  *)
(***************************************************************************)
THEOREM SetupKeepsSucceeding == Spec => []SetupSucceeds
<1>1. ASSUME GovernanceInv
      PROVE  SetupSucceeds
  <2>. SUFFICES ASSUME setup.pc = "init", NEW criteria \in CriteriaOptions, lido = NoLido,
                       ~setup.given \/ check_mint(mints[setup.mint]),
                       IsWithinBounds(criteria.max_commission)
                PROVE  CanInitialize(NewLists, setup, criteria)
    BY DEF SetupSucceeds
  <2>1. /\ reserve /\ IsTokenOf(setup.treasury, setup.mint)
        /\ IsTokenOf(setup.developer, setup.mint)
        /\ ~setup.given => check_mint(mints[setup.mint])
    BY <1>1 DEF GovernanceInv, InstanceInv, SetupIsSound, Idle
  <2>2. ASSUME NEW name \in ListNames
        PROVE  check_account_data(NewLists[name], required_bytes(name, MaxEntries))
    <3>1. required_bytes(name, MaxEntries) \in Nat
      BY BytesAreNatural, DeploymentAssumption
    <3>2. NewLists[name] = Allocated(required_bytes(name, MaxEntries))
      BY DEF NewLists
    <3>. QED
      BY <3>1, <3>2 DEF check_account_data, Allocated
  <2>. QED
    BY <2>1, <2>2 DEF CanInitialize, check_is_st_sol_account, IsTokenOf
<1>. QED
  BY <1>1, GovernanceInvariant, PTL

(***************************************************************************)
(* The threshold never exceeds the number of owners, no proposal carries a *)
(* sequence number of the future, and whatever enough owners approved can  *)
(* be executed: no account of it lacks a privilege that the called program *)
(* demands, and nobody but the executor has to sign.                       *)
(***************************************************************************)
THEOREM OwnersKeepDeciding == Spec => []OwnersCanDecide
<1>1. ASSUME GovernanceInv
      PROVE  OwnersCanDecide
  <2>1. lido.version \in {"none", "v1", "v2"}
    BY <1>1 DEF GovernanceInv, InstanceInv, LidoIsSound, NoLido
  <2>2. \A i \in DOMAIN tokens : tokens[i] \in DOMAIN mints
    BY <1>1 DEF GovernanceInv, InstanceInv, TokensAreSound
  <2>3. multisig.owners \in Seq(OwnerKeys) /\ multisig.threshold \in 0 .. Len(multisig.owners)
    BY <1>1 DEF GovernanceInv, MultisigIsSound, Multisigs
  <2>4. \A t \in DOMAIN txs : txs[t].seqno <= multisig.seqno
    BY <1>1 DEF GovernanceInv, TransactionsAreSound, IsSoundTransaction
  <2>5. session.stage \in {"none", "propose", "shown", "count", "execute"}
    BY <1>1 DEF GovernanceInv, SessionIsSound, NoSession
  <2>6. ApprovedIsExecutable
    <3>1. ASSUME NEW t \in DOMAIN txs
          PROVE  txs[t].ins.kind \in Callable
      <4>1. txs[t] \in Transactions
        BY <1>1 DEF GovernanceInv, TransactionsAreSound
      <4>2. txs[t].ins \in Proposals
        BY <4>1 DEF Transactions
      <4>. QED
        BY <4>2, KindsOfProposals, AllAreCallable
    <3>. QED
      BY <3>1 DEF ApprovedIsExecutable
  <2>. QED
    BY <1>1, <2>1, <2>2, <2>3, <2>4, <2>5, <2>6 DEF OwnersCanDecide, TypeOK, GovernanceInv
<1>. QED
  BY <1>1, GovernanceInvariant, PTL

\* The flags are of owners who agreed, so there are no more of them than such owners.
LEMMA EnoughAgreed ==
    ASSUME GovernanceInv, NEW t \in DOMAIN txs, IsApproved(txs[t])
    PROVE  Cardinality({o \in txs[t].agreed : IsOwner(o)}) >= multisig.threshold
<1>. DEFINE agreed == txs[t].agreed
            signers == txs[t].signers
            f == [o \in agreed |-> IndexOf(o)]
<1>1. txs[t].seqno = multisig.seqno /\ Cardinality(signers) >= multisig.threshold
  BY DEF IsApproved
<1>2. /\ IsFiniteSet(agreed) /\ \A o \in agreed : IsOwner(o)
      /\ signers = {IndexOf(o) : o \in agreed}
  BY <1>1 DEF GovernanceInv, TransactionsAreSound, IsSoundTransaction
<1>3. f \in Surjection(agreed, signers)
  <2>1. f \in [agreed -> signers]
    BY <1>2
  <2>2. \A s \in signers : \E o \in agreed : f[o] = s
    BY <1>2
  <2>. QED
    BY <2>1, <2>2 DEF Surjection
<1>4. {o \in agreed : IsOwner(o)} = agreed
  BY <1>2
<1>. HIDE DEF agreed, signers, f
<1>5. IsFiniteSet(signers) /\ Cardinality(signers) <= Cardinality(agreed)
  BY <1>2, <1>3, FS_Surjection
<1>6. Cardinality(signers) \in Nat /\ Cardinality(agreed) \in Nat
  BY <1>2, <1>5, FS_CardinalityType
<1>7. multisig.threshold \in Nat
  BY DEF GovernanceInv, MultisigIsSound, Multisigs
<1>8. Cardinality(agreed) >= multisig.threshold
  BY <1>1, <1>5, <1>6, <1>7
<1>. QED
  BY <1>4, <1>8 DEF agreed

\* The execution of a proposal is a vote on what the proposal is for.
LEMMA ExecutionIsByVote ==
    ASSUME GovernanceInv, NEW t \in DOMAIN txs, Executes(t)
    PROVE  /\ \A kinds : txs[t].ins.kind \in kinds => t \in ByVote(kinds)
           /\ \A kinds, key : txs[t].ins.kind \in kinds /\ txs[t].ins.key = key
                                => ByVoteOn(kinds, key) # {}
<1>1. IsApproved(txs[t]) /\ txs'[t].did_execute
  BY DEF Executes
<1>2. ~txs[t].did_execute
  BY <1>1 DEF IsApproved
<1>3. Cardinality({o \in txs[t].agreed : IsOwner(o)}) >= multisig.threshold
  BY <1>1, EnoughAgreed
<1>4. \A kinds : txs[t].ins.kind \in kinds => t \in ByVote(kinds)
  BY <1>1, <1>2, <1>3 DEF ByVote
<1>. QED
  BY <1>4 DEF ByVoteOn

\* The keys of the lists of an instance of version 2.
LEMMA KeysOfLists ==
    ASSUME InstanceInv, lido.version = "v2", NEW name \in TheLists
    PROVE  ListKeys(name) = Keys(Entries(name))
<1>1. accounts[lido[name]].type = Types[name]
  BY ListFacts
<1>. QED
  BY <1>1 DEF ListKeys, deserialize_account_list_info, deserialize_lido

\* Set-up steps leave an instance of version 2 alone, and do not migrate one of version 1.
LEMMA SetUpLeavesInstance ==
    ASSUME InstanceInv, Set_up
    PROVE  /\ lido.version = "v2" => UNCHANGED <<lido, accounts>>
           /\ lido.version = "v1" => lido'.version = "v1"
           /\ lido' = NoLido => lido = NoLido
<1>1. ASSUME NEW given \in BOOLEAN, NEW mint \in 0 .. Len(GivenMints),
             command_create_solido(given, mint)
      PROVE  UNCHANGED <<lido, accounts>>
  BY <1>1 DEF command_create_solido
<1>2. ASSUME NEW landed \in BOOLEAN, NEW seen \in BOOLEAN,
             SendMint(landed, seen) \/ SendFees(landed, seen)
      PROVE  UNCHANGED <<lido, accounts>>
  BY <1>2 DEF SendMint, SendFees
<1>3. ASSUME NEW landed \in BOOLEAN, NEW fees \in FeeOptions, NEW criteria \in CriteriaOptions,
             SendInit(landed, fees, criteria)
      PROVE  UNCHANGED <<lido, accounts>> \/ lido = NoLido
  BY <1>3 DEF SendInit, process_initialize, CanInitialize
<1>4. ASSUME NEW mint \in DOMAIN mints, command_create_v2_accounts(mint)
      PROVE  lido.version = "v1" /\ lido' = lido
  BY <1>4 DEF command_create_v2_accounts
<1>5. ASSUME NEW bytes \in PerfListSizes, CreatePerfList(bytes)
      PROVE  lido.version = "v1" /\ lido' = lido
  BY <1>5 DEF CreatePerfList
<1>6. ASSUME DrainV1
      PROVE  lido.version = "v1" /\ lido'.version = "v1"
  <2>1. lido.version = "v1" /\ lido' = [lido EXCEPT !.validators = {}]
    BY <1>6 DEF DrainV1
  <2>2. V1IsSound
    BY <2>1 DEF InstanceInv, LidoIsSound, NoLido
  <2>. QED
    BY <2>1, <2>2 DEF V1IsSound, LidoV1
<1>. QED
  BY <1>1, <1>2, <1>3, <1>4, <1>5, <1>6 DEF Set_up, NoLido

\* When the instance, the owners, the program and the vault stay.
LEMMA NoChangeIsApproved ==
    ASSUME lido.version = "v2" => UNCHANGED <<lido, accounts>>,
           lido.version = "v1" => lido'.version = "v1",
           multisig = NoMultisig \/ multisig' = multisig, UNCHANGED <<program, vault>>
    PROVE  ChangeIsApproved
<1>1. ASSUME lido.version = "v2"
      PROVE  /\ ListKeys("validator_list")' = ListKeys("validator_list")
             /\ ListKeys("maintainer_list")' = ListKeys("maintainer_list")
             /\ \A v : StatusOf(v)' = StatusOf(v)
  BY <1>1 DEF ListKeys, StatusOf, Entries, deserialize_account_list_info, deserialize_lido
<1>. QED
  BY <1>1 DEF ChangeIsApproved, StatusIsApproved

\* All that an instruction changes on an instance of version 2, in terms of its lists.
LEMMA ListChanges ==
    ASSUME GovernanceInv, GovernanceInv', lido.version = "v2", NEW ins, ChangesByKind(ins)
    PROVE  /\ lido' # lido => /\ ins.kind \in {"ChangeCriteria", "ChangeRewardDistribution"}
                              /\ lido' = ChangedLido(ins)
           /\ \A m \in ListKeys("maintainer_list") \ ListKeys("maintainer_list")' :
                 ins.kind = "RemoveMaintainer" /\ ins.key = m
           /\ \A m \in ListKeys("maintainer_list")' \ ListKeys("maintainer_list") :
                 ins.kind = "AddMaintainer" /\ ins.key = m
           /\ \A v \in ListKeys("validator_list")' \ ListKeys("validator_list") :
                 ins.kind = "AddValidator" /\ ins.key = v
           /\ \A v \in ListKeys("validator_list") \ ListKeys("validator_list")' :
                 StatusOf(v) = "PendingRemoval"
           /\ \A v \in ListKeys("validator_list") \cap ListKeys("validator_list")' :
                 StatusByKind(ins, v)
<1>1. lido'.version = "v2"
  BY DEF ChangesByKind
<1>2. /\ ListKeys("maintainer_list") = Keys(Entries("maintainer_list"))
      /\ ListKeys("validator_list") = Keys(Entries("validator_list"))
  BY KeysOfLists DEF GovernanceInv, TheLists
<1>3. \A name \in TheLists : accounts'[lido'[name]].type = Types[name]
  <2>1. /\ accounts'[lido'.validator_list].type = "Validator"
        /\ accounts'[lido'.maintainer_list].type = "Maintainer"
    BY <1>1 DEF GovernanceInv, InstanceInv, LidoIsSound, NoLido, V2IsSound
  <2>. QED
    BY <2>1 DEF TheLists, Types
<1>4. /\ ListKeys("maintainer_list")' = Keys(Entries("maintainer_list")')
      /\ ListKeys("validator_list")' = Keys(Entries("validator_list")')
  BY <1>1, <1>3 DEF TheLists, ListKeys, deserialize_account_list_info, deserialize_lido
<1>. QED
  BY <1>2, <1>4 DEF ChangesByKind

LEMMA StepIsApproved ==
    ASSUME GovernanceInv, GovernanceInv', Next
    PROVE  ChangeIsApproved
<1>1. ASSUME NEW t \in DOMAIN txs, Executes(t)
      PROVE  ChangeIsApproved
  <2>. DEFINE ins == txs[t].ins
  <2>1. AllByKind(ins)
    BY <1>1 DEF Executes
  <2>2. /\ \A kinds : ins.kind \in kinds => t \in ByVote(kinds)
        /\ \A kinds, key : ins.kind \in kinds /\ ins.key = key => ByVoteOn(kinds, key) # {}
    BY <1>1, ExecutionIsByVote
  <2>3. /\ multisig # NoMultisig /\ multisig' # multisig =>
             \E u \in ByVote({"SetOwners"}) :
                 /\ multisig'.owners = txs[u].ins.owners
                 /\ multisig'.threshold = txs[u].ins.threshold
        /\ program' # program =>
             \/ \E u \in ByVote({"Upgrade"}) :
                   program' = [program EXCEPT !.image = txs[u].ins.image]
             \/ \E u \in ByVote({"SetAuthority"}) :
                   program' = [program EXCEPT !.authority = txs[u].ins.authority]
        /\ vault' # vault => \E u \in ByVote({"Transfer"}) : vault' = vault - txs[u].ins.amount
        /\ lido.version = "v1" /\ lido'.version = "v2" =>
             \E u \in ByVote({"MigrateStateToV2"}) :
                 /\ Rewards(lido') = <<txs[u].ins.fees, lido.treasury, txs[u].ins.developer>>
                 /\ \A name \in ListNames : lido'[name] = txs[u].ins[name]
    BY <2>1, <2>2 DEF AllByKind, IsMigration
  <2>4. ASSUME lido.version = "v2"
        PROVE  /\ lido' # lido =>
                    \E u \in ByVote({"ChangeCriteria", "ChangeRewardDistribution"}) :
                        lido' = ChangedLido(txs[u].ins)
               /\ \A m \in ListKeys("maintainer_list") \ ListKeys("maintainer_list")' :
                     ByVoteOn({"RemoveMaintainer"}, m) # {}
               /\ \A m \in ListKeys("maintainer_list")' \ ListKeys("maintainer_list") :
                     ByVoteOn({"AddMaintainer"}, m) # {}
               /\ \A v \in ListKeys("validator_list")' \ ListKeys("validator_list") :
                     ByVoteOn({"AddValidator"}, v) # {}
               /\ \A v \in ListKeys("validator_list") \ ListKeys("validator_list")' :
                     StatusOf(v) = "PendingRemoval"
               /\ \A v \in ListKeys("validator_list") \cap ListKeys("validator_list")' :
                     StatusIsApproved(v)
    <3>1. ChangesByKind(ins)
      BY <2>1, <2>4 DEF AllByKind
    <3>2. \A v : StatusByKind(ins, v) => StatusIsApproved(v)
      <4>. HIDE DEF ins
      <4>. QED
        BY <2>2 DEF StatusByKind, StatusIsApproved
    <3>3. lido' # lido => /\ ins.kind \in {"ChangeCriteria", "ChangeRewardDistribution"}
                          /\ lido' = ChangedLido(ins)
      BY <3>1 DEF ChangesByKind
    <3>4. lido' # lido => \E u \in ByVote({"ChangeCriteria", "ChangeRewardDistribution"}) :
                             lido' = ChangedLido(txs[u].ins)
      BY <2>2, <3>3
    <3>. HIDE DEF ins
    <3>. QED
      BY <2>2, <2>4, <3>1, <3>2, <3>4, ListChanges
  <2>. QED
    BY <2>3, <2>4 DEF ChangeIsApproved
<1>2. CASE SetsUp
  BY <1>2, SetUpLeavesInstance, NoChangeIsApproved DEF SetsUp, GovernanceInv
<1>3. CASE Creates
  BY <1>3, NoChangeIsApproved DEF Creates
<1>4. CASE UNCHANGED <<lido, accounts, multisig, program, vault>>
  BY <1>4, NoChangeIsApproved
<1>5. ASSUME NEW ins \in Attempts, AllByKind(ins), lido.version = "v2",
             ins.kind \in {"RemoveValidator", "ReactivateIfComplies"}
      PROVE  ChangeIsApproved
  <2>1. ChangesByKind(ins) /\ UNCHANGED <<multisig, program, vault>>
    BY <1>5 DEF AllByKind
  <2>2. \A v : StatusByKind(ins, v) => StatusIsApproved(v)
    BY <1>5 DEF StatusByKind, StatusIsApproved
  <2>. QED
    BY <1>5, <2>1, <2>2, ListChanges DEF ChangeIsApproved
<1>. QED
  BY <1>1, <1>2, <1>3, <1>4, <1>5, NextStep

(***************************************************************************)
(* Nobody changes the fees, the criteria, the maintainers, the validators, *)
(* the owners, the program or the tokens but by executing, once, a proposal*)
(* for just that change to which enough of the present owners agreed: not  *)
(* by a proposal that the owners of another time approved, nor by sending  *)
(* the instruction without the multisig, with its address or with another  *)
(* key as the manager.  A validator that is queued for removal can be      *)
(* removed by anyone, and one that is suspended be reactivated.            *)
(***************************************************************************)
THEOREM ChangesStayApproved == Spec => ChangesAreApproved
<1>1. ASSUME GovernanceInv, GovernanceInv', [Next]_vars
      PROVE  [ChangeIsApproved]_vars
  BY <1>1, StepIsApproved
<1>. QED
  BY <1>1, GovernanceInvariant, PTL DEF Spec, ChangesAreApproved

-----------------------------------------------------------------------------
(* What was displayed *)

\* What was displayed of a proposal of this kind and this sequence number.
IsSoundDisplay(d, kind, seqno) ==
    /\ d.done \subseteq {t \in DOMAIN txs : txs[t].did_execute}
    /\ \/ d.kind = kind
       \/ kind = "EnqueueValidatorForRemoval" /\ d.kind = "InvalidSolidoInstruction"
       \/ kind = "SetAuthority" /\ d.kind = "Unrecognized"
       \/ /\ kind = "ChangeRewardDistribution" /\ d.kind = "InvalidSolidoInstruction"
          /\ lido.version # "v2" \/ DoneSince(d, "MigrateStateToV2") # {}
    /\ kind = "SetOwners" /\ seqno = multisig.seqno => d.multisig = {multisig}
    /\ kind = "ChangeRewardDistribution" =>
          \/ d.rewards = {}
          \/ lido.version = "v2" /\ d.rewards \subseteq {Rewards(lido)}
          \/ DoneSince(d, "ChangeRewardDistribution") # {}

\* The displays that approvers were shown, and the one of the open session.
DisplayInv ==
    /\ lido = NoLido => txs = <<>> /\ session = NoSession
    /\ \A t \in DOMAIN txs : \A d \in txs[t].shown :
          IsSoundDisplay(d, txs[t].ins.kind, txs[t].seqno)
    /\ session.stage \in {"shown", "count", "execute"} =>
          IsSoundDisplay(session.seen, txs[session.tx].ins.kind, txs[session.tx].seqno)

\* A proposal of this kind is executed.
NowDone(kind) ==
    \E u \in DOMAIN txs : ~txs[u].did_execute /\ txs'[u].did_execute /\ txs[u].ins.kind = kind

\* What is true of all steps: proposals stay what they are, the owners change with their
\* sequence number, and the instance changes by the proposals that are executed.
HistoryGrows ==
    /\ DOMAIN txs \subseteq DOMAIN txs'
    /\ \A t \in DOMAIN txs : /\ txs'[t].ins = txs[t].ins /\ txs'[t].seqno = txs[t].seqno
                             /\ txs[t].did_execute => txs'[t].did_execute
    /\ multisig' = multisig \/ multisig'.seqno = multisig.seqno + 1
    /\ lido # NoLido => lido' # NoLido
    /\ lido # NoLido /\ lido.version # "v2" => lido'.version # "v2" \/ NowDone("MigrateStateToV2")
    /\ lido.version = "v2" =>
          /\ lido'.version = "v2"
          /\ Rewards(lido') = Rewards(lido) \/ NowDone("ChangeRewardDistribution")

\* What was displayed stays sound.
LEMMA DisplayStays ==
    ASSUME GovernanceInv, HistoryGrows, lido # NoLido, NEW d, NEW kind, NEW seqno \in Nat,
           seqno <= multisig.seqno, IsSoundDisplay(d, kind, seqno)
    PROVE  IsSoundDisplay(d, kind, seqno)'
<1>1. d.done \subseteq {t \in DOMAIN txs' : txs'[t].did_execute}
  BY DEF IsSoundDisplay, HistoryGrows
<1>2. \A k : DoneSince(d, k) \subseteq DoneSince(d, k)'
  BY DEF DoneSince, HistoryGrows
<1>3. \A k : NowDone(k) => DoneSince(d, k)' # {}
  <2>. SUFFICES ASSUME NEW k, NEW u \in DOMAIN txs, ~txs[u].did_execute, txs'[u].did_execute,
                       txs[u].ins.kind = k
                PROVE  DoneSince(d, k)' # {}
    BY DEF NowDone
  <2>1. u \notin d.done /\ u \in DOMAIN txs' /\ txs'[u].ins.kind = k
    BY DEF IsSoundDisplay, HistoryGrows
  <2>2. u \in DoneSince(d, k)'
    BY <2>1 DEF DoneSince
  <2>. QED
    BY <2>2
<1>4. kind = "SetOwners" /\ seqno = multisig'.seqno => d.multisig = {multisig'}
  <2>1. multisig.seqno \in Nat
    BY DEF GovernanceInv, MultisigIsSound, Multisigs
  <2>2. seqno = multisig'.seqno => multisig' = multisig
    BY <2>1 DEF HistoryGrows
  <2>. QED
    BY <2>2 DEF IsSoundDisplay
<1>5. ASSUME kind = "ChangeRewardDistribution", d.kind = "InvalidSolidoInstruction",
             lido.version # "v2" \/ DoneSince(d, "MigrateStateToV2") # {}
      PROVE  lido'.version # "v2" \/ DoneSince(d, "MigrateStateToV2")' # {}
  BY <1>2, <1>3, <1>5 DEF HistoryGrows
<1>6. ASSUME kind = "ChangeRewardDistribution"
      PROVE  \/ d.rewards = {}
             \/ lido'.version = "v2" /\ d.rewards \subseteq {Rewards(lido')}
             \/ DoneSince(d, "ChangeRewardDistribution")' # {}
  <2>1. CASE d.rewards = {}
    BY <2>1
  <2>2. CASE lido.version = "v2" /\ d.rewards \subseteq {Rewards(lido)}
    BY <1>3, <2>2 DEF HistoryGrows
  <2>3. CASE DoneSince(d, "ChangeRewardDistribution") # {}
    BY <1>2, <2>3
  <2>. QED
    BY <1>6, <2>1, <2>2, <2>3 DEF IsSoundDisplay
<1>7. \/ d.kind = kind
      \/ kind = "EnqueueValidatorForRemoval" /\ d.kind = "InvalidSolidoInstruction"
      \/ kind = "SetAuthority" /\ d.kind = "Unrecognized"
      \/ /\ kind = "ChangeRewardDistribution" /\ d.kind = "InvalidSolidoInstruction"
         /\ lido'.version # "v2" \/ DoneSince(d, "MigrateStateToV2")' # {}
  BY <1>5 DEF IsSoundDisplay
<1>8. Rewards(lido)' = Rewards(lido')
  BY DEF Rewards
<1>. QED
  BY <1>1, <1>4, <1>6, <1>7, <1>8 DEF IsSoundDisplay

\* A display is sound when it is made.
LEMMA NewDisplay ==
    ASSUME NEW kind \in Foreign \cup Managed, NEW seqno
    PROVE  IsSoundDisplay(Display(kind), kind, seqno)
<1>. DEFINE d == Display(kind)
<1>1. d.done \subseteq {t \in DOMAIN txs : txs[t].did_execute}
  BY DEF Display
<1>2. d.kind = parsed_instr(kind)
  BY DEF Display
<1>3. kind = "SetOwners" => d.multisig = {multisig}
  BY DEF Display
<1>4. ASSUME kind = "ChangeRewardDistribution"
      PROVE  d.rewards = {} \/ (lido.version = "v2" /\ d.rewards \subseteq {Rewards(lido)})
  <2>1. d.rewards = {} \/ (d.rewards = {Rewards(lido)} /\ parsed_instr(kind) = kind)
    BY <1>4 DEF Display
  <2>2. kind \in Managed /\ kind \notin {"Upgrade", "SetOwners"} /\ kind # "Transfer"
    BY <1>4 DEF Managed
  <2>3. parsed_instr(kind) = try_parse_solido_instruction(kind)
    BY <2>2 DEF parsed_instr
  <2>4. parsed_instr(kind) = kind => lido.version = "v2"
    BY <1>4, <2>3 DEF try_parse_solido_instruction, deserialize_lido
  <2>. QED
    BY <2>1, <2>4
<1>. HIDE DEF d
<1>. QED
  BY <1>1, <1>2, <1>3, <1>4, DisplayFacts DEF IsSoundDisplay, d

\* The steps as far as displays are concerned.
LEMMA HistoryStep ==
    ASSUME GovernanceInv, multisig # NoMultisig, Next
    PROVE  HistoryGrows
<1>1. ASSUME NEW t \in DOMAIN txs, Executes(t)
      PROVE  HistoryGrows
  <2>. DEFINE ins == txs[t].ins
  <2>1. AllByKind(ins) /\ ~txs[t].did_execute /\ txs'[t].did_execute
    BY <1>1 DEF Executes, IsApproved
  <2>2. \A kind : ins.kind = kind => NowDone(kind)
    BY <2>1 DEF NowDone
  <2>. HIDE DEF ins
  <2>3. ASSUME lido.version = "v2"
        PROVE  /\ lido'.version = "v2"
               /\ Rewards(lido') = Rewards(lido) \/ NowDone("ChangeRewardDistribution")
    <3>1. ChangesByKind(ins)
      BY <2>1, <2>3 DEF AllByKind
    <3>2. CASE ins.kind = "ChangeCriteria" /\ lido' = ChangedLido(ins)
      <4>1. lido' = [lido EXCEPT !.criteria = ins.criteria]
        BY <3>2 DEF ChangedLido
      <4>2. DOMAIN lido = V2Fields
        BY <2>3, V2Facts DEF GovernanceInv, V2IsSound
      <4>3. Rewards(lido') = Rewards(lido)
        BY <4>1, <4>2 DEF Rewards, V2Fields
      <4>. QED
        BY <3>1, <4>3 DEF ChangesByKind
    <3>. QED
      BY <2>2, <3>1, <3>2 DEF ChangesByKind
  <2>4. ASSUME lido.version # "v2"
        PROVE  /\ lido' = lido \/ lido'.version = "v2"
               /\ lido'.version # "v2" \/ NowDone("MigrateStateToV2")
    BY <2>1, <2>2, <2>4 DEF AllByKind, IsMigration
  <2>5. lido # NoLido => lido' # NoLido
    BY <2>3, <2>4 DEF NoLido
  <2>. QED
    BY <1>1, <2>3, <2>4, <2>5 DEF Executes, HistoryGrows
<1>2. ASSUME ExecutesNothing, multisig' = multisig, lido' = lido
      PROVE  HistoryGrows
  BY <1>2 DEF ExecutesNothing, HistoryGrows
<1>3. ASSUME ExecutesNothing, SetsUp
      PROVE  HistoryGrows
  <2>1. /\ lido.version = "v2" => lido' = lido
        /\ lido.version = "v1" => lido'.version = "v1"
        /\ lido' = NoLido => lido = NoLido
    BY <1>3, SetUpLeavesInstance DEF SetsUp, GovernanceInv
  <2>2. lido # NoLido /\ lido.version # "v2" => lido'.version # "v2"
    BY <2>1 DEF GovernanceInv, InstanceInv, LidoIsSound
  <2>. QED
    BY <1>3, <2>1, <2>2 DEF ExecutesNothing, SetsUp, HistoryGrows
<1>4. ASSUME ExecutesNothing, lido.version = "v2", NEW ins, AllByKind(ins),
             ins.kind \in {"RemoveValidator", "ReactivateIfComplies"}
      PROVE  HistoryGrows
  <2>1. lido' = lido /\ multisig' = multisig
    BY <1>4 DEF AllByKind, ChangesByKind
  <2>. QED
    BY <1>2, <1>4, <2>1
<1>. QED
  BY <1>1, <1>2, <1>3, <1>4, NextStep DEF Creates

\* Where displays come from: the open session adds its own when it approves.
ShownGrows ==
    \A t \in DOMAIN txs' : \A d \in txs'[t].shown :
        /\ t \in DOMAIN txs
        /\ \/ d \in txs[t].shown
           \/ session.stage = "shown" /\ t = session.tx /\ d = session.seen

\* A session keeps its display, or has just made it.
SessionMoves ==
    session'.stage \in {"shown", "count", "execute"} =>
        \/ /\ session.stage \in {"shown", "count", "execute"}
           /\ session'.tx = session.tx /\ session'.seen = session.seen
        \/ /\ session'.tx \in DOMAIN txs
           /\ session'.seen = Display(txs[session'.tx].ins.kind)
           /\ UNCHANGED <<lido, multisig, txs>>

\* Without an instance or without owners nothing is proposed.
NothingStarts ==
    (lido = NoLido \/ multisig = NoMultisig) /\ txs = <<>> /\ session = NoSession
        => txs' = <<>> /\ session' = NoSession

LEMMA MovesStep ==
    ASSUME GovernanceInv, Next
    PROVE  ShownGrows /\ SessionMoves /\ NothingStarts
<1>. DEFINE Goal == ShownGrows /\ SessionMoves /\ NothingStarts
<1>. HIDE DEF Goal
<1>1. ASSUME UNCHANGED <<txs, session>>
      PROVE  Goal
  BY <1>1 DEF Goal, ShownGrows, SessionMoves, NothingStarts
<1>2. ASSUME DOMAIN txs' = DOMAIN txs, \A t \in DOMAIN txs : txs'[t].shown = txs[t].shown,
             session' = session \/ session' = NoSession
      PROVE  Goal
  <2>1. txs = <<>> => txs' = <<>>
    <3>1. txs' \in Seq(Transactions)
      BY NextStep DEF GovernanceInv, TransactionsAreSound
    <3>. QED
      BY <1>2, <3>1
  <2>2. NoSession.stage = "none"
    BY DEF NoSession
  <2>. QED
    BY <1>2, <2>1, <2>2 DEF Goal, ShownGrows, SessionMoves, NothingStarts
<1>3. ASSUME NEW owner \in OwnerKeys, Propose(owner)
      PROVE  Goal
  <2>1. \E ins : Draft(owner, ins)
    BY <1>3 DEF Propose, command_add_validator, command_deactivate_validator,
       command_remove_validator, command_add_maintainer, command_remove_maintainer,
       command_change_criteria, propose_migration, propose_change_reward_distribution,
       propose_revoke_owner, propose_add_owner, propose_change_multisig, propose_upgrade,
       propose_set_upgrade_authority, transfer_token, DraftIndexed
  <2>2. /\ txs' = txs /\ session'.stage = "propose" /\ lido # NoLido /\ IsOwner(owner)
    BY <2>1 DEF Draft
  <2>3. multisig # NoMultisig
    BY <2>2, OwnerFacts DEF GovernanceInv
  <2>. QED
    BY <2>2, <2>3 DEF Goal, ShownGrows, SessionMoves, NothingStarts
<1>4. ASSUME NEW owner \in OwnerKeys, NEW ts \in SUBSET DOMAIN txs, approve(owner, ts)
      PROVE  Goal
  <2>1. session' = session
    BY <1>4 DEF approve
  <2>. QED
    BY <1>2, <1>4, <2>1, ApproveStep
<1>5. ASSUME NEW owner \in OwnerKeys, NEW t \in DOMAIN txs, show_transaction(owner, t)
      PROVE  Goal
  <2>1. /\ UNCHANGED <<lido, multisig, txs>>
        /\ session'.tx = t /\ session'.seen = Display(txs[t].ins.kind)
    BY <1>5 DEF show_transaction, deployment
  <2>. QED
    BY <2>1 DEF Goal, ShownGrows, SessionMoves, NothingStarts
<1>6. ASSUME NEW landed \in BOOLEAN, propose_instruction(landed)
      PROVE  Goal
  <2>1. session.stage = "propose" /\ session' = NoSession
    BY <1>6 DEF propose_instruction
  <2>2. txs \in Seq(Transactions)
    BY DEF GovernanceInv, TransactionsAreSound
  <2>3. txs' = txs \/ \E tx : txs' = Append(txs, tx) /\ tx.shown = {}
    BY <1>6 DEF propose_instruction, CreateTransaction
  <2>4. ShownGrows
    <3>1. CASE txs' = txs
      BY <3>1 DEF ShownGrows
    <3>2. ASSUME NEW tx, txs' = Append(txs, tx), tx.shown = {}
          PROVE  ShownGrows
      <4>1. \A t \in DOMAIN txs' : (t \in DOMAIN txs /\ txs'[t] = txs[t]) \/ txs'[t] = tx
        BY <2>2, <3>2
      <4>. QED
        BY <3>2, <4>1 DEF ShownGrows
    <3>. QED
      BY <2>3, <3>1, <3>2
  <2>. QED
    BY <2>1, <2>4 DEF Goal, SessionMoves, NothingStarts, NoSession
<1>7. ASSUME NEW t \in DOMAIN txs, Executes(t), session' = session \/ session' = NoSession
      PROVE  Goal
  BY <1>2, <1>7 DEF Executes
<1>8. ASSUME NEW t \in DOMAIN txs, execute_transaction(t)
      PROVE  Goal
  <2>1. ExecuteTransaction(t) /\ ElseStays /\ session' = session
    BY <1>8 DEF execute_transaction, ElseStays
  <2>. QED
    BY <1>7, <2>1, ExecuteStep
<1>9. ASSUME NEW yes \in BOOLEAN, approve_transactions(yes)
      PROVE  Goal
  <2>. DEFINE u == session.tx
              seen == session.seen
              new == Approved(u, session.who, {seen})
  <2>1. /\ session.stage = "shown"
        /\ \/ session' = NoSession /\ txs' = txs
           \/ /\ txs' = [txs EXCEPT ![u] = new]
              /\ session' = [session EXCEPT !.stage = "count"]
    BY <1>9 DEF approve_transactions
  <2>2. /\ session \in [stage : {"shown", "count", "execute"}, who : OwnerKeys,
                        tx : Nat, seen : Displays]
        /\ u \in DOMAIN txs
    BY <2>1, SessionFacts DEF GovernanceInv
  <2>3. CASE session' = NoSession /\ txs' = txs
    BY <1>2, <2>3
  <2>4. CASE /\ txs' = [txs EXCEPT ![u] = new]
             /\ session' = [session EXCEPT !.stage = "count"]
    <3>1. session'.tx = u /\ session'.seen = seen
      BY <2>2, <2>4
    <3>2. txs[u] \in Transactions
      BY <2>2 DEF GovernanceInv, TransactionsAreSound
    <3>3. new.shown = txs[u].shown \cup {seen}
      BY <3>2 DEF Approved, Transactions
    <3>. HIDE DEF new
    <3>4. ShownGrows
      BY <2>1, <2>2, <2>4, <3>3 DEF ShownGrows
    <3>5. session # NoSession
      BY <2>1 DEF NoSession
    <3>. QED
      BY <2>1, <3>1, <3>4, <3>5 DEF Goal, SessionMoves, NothingStarts
  <2>. QED
    BY <2>1, <2>3, <2>4
<1>10. ASSUME NEW yes \in BOOLEAN, execute_after_approval(yes)
       PROVE  Goal
  <2>1. /\ session.stage = "execute" /\ session' = NoSession /\ ElseStays
        /\ \/ ExecuteTransaction(session.tx)
           \/ txs' = txs
    BY <1>10 DEF execute_after_approval, ElseStays
  <2>2. CASE txs' = txs
    BY <1>2, <2>1, <2>2
  <2>3. CASE ExecuteTransaction(session.tx)
    <3>. DEFINE t == session.tx
    <3>1. t \in DOMAIN txs
      BY <2>1, SessionFacts DEF GovernanceInv
    <3>2. ExecuteTransaction(t)
      BY <2>3
    <3>. HIDE DEF t
    <3>. QED
      BY <1>7, <2>1, <3>1, <3>2, ExecuteStep
  <2>. QED
    BY <2>1, <2>2, <2>3
<1>11. ASSUME count_approvals
       PROVE  Goal
  <2>1. /\ session.stage = "count" /\ txs' = txs
        /\ session' = NoSession \/ session' = [session EXCEPT !.stage = "execute"]
    BY <1>11 DEF count_approvals
  <2>2. session \in [stage : {"shown", "count", "execute"}, who : OwnerKeys,
                     tx : Nat, seen : Displays]
    BY <2>1, SessionFacts DEF GovernanceInv
  <2>3. CASE session' = NoSession
    BY <1>2, <2>1, <2>3
  <2>4. CASE session' = [session EXCEPT !.stage = "execute"]
    <3>1. session'.tx = session.tx /\ session'.seen = session.seen /\ session # NoSession
      BY <2>1, <2>2, <2>4 DEF NoSession
    <3>. QED
      BY <2>1, <3>1 DEF Goal, ShownGrows, SessionMoves, NothingStarts
  <2>. QED
    BY <2>1, <2>3, <2>4
<1>12. ASSUME \/ Set_up /\ UNCHANGED <<multisig, txs, session, program, vault>>
              \/ \E threshold \in Thresholds \cup {FirstThreshold} :
                    create_multisig(Founders, threshold)
              \/ \E ins \in Attempts : SubmitDirectly(ins)
       PROVE  Goal
  BY <1>1, <1>12 DEF create_multisig, SubmitDirectly
<1>. QED
  BY <1>3, <1>4, <1>5, <1>6, <1>8, <1>9, <1>10, <1>11, <1>12 DEF Next, Goal

LEMMA DisplayStep ==
    ASSUME GovernanceInv, GovernanceInv', DisplayInv, Next
    PROVE  DisplayInv'
<1>1. ShownGrows /\ SessionMoves /\ NothingStarts
  BY MovesStep
<1>2. CASE txs' = <<>> /\ session' = NoSession
  BY <1>2 DEF DisplayInv, NoSession
<1>3. CASE ~(txs' = <<>> /\ session' = NoSession)
  <2>1. lido # NoLido /\ multisig # NoMultisig
    BY <1>1, <1>3 DEF NothingStarts, DisplayInv, GovernanceInv, MultisigIsSound
  <2>2. HistoryGrows
    BY <2>1, HistoryStep
  <2>3. \A d, kind : \A seqno \in Nat :
           seqno <= multisig.seqno /\ IsSoundDisplay(d, kind, seqno)
              => IsSoundDisplay(d, kind, seqno)'
    BY <2>1, <2>2, DisplayStays
  <2>4. ASSUME NEW t \in DOMAIN txs
        PROVE  /\ txs[t].seqno \in Nat /\ txs[t].seqno <= multisig.seqno
               /\ t \in DOMAIN txs'
               /\ txs'[t].ins.kind = txs[t].ins.kind /\ txs'[t].seqno = txs[t].seqno
    <3>1. txs[t] \in Transactions /\ IsSoundTransaction(txs[t])
      BY DEF GovernanceInv, TransactionsAreSound
    <3>. QED
      BY <2>2, <3>1 DEF Transactions, IsSoundTransaction, HistoryGrows
  <2>5. session.stage \in {"shown", "count", "execute"} =>
          session.tx \in DOMAIN txs
    BY SessionFacts DEF GovernanceInv
  <2>6. ASSUME NEW t \in DOMAIN txs', NEW d \in txs'[t].shown
        PROVE  IsSoundDisplay(d, txs[t].ins.kind, txs[t].seqno)'
    <3>. DEFINE kind == txs[t].ins.kind
                seqno == txs[t].seqno
    <3>1. t \in DOMAIN txs /\ IsSoundDisplay(d, kind, seqno)
      BY <1>1 DEF ShownGrows, DisplayInv
    <3>2. seqno \in Nat /\ seqno <= multisig.seqno
      BY <2>4, <3>1
    <3>3. kind = kind' /\ seqno = seqno'
      BY <2>4, <3>1
    <3>. HIDE DEF kind, seqno
    <3>4. \A k, s : k = kind /\ s = seqno => IsSoundDisplay(d, k, s)'
      BY <2>3, <3>1, <3>2
    <3>5. IsSoundDisplay(d, kind, seqno)'
      BY <3>3, <3>4
    <3>. QED
      BY <3>5 DEF kind, seqno
  <2>7. ASSUME session'.stage \in {"shown", "count", "execute"}
        PROVE  IsSoundDisplay(session.seen, txs[session.tx].ins.kind, txs[session.tx].seqno)'
    <3>. DEFINE d == session.seen
                kind == txs[session.tx].ins.kind
                seqno == txs[session.tx].seqno
    <3>1. ASSUME IsSoundDisplay(d', kind', seqno'), session'.tx \in DOMAIN txs
          PROVE  IsSoundDisplay(d, kind, seqno)'
      <4>1. seqno' \in Nat /\ seqno' <= multisig.seqno
        BY <2>4, <3>1
      <4>. HIDE DEF d, kind, seqno
      <4>2. \A e, k, s : e = d' /\ k = kind' /\ s = seqno' => IsSoundDisplay(e, k, s)'
        BY <2>3, <3>1, <4>1
      <4>. QED
        BY <4>2
    <3>2. CASE /\ session.stage \in {"shown", "count", "execute"}
               /\ session'.tx = session.tx /\ session'.seen = session.seen
      <4>1. session.tx \in DOMAIN txs
        BY <2>5, <3>2
      <4>2. d' = d /\ kind' = kind /\ seqno' = seqno
        BY <2>4, <3>2, <4>1
      <4>3. IsSoundDisplay(d, kind, seqno)
        BY <3>2 DEF DisplayInv
      <4>. HIDE DEF d, kind, seqno
      <4>4. IsSoundDisplay(d', kind', seqno')
        BY <4>2, <4>3
      <4>. QED
        BY <3>1, <3>2, <4>1, <4>4 DEF d, kind, seqno
    <3>3. CASE /\ session'.tx \in DOMAIN txs
               /\ session'.seen = Display(txs[session'.tx].ins.kind)
               /\ UNCHANGED <<lido, multisig, txs>>
      <4>1. d' = Display(kind')
        BY <3>3
      <4>2. kind' \in Foreign \cup Managed
        <5>1. txs[session'.tx] \in Transactions
          BY <3>3 DEF GovernanceInv, TransactionsAreSound
        <5>2. txs[session'.tx].ins \in Proposals
          BY <5>1 DEF Transactions
        <5>. QED
          BY <3>3, <5>2, KindsOfProposals
      <4>. HIDE DEF d, kind, seqno
      <4>3. IsSoundDisplay(d', kind', seqno')
        BY <4>1, <4>2, NewDisplay
      <4>. QED
        BY <3>1, <3>3, <4>3 DEF d, kind, seqno
    <3>. QED
      BY <1>1, <2>7, <3>2, <3>3 DEF SessionMoves
  <2>. QED
    BY <2>1, <2>2, <2>6, <2>7 DEF DisplayInv, HistoryGrows
<1>. QED
  BY <1>2, <1>3

LEMMA StepShowsCurrent ==
    ASSUME GovernanceInv, DisplayInv, Next
    PROVE  DisplayIsCurrent
<1>. SUFFICES ASSUME NEW t \in ByVote(Foreign \cup Managed), NEW d \in txs[t].shown
              PROVE  /\ KindIsCurrent(d, txs[t].ins.kind)
                     /\ txs[t].ins.kind = "SetOwners" => d.multisig = {multisig}
                     /\ txs[t].ins.kind = "ChangeRewardDistribution" =>
                           \/ d.rewards \subseteq {Rewards(lido)}
                           \/ DoneSince(d, "ChangeRewardDistribution") # {}
  BY DEF DisplayIsCurrent
<1>. DEFINE kind == txs[t].ins.kind
<1>1. /\ t \in DOMAIN txs /\ ~txs[t].did_execute /\ txs'[t].did_execute
      /\ kind \in Foreign \cup Managed
  BY DEF ByVote
<1>2. Executes(t)
  BY <1>1, NextStep DEF Executes, ExecutesNothing
<1>3. txs[t].seqno = multisig.seqno
  BY <1>2 DEF Executes, IsApproved
<1>4. IsSoundDisplay(d, kind, multisig.seqno)
  BY <1>1, <1>3 DEF DisplayInv
<1>5. kind = "ChangeRewardDistribution" => lido.version = "v2"
  BY <1>2 DEF Executes, AllByKind, Foreign, ForeignAccounts
<1>. HIDE DEF kind
<1>6. KindIsCurrent(d, kind)
  BY <1>4, <1>5 DEF IsSoundDisplay, KindIsCurrent
<1>. QED
  BY <1>4, <1>6 DEF IsSoundDisplay, kind

(***************************************************************************)
(* Between the display of a proposal and its execution other owners act,   *)
(* and the owners and the instance may change.  Even so the owners that a  *)
(* proposal replaces are those to which the difference was displayed in a  *)
(* batch approval, and its kind is what was displayed, if it can be        *)
(* displayed at all; but the reward distribution to which a difference was *)
(* displayed may have been replaced since, by another proposal of the kind.*)
(***************************************************************************)
THEOREM ShownStaysCurrent == Spec => ShownIsCurrent
<1>1. Init => DisplayInv
  BY DEF Init, DisplayInv, NoSession
<1>2. ASSUME GovernanceInv, GovernanceInv', DisplayInv, [Next]_vars
      PROVE  DisplayInv'
  <2>1. CASE Next
    BY <1>2, <2>1, DisplayStep
  <2>2. CASE UNCHANGED vars
    BY <1>2, <2>2 DEF vars, deployment, DisplayInv, IsSoundDisplay, DoneSince
  <2>. QED
    BY <1>2, <2>1, <2>2
<1>3. ASSUME GovernanceInv, DisplayInv, [Next]_vars
      PROVE  [DisplayIsCurrent]_vars
  BY <1>3, StepShowsCurrent
<1>. QED
  BY <1>1, <1>2, <1>3, GovernanceInvariant, PTL DEF Spec, ShownIsCurrent

=============================================================================
