----------------------------- MODULE Governance -----------------------------
(***************************************************************************)
(* Who may change an instance: the owners of a multisig, whose program     *)
(* derived address is the manager of the instance and the upgrade authority*)
(* of the program.  Commands propose an instruction, owners approve it, and*)
(* anyone executes it once enough have.  The multisig program is not part  *)
(* of the repository; its operations are modelled from how the commands use*)
(* them.                                                                   *)
(*                                                                         *)
(* A command reads the chain first and sends its transaction later, and a  *)
(* batch approval shows a proposal, asks, approves, counts, asks again and *)
(* executes: in between the chain moves on.  One such session is open at a *)
(* time; the other owners take their steps while it is.                    *)
(*                                                                         *)
(* Anyone may send the same instructions without the multisig, with the    *)
(* address of the manager, which does not sign then, or with a key of their*)
(* own in its place, which does.                                           *)
(*                                                                         *)
(* Stake is not part of this module: a validator that is queued for removal*)
(* has none left, and vote accounts meet the criteria (DeactivateIfViolates*)
(* changes nothing then).                                                  *)
(***************************************************************************)
EXTENDS Deployment, Filter

CONSTANTS
    OwnerKeys,   \* keys that can be owners
    Founders,         \* the owners of the new multisig: a sequence of keys
    FirstThreshold,   \* its threshold
    Thresholds,       \* thresholds that are proposed
    Candidates,       \* keys that are proposed to be added or revoked
    MaxOwners,        \* how many owners fit the account of the multisig
    Maintainers,      \* keys that can be maintainers
    Votes,            \* vote accounts that can be validators
    Running,          \* lists and fees of an instance that was initialized long ago
    MaxProposals,     \* bound: proposals
    MigrationArguments, \* addresses of lists and maximal commissions that the operator passes
    VaultSize         \* tokens in an account of the multisig

\* What entries of the two lists are.
ValidatorEntries ==
    [pubkey : Votes, status : {"AcceptingStakes", "StakesSuspended", "PendingRemoval"}]
MaintainerEntries == [pubkey : Maintainers]

\* Lists that exist from the start hold no key twice, as all lists of the program; the
\* arguments of the migration are addresses of the three accounts created for it.
ASSUME GovernanceAssumption ==
    /\ Founders \in Seq(OwnerKeys)
    /\ FirstThreshold \in 1 .. Len(Founders)
    /\ Thresholds \subseteq Nat
    /\ Candidates \subseteq OwnerKeys
    /\ MaxOwners \in Nat
    /\ MaxProposals \in Nat
    /\ VaultSize \in Nat
    /\ Running.validators \in Seq(ValidatorEntries)
    /\ Running.maintainers \in Seq(MaintainerEntries)
    /\ HasUniqueKeys(Running.validators) /\ Len(Running.validators) <= MaxEntries
    /\ HasUniqueKeys(Running.maintainers) /\ Len(Running.maintainers) <= MaxEntries
    /\ LegacyMaintainers \in Seq(Maintainers)
    /\ \A i, j \in DOMAIN LegacyMaintainers :
          LegacyMaintainers[i] = LegacyMaintainers[j] => i = j
    /\ MigrationArguments \subseteq (1..3) \X (1..3) \X (1..3) \X (0..255)

VARIABLES
    multisig,    \* its account
    txs,         \* the transaction accounts, in the order of their creation
    session,     \* the command of one owner that is waiting
    program,     \* the image of the program, and who can upgrade it
    vault        \* tokens of the multisig

vars == <<deployment, multisig, txs, session, program, vault>>

NoMultisig == [owners |-> <<>>, threshold |-> 0, seqno |-> 0]
NoSession == [stage |-> "none"]

IsOwner(key) == \E i \in DOMAIN multisig.owners : multisig.owners[i] = key
IndexOf(key) == CHOOSE i \in DOMAIN multisig.owners : multisig.owners[i] = key

-----------------------------------------------------------------------------
(* Handlers of the instructions that a manager sends *)

process_add_maintainer(ins, manager) ==
    /\ ins.kind = "AddMaintainer"
    /\ deserialize_account_list_info("maintainer_list")
    /\ check_manager(manager)
    /\ CanPush(Entries("maintainer_list"), accounts[lido.maintainer_list].max, ins.key)
    /\ SaveEntries("maintainer_list",
                   Append(Entries("maintainer_list"), [pubkey |-> ins.key]))

process_remove_maintainer(ins, manager) ==
    /\ ins.kind = "RemoveMaintainer"
    /\ deserialize_account_list_info("maintainer_list")
    /\ check_manager(manager)
    /\ IsAt(Entries("maintainer_list"), ins.index, ins.key)
    /\ SaveEntries("maintainer_list", SwapRemove(Entries("maintainer_list"), ins.index))

process_add_validator(ins, manager) ==
    /\ ins.kind = "AddValidator"
    /\ deserialize_account_list_info("validator_list")
    /\ check_manager(manager)
    /\ CanPush(Entries("validator_list"), accounts[lido.validator_list].max, ins.key)
    /\ SaveEntries("validator_list", Append(Entries("validator_list"),
                   [pubkey |-> ins.key, status |-> "AcceptingStakes"]))

\* The validator that is named by index and key gets a new status, if it has one of these.
SetStatus(ins, from, new) ==
    /\ deserialize_account_list_info("validator_list")
    /\ IsAt(Entries("validator_list"), ins.index, ins.key)
    /\ SaveEntries("validator_list", [Entries("validator_list") EXCEPT
                                       ![ins.index].status = IF @ \in from THEN new ELSE @])

process_enqueue_validator_for_removal(ins, manager) ==
    /\ ins.kind = "EnqueueValidatorForRemoval"
    /\ deserialize_lido /\ check_manager(manager)
    /\ SetStatus(ins, {"AcceptingStakes", "StakesSuspended"}, "PendingRemoval")

process_deactivate_validator(ins, manager) ==
    /\ ins.kind = "DeactivateValidator"
    /\ deserialize_lido /\ check_manager(manager)
    /\ SetStatus(ins, {"AcceptingStakes"}, "StakesSuspended")

\* Finds the validator by its key; needs no manager.
process_reactivate_if_complies(ins) ==
    /\ ins.kind = "ReactivateIfComplies"
    /\ deserialize_account_list_info("validator_perf_list")
    /\ SetStatus(ins, {"StakesSuspended"}, "AcceptingStakes")

\* Needs no manager.
process_remove_validator(ins) ==
    /\ ins.kind = "RemoveValidator"
    /\ deserialize_account_list_info("validator_list")
    /\ IsAt(Entries("validator_list"), ins.index, ins.key)
    /\ Entries("validator_list")[ins.index].status = "PendingRemoval"
    /\ SaveEntries("validator_list", SwapRemove(Entries("validator_list"), ins.index))

process_change_criteria(ins, manager) ==
    /\ ins.kind = "ChangeCriteria"
    /\ IsWithinBounds(ins.criteria.max_commission)
    /\ deserialize_lido
    /\ check_manager(manager)
    /\ lido' = [lido EXCEPT !.criteria = ins.criteria]
    /\ UNCHANGED accounts

process_change_reward_distribution(ins, manager) ==
    /\ ins.kind = "ChangeRewardDistribution"
    /\ deserialize_lido
    /\ check_manager(manager)
    /\ check_is_st_sol_account(lido.mint, ins.treasury)
    /\ check_is_st_sol_account(lido.mint, ins.developer)
    /\ lido' = [lido EXCEPT !.fees = ins.fees, !.treasury = ins.treasury,
                            !.developer = ins.developer]
    /\ UNCHANGED accounts

\* The handler of a Solido instruction runs; this account is given as the manager, if the
\* instruction wants one.
Handle(ins, manager) ==
    /\ \/ process_add_maintainer(ins, manager) \/ process_remove_maintainer(ins, manager)
       \/ process_add_validator(ins, manager) \/ process_remove_validator(ins)
       \/ process_enqueue_validator_for_removal(ins, manager)
       \/ process_deactivate_validator(ins, manager) \/ process_reactivate_if_complies(ins)
       \/ process_change_criteria(ins, manager)
       \/ process_change_reward_distribution(ins, manager)
       \/ ins.kind = "MigrateStateToV2" /\ process_migrate_to_v2(ins, manager)
    /\ UNCHANGED <<multisig, program, vault>>

-----------------------------------------------------------------------------
(* Instructions of other programs that are proposed *)

\* Mutation: approvals stay valid when the owners change.
SetOwnersAndChangeThreshold_Bug(ins) ==
    /\ ins.kind = "SetOwners"
    /\ multisig' = [multisig EXCEPT !.owners = ins.owners, !.threshold = ins.threshold]
    /\ UNCHANGED <<lido, accounts, program, vault>>

SetOwnersAndChangeThreshold(ins) ==
    /\ ins.kind = "SetOwners"
    /\ ins.threshold \in 1 .. Len(ins.owners)
    /\ Len(ins.owners) <= MaxOwners
    /\ \A i, j \in DOMAIN ins.owners : ins.owners[i] = ins.owners[j] => i = j
    /\ multisig' = [owners |-> ins.owners, threshold |-> ins.threshold,
                    seqno |-> multisig.seqno + 1]
    /\ UNCHANGED <<lido, accounts, program, vault>>

Upgrade(ins) ==
    /\ ins.kind = "Upgrade"
    /\ program.authority = "multisig"
    /\ program' = [program EXCEPT !.image = ins.image]
    /\ UNCHANGED <<lido, accounts, multisig, vault>>

SetAuthority(ins) ==
    /\ ins.kind = "SetAuthority"
    /\ program.authority = "multisig"
    /\ program' = [program EXCEPT !.authority = ins.authority]
    /\ UNCHANGED <<lido, accounts, multisig, vault>>

Transfer(ins) ==
    /\ ins.kind = "Transfer"
    /\ ins.amount <= vault
    /\ vault' = vault - ins.amount
    /\ UNCHANGED <<lido, accounts, multisig, program>>

\* The accounts that these instructions list.
ForeignAccounts ==
    [SetOwners    |-> <<W("multisig"), S("manager")>>,
     Upgrade      |-> <<W("program_data"), W("program"), W("buffer"), W("spill"),
                        R("sysvar_rent"), R("sysvar_clock"), S("manager")>>,
     SetAuthority |-> <<W("program_data"), S("manager"), R("new_authority")>>,
     Transfer     |-> <<W("from"), W("to"), S("manager")>>]

Foreign == DOMAIN ForeignAccounts
Managed == {"AddMaintainer", "RemoveMaintainer", "AddValidator", "DeactivateValidator",
            "EnqueueValidatorForRemoval", "ChangeCriteria", "ChangeRewardDistribution",
            "MigrateStateToV2"}

\* The accounts that the builder of an instruction lists, by its kind.
AccountsIn ==
    [kind \in Foreign \cup Kinds |-> IF kind \in Foreign THEN ForeignAccounts[kind]
                                    ELSE to_vec(AccountsOf[kind], 0)]

\* Whether the called program accepts the accounts as it is given them.
Accepts(kind, given) ==
    IF kind \in Foreign
    THEN \A i \in DOMAIN given :
            /\ ForeignAccounts[kind][i].is_signer => given[i].is_signer
            /\ ForeignAccounts[kind][i].is_writable => given[i].is_writable
    ELSE process(kind, given)

\* The commands give the derived address of the multisig as the manager.
Effect(ins) ==
    \/ Handle(ins, "multisig")
    \/ SetOwnersAndChangeThreshold(ins) \/ Upgrade(ins) \/ SetAuthority(ins) \/ Transfer(ins)

-----------------------------------------------------------------------------
(* The multisig program *)

\* The command checks the settings before it sends them.
validate_or_exit(owners, threshold) == threshold \in 1 .. Len(owners)

\* 352 bytes are allocated, whatever the number of owners.
create_multisig(owners, threshold) ==
    /\ multisig = NoMultisig
    /\ validate_or_exit(owners, threshold)
    /\ Len(owners) <= MaxOwners
    /\ multisig' = [owners |-> owners, threshold |-> threshold, seqno |-> 0]
    /\ UNCHANGED <<deployment, txs, session, program, vault>>

\* The account of the proposal keeps the instruction with its accounts, which are those
\* that its builder lists.  The proposer has approved.  `agreed` and `shown` are history: who approved, and what
\* they were shown when they were asked.
CreateTransaction(proposer, ins) ==
    /\ IsOwner(proposer)
    /\ txs' = Append(txs, [ins |-> ins, signers |-> {IndexOf(proposer)},
                           seqno |-> multisig.seqno, did_execute |-> FALSE,
                           agreed |-> {proposer}, shown |-> {}])

CanApprove(owner, t) == IsOwner(owner) /\ txs[t].seqno = multisig.seqno

\* `shown` is what the owner was shown before, as a set of at most one display.
Approved(t, owner, shown) ==
    [txs[t] EXCEPT !.signers = @ \cup {IndexOf(owner)}, !.agreed = @ \cup {owner},
                   !.shown = @ \cup shown]

\* Mutation: signers of the inner instruction have to sign the outer one.
TransactionAccounts_Bug(metas) == Append(metas, R("program_id"))

\* The accounts of a proposal as accounts of the transaction that executes it.
TransactionAccounts(metas) ==
    Append([i \in DOMAIN metas |-> [metas[i] EXCEPT !.is_signer = FALSE]], R("program_id"))

\* The kinds of instructions that the runtime lets the multisig program call: all signers
\* of the outer transaction have signed, which the derived address cannot, no account gets
\* more privileges than in the outer one, and the multisig program signs for its derived
\* address.
Callable ==
    LET inner(kind) == AccountsIn[kind]
        outer(kind) == TransactionAccounts(inner(kind))
    IN {kind \in Foreign \cup Managed :
          /\ \A i \in DOMAIN outer(kind) : ~outer(kind)[i].is_signer
          /\ \A i \in DOMAIN inner(kind) :
                /\ inner(kind)[i].is_writable => outer(kind)[i].is_writable
                /\ inner(kind)[i].is_signer => inner(kind)[i].role = "manager"
          /\ Accepts(kind, inner(kind))}

IsApproved(tx) ==
    /\ ~tx.did_execute
    /\ tx.seqno = multisig.seqno
    /\ Cardinality(tx.signers) >= multisig.threshold

ExecuteTransaction(t) ==
    /\ IsApproved(txs[t])
    /\ txs[t].ins.kind \in Callable
    /\ Effect(txs[t].ins)
    /\ txs' = [txs EXCEPT ![t].did_execute = TRUE]

-----------------------------------------------------------------------------
(* Commands that propose: each reads the chain and builds an instruction.  *)

\* A command of `owner` has read the chain, and will send this proposal.
\* `room` is for how many owners the account of the proposal is allocated.
Draft(owner, ins) ==
    /\ session = NoSession
    /\ IsOwner(owner)
    /\ lido # NoLido
    /\ budget > 0
    /\ Len(txs) < MaxProposals
    /\ budget' = budget - 1
    /\ session' = [stage |-> "propose", who |-> owner, ins |-> ins,
                   room |-> Len(multisig.owners)]
    /\ UNCHANGED <<lido, accounts, reserve, mints, tokens, setup, multisig, txs, program, vault>>

\* The serialized transaction has a flag for each owner.
HasRoom(s) == Len(multisig.owners) <= s.room

\* The transaction is sent: it is executed, or refused or lost.
propose_instruction(landed) ==
    /\ session.stage = "propose"
    /\ IF landed
       THEN HasRoom(session) /\ CreateTransaction(session.who, session.ins)
       ELSE UNCHANGED txs
    /\ session' = NoSession
    /\ UNCHANGED <<deployment, multisig, program, vault>>

\* Commands that need no more than the address of the instance.
command_add_validator(owner, vote) ==
    deserialize_lido /\ Draft(owner, [kind |-> "AddValidator", key |-> vote])

command_add_maintainer(owner, maintainer) ==
    deserialize_lido /\ Draft(owner, [kind |-> "AddMaintainer", key |-> maintainer])

command_change_criteria(owner, criteria) ==
    Draft(owner, [kind |-> "ChangeCriteria", criteria |-> criteria])

\* Commands that look up the index of an entry.
DraftIndexed(owner, kind, name, key) ==
    /\ deserialize_account_list_info(name)
    /\ key \in Keys(Entries(name))
    /\ Draft(owner, [kind |-> kind, key |-> key, index |-> Position(Entries(name), key)])

command_remove_maintainer(owner, maintainer) ==
    DraftIndexed(owner, "RemoveMaintainer", "maintainer_list", maintainer)

command_deactivate_validator(owner, vote) ==
    DraftIndexed(owner, "DeactivateValidator", "validator_list", vote)

command_remove_validator(owner, vote) ==
    DraftIndexed(owner, "EnqueueValidatorForRemoval", "validator_list", vote)

\* Proposed by another client: no command does.
propose_change_reward_distribution(owner, fees, treasury, developer) ==
    Draft(owner, [kind |-> "ChangeRewardDistribution", fees |-> fees,
                  treasury |-> treasury, developer |-> developer])

propose_migration(owner, fees) ==
    \E args \in MigrationArguments, developer \in DOMAIN tokens :
        /\ lido.version = "v1"
        /\ Len(accounts) = 3
        /\ Draft(owner, command_migrate_state_to_v2(args, developer, fees))

propose_change_multisig(owner, owners, threshold) ==
    /\ validate_or_exit(owners, threshold)
    /\ Draft(owner, [kind |-> "SetOwners", owners |-> owners, threshold |-> threshold])

\* The owner to revoke need not be one.
propose_revoke_owner(owner, old) ==
    Draft(owner, [kind |-> "SetOwners", threshold |-> multisig.threshold,
                  owners |-> ElementsAt(multisig.owners,
                                        {i \in DOMAIN multisig.owners :
                                           multisig.owners[i] # old})])

propose_add_owner(owner, new) ==
    Draft(owner, [kind |-> "SetOwners", threshold |-> multisig.threshold,
                  owners |-> Append(multisig.owners, new)])

propose_upgrade(owner, image) == Draft(owner, [kind |-> "Upgrade", image |-> image])

propose_set_upgrade_authority(owner, authority) ==
    Draft(owner, [kind |-> "SetAuthority", authority |-> authority])

transfer_token(owner, amount) == Draft(owner, [kind |-> "Transfer", amount |-> amount])

-----------------------------------------------------------------------------
(* Commands that approve and execute *)

\* `approve`, and a silent batch, which approves several proposals in one transaction.
approve(owner, ts) ==
    /\ \A t \in ts : CanApprove(owner, t)
    /\ txs' = [t \in DOMAIN txs |-> IF t \in ts THEN Approved(t, owner, {}) ELSE txs[t]]
    /\ UNCHANGED <<deployment, multisig, session, program, vault>>

execute_transaction(t) ==
    /\ ExecuteTransaction(t)
    /\ UNCHANGED <<reserve, mints, tokens, setup, budget, session>>

\* How the instruction of a proposal is displayed.  A new reward distribution is compared
\* with the instance, which has to be of the present version to be read; what cannot be
\* parsed is displayed as invalid, with a warning.
try_parse_solido_instruction(kind) ==
    IF \/ kind = "ChangeRewardDistribution" /\ deserialize_lido
       \/ kind \in {"AddValidator", "DeactivateValidator", "AddMaintainer",
                    "RemoveMaintainer", "ChangeCriteria", "MigrateStateToV2"}
    THEN kind ELSE "InvalidSolidoInstruction"

try_parse_token_instruction(kind) == IF kind = "Transfer" THEN kind ELSE "Unsupported"

\* A change of the upgrade authority is not recognized.
parsed_instr(kind) ==
    CASE kind \in {"Upgrade", "SetOwners"} -> kind
      [] kind \in Managed -> try_parse_solido_instruction(kind)
      [] kind = "Transfer" -> try_parse_token_instruction(kind)
      [] OTHER -> "Unrecognized"

Rewards(instance) == <<instance.fees, instance.treasury, instance.developer>>

\* What the display of a proposal depends on: what its kind was parsed to, and what new
\* owners or a new reward distribution are compared with.  `done` is history: the
\* proposals that had been executed when a reward distribution was displayed.
Display(kind) ==
    [kind |-> parsed_instr(kind),
     multisig |-> IF kind = "SetOwners" THEN {multisig} ELSE {},
     rewards |-> IF parsed_instr(kind) = "ChangeRewardDistribution"
                 THEN {Rewards(lido)} ELSE {},
     done |-> IF kind = "ChangeRewardDistribution"
              THEN {t \in DOMAIN txs : txs[t].did_execute} ELSE {}]

\* An interactive batch approval shows a proposal and asks.
show_transaction(owner, t) ==
    /\ session = NoSession
    /\ IsOwner(owner)
    /\ session' = [stage |-> "shown", who |-> owner, tx |-> t,
                   seen |-> Display(txs[t].ins.kind)]
    /\ UNCHANGED <<deployment, multisig, txs, program, vault>>

\* The answer is yes: the approval is sent, and then the approvals are counted, in
\* another snapshot.  If it is no, or something fails, the command ends.
approve_transactions(yes) ==
    /\ session.stage = "shown"
    /\ IF yes
       THEN /\ CanApprove(session.who, session.tx)
            /\ txs' = [txs EXCEPT ![session.tx] =
                         Approved(session.tx, session.who, {session.seen})]
            /\ session' = [session EXCEPT !.stage = "count"]
       ELSE session' = NoSession /\ UNCHANGED txs
    /\ UNCHANGED <<deployment, multisig, program, vault>>

count_approvals ==
    /\ session.stage = "count"
    /\ session' = IF Cardinality(txs[session.tx].signers) >= multisig.threshold
                  THEN [session EXCEPT !.stage = "execute"] ELSE NoSession
    /\ UNCHANGED <<deployment, multisig, txs, program, vault>>

\* The second answer is yes and the execution is sent, or the command goes on.
execute_after_approval(yes) ==
    /\ session.stage = "execute"
    /\ IF yes THEN ExecuteTransaction(session.tx)
              ELSE UNCHANGED <<lido, accounts, multisig, txs, program, vault>>
    /\ session' = NoSession
    /\ UNCHANGED <<reserve, mints, tokens, setup, budget>>

-----------------------------------------------------------------------------
(* Instructions that are sent without the multisig *)

\* The derived address signs nothing outside of the multisig program.
Unsigned(metas) ==
    [i \in DOMAIN metas |-> IF metas[i].role = "manager" THEN R("manager") ELSE metas[i]]

Listed(name) ==
    IF deserialize_account_list_info(name) THEN DOMAIN Entries(name) ELSE {}

\* What anyone may try: all that needs the manager, and what needs nobody.
Attempts ==
    {[kind |-> "AddMaintainer", key |-> key] : key \in Maintainers}
      \cup {[kind |-> "AddValidator", key |-> key] : key \in Votes}
      \cup {[kind |-> "ChangeCriteria", criteria |-> c] : c \in CriteriaOptions}
      \cup [kind : {"ChangeRewardDistribution"}, fees : FeeOptions,
            treasury : DOMAIN tokens, developer : DOMAIN tokens]
      \cup {command_migrate_state_to_v2(args, developer, fees) :
              args \in IF Len(accounts) = 3 THEN MigrationArguments ELSE {},
              developer \in DOMAIN tokens, fees \in FeeOptions}
      \cup {[kind |-> "RemoveMaintainer", key |-> Entries("maintainer_list")[i].pubkey,
             index |-> i] : i \in Listed("maintainer_list")}
      \cup {[kind |-> kind, key |-> Entries("validator_list")[i].pubkey, index |-> i] :
              kind \in {"RemoveValidator", "EnqueueValidatorForRemoval",
                        "DeactivateValidator", "ReactivateIfComplies"},
              i \in Listed("validator_list")}

\* Accounts that can be given as the manager: the multisig, which does not sign, and a
\* key of the sender, which does.
Accepted ==
    [kind \in Kinds |-> {manager \in {"multisig", "sender"} :
        process(kind, IF manager = "multisig" THEN Unsigned(AccountsIn[kind])
                      ELSE AccountsIn[kind])}]

SubmitDirectly(ins) ==
    /\ \E manager \in Accepted[ins.kind] : Handle(ins, manager)
    /\ UNCHANGED <<reserve, mints, tokens, setup, budget, txs, session>>

-----------------------------------------------------------------------------
\* An instance that was initialized long ago.
RunningLido ==
    [version |-> "v2", manager |-> "multisig", mint |-> 1, treasury |-> 1, developer |-> 1,
     fees |-> Running.fees, criteria |-> DefaultCriteria,
     validator_list |-> 1, validator_perf_list |-> 2, maintainer_list |-> 3]

RunningList(name, entries) ==
    Saved(Allocated(required_bytes(name, MaxEntries)), name, MaxEntries, entries)

RunningInit ==
    /\ lido = RunningLido
    /\ accounts = <<RunningList("validator_list", Running.validators),
                    RunningList("validator_perf_list", <<>>),
                    RunningList("maintainer_list", Running.maintainers)>>
    /\ reserve = TRUE
    /\ mints = GivenMints
    /\ tokens = <<1>>
    /\ setup = Idle
    /\ budget = Budget["running"]

Init ==
    /\ DeploymentInit \/ RunningInit
    /\ IF lido = NoLido THEN multisig = NoMultisig
       ELSE multisig = [owners |-> Founders, threshold |-> FirstThreshold, seqno |-> 0]
    /\ txs = <<>>
    /\ session = NoSession
    /\ program = [authority |-> "multisig", image |-> "old"]
    /\ vault = VaultSize

Propose(owner) ==
    \/ \E vote \in Votes : \/ command_add_validator(owner, vote)
                           \/ command_deactivate_validator(owner, vote)
                           \/ command_remove_validator(owner, vote)
    \/ \E maintainer \in Maintainers : \/ command_add_maintainer(owner, maintainer)
                                       \/ command_remove_maintainer(owner, maintainer)
    \/ \E criteria \in CriteriaOptions : command_change_criteria(owner, criteria)
    \/ \E fees \in FeeOptions :
          \/ propose_migration(owner, fees)
          \/ \E treasury, developer \in DOMAIN tokens :
                propose_change_reward_distribution(owner, fees, treasury, developer)
    \/ \E key \in Candidates : propose_revoke_owner(owner, key) \/ propose_add_owner(owner, key)
    \/ \E threshold \in Thresholds : propose_change_multisig(owner, multisig.owners, threshold)
    \/ propose_upgrade(owner, "new")
    \/ propose_set_upgrade_authority(owner, "other")
    \/ transfer_token(owner, 1)

Next ==
    \/ multisig # NoMultisig /\ Set_up /\ UNCHANGED <<multisig, txs, session, program, vault>>
    \/ \E threshold \in Thresholds \cup {FirstThreshold} : create_multisig(Founders, threshold)
    \/ \E owner \in OwnerKeys :
          \/ Propose(owner)
          \/ \E ts \in SUBSET DOMAIN txs : approve(owner, ts)
          \/ \E t \in DOMAIN txs : show_transaction(owner, t)
    \/ \E landed \in BOOLEAN : propose_instruction(landed)
    \/ \E t \in DOMAIN txs : execute_transaction(t)
    \/ \E yes \in BOOLEAN : approve_transactions(yes) \/ execute_after_approval(yes)
    \/ count_approvals
    \/ \E ins \in Attempts : SubmitDirectly(ins)

Spec == Init /\ [][Next]_vars

-----------------------------------------------------------------------------
(* Properties *)

\* The types of the state.
TypeOK ==
    /\ lido.version \in {"none", "v1", "v2"}
    /\ \A i \in DOMAIN tokens : tokens[i] \in DOMAIN mints
    /\ multisig.owners \in Seq(OwnerKeys)
    /\ multisig.threshold \in 0 .. Len(multisig.owners)
    /\ \A t \in DOMAIN txs : txs[t].seqno <= multisig.seqno
    /\ session.stage \in {"none", "propose", "shown", "count", "execute"}
    /\ vault \in 0 .. VaultSize

\* This step executes, for the first time, a proposal of one of these kinds that enough
\* of the present owners agreed to.
ByVote(kinds) ==
    {t \in DOMAIN txs : /\ ~txs[t].did_execute /\ txs'[t].did_execute
                        /\ txs[t].ins.kind \in kinds
                        /\ Cardinality({o \in txs[t].agreed : IsOwner(o)})
                              >= multisig.threshold}

ByVoteOn(kinds, key) == {t \in ByVote(kinds) : txs[t].ins.key = key}

ListKeys(name) == IF deserialize_account_list_info(name) THEN Keys(Entries(name)) ELSE {}
StatusOf(v) ==
    Entries("validator_list")[Position(Entries("validator_list"), v)].status

\* The instance after a proposal was executed, if that changes it.
ChangedLido(ins) ==
    CASE ins.kind = "ChangeCriteria" -> [lido EXCEPT !.criteria = ins.criteria]
      [] ins.kind = "ChangeRewardDistribution" ->
           [lido EXCEPT !.fees = ins.fees, !.treasury = ins.treasury,
                        !.developer = ins.developer]

\* The status of a validator that is listed before and after the step.
StatusIsApproved(v) ==
    \/ StatusOf(v)' = StatusOf(v)
    \/ StatusOf(v)' = "PendingRemoval" /\ ByVoteOn({"EnqueueValidatorForRemoval"}, v) # {}
    \/ StatusOf(v)' = "StakesSuspended" /\ ByVoteOn({"DeactivateValidator"}, v) # {}
    \/ StatusOf(v) = "StakesSuspended" /\ StatusOf(v)' = "AcceptingStakes"

\* A step that changes something of what the manager controls is a vote on just that.
ChangeIsApproved ==
    /\ multisig # NoMultisig /\ multisig' # multisig =>
         \E t \in ByVote({"SetOwners"}) :
             /\ multisig'.owners = txs[t].ins.owners
             /\ multisig'.threshold = txs[t].ins.threshold
    /\ program' # program =>
         \/ \E t \in ByVote({"Upgrade"}) :
               program' = [program EXCEPT !.image = txs[t].ins.image]
         \/ \E t \in ByVote({"SetAuthority"}) :
               program' = [program EXCEPT !.authority = txs[t].ins.authority]
    /\ vault' # vault => \E t \in ByVote({"Transfer"}) : vault' = vault - txs[t].ins.amount
    /\ lido.version = "v1" /\ lido'.version = "v2" =>
         \E t \in ByVote({"MigrateStateToV2"}) :
             /\ Rewards(lido') = <<txs[t].ins.fees, lido.treasury, txs[t].ins.developer>>
             /\ \A name \in ListNames : lido'[name] = txs[t].ins[name]
    /\ lido.version = "v2" =>
         /\ lido' # lido =>
              \E t \in ByVote({"ChangeCriteria", "ChangeRewardDistribution"}) :
                  lido' = ChangedLido(txs[t].ins)
         /\ \A m \in ListKeys("maintainer_list") \ ListKeys("maintainer_list")' :
               ByVoteOn({"RemoveMaintainer"}, m) # {}
         /\ \A m \in ListKeys("maintainer_list")' \ ListKeys("maintainer_list") :
               ByVoteOn({"AddMaintainer"}, m) # {}
         /\ \A v \in ListKeys("validator_list")' \ ListKeys("validator_list") :
               ByVoteOn({"AddValidator"}, v) # {}
         /\ \A v \in ListKeys("validator_list") \ ListKeys("validator_list")' :
               StatusOf(v) = "PendingRemoval"
         /\ \A v \in ListKeys("validator_list") \cap ListKeys("validator_list")' :
               StatusIsApproved(v)

(***************************************************************************)
(* Every change of what the manager controls (the fees, the criteria, the  *)
(* maintainers, the validators and their status, the owners, the program,  *)
(* the tokens) is the first execution of a proposal for just that change to*)
(* which as many of the present owners agreed as the threshold says,       *)
(* whatever others send and whoever signs it as the manager.  But anyone   *)
(* may remove a validator that is queued for removal, and may reactivate   *)
(* one that is suspended, by a vote of the owners too.                     *)
(***************************************************************************)
ChangesAreApproved == [][ChangeIsApproved]_vars

(***************************************************************************)
(* An approved proposal is never stuck for want of privileges: through the *)
(* builder of the instruction, its storage and the list of accounts that   *)
(* execute_transaction builds from it, every account keeps what the called *)
(* program demands, and nobody but the executor has to sign.               *)
(***************************************************************************)
ApprovedIsExecutable ==
    \A t \in DOMAIN txs : IsApproved(txs[t]) => txs[t].ins.kind \in Callable

(***************************************************************************)
(* The owners can always decide: the types of the state hold, with a       *)
(* threshold that as many owners as there are can reach, and what enough of*)
(* them approved can be executed.                                          *)
(***************************************************************************)
OwnersCanDecide == TypeOK /\ ApprovedIsExecutable

\* Proposals of this kind that were executed after the display.
DoneSince(d, kind) ==
    {t \in DOMAIN txs \ d.done : txs[t].did_execute /\ txs[t].ins.kind = kind}

KindIsCurrent(d, kind) ==
    \/ d.kind = kind
    \/ kind = "EnqueueValidatorForRemoval" /\ d.kind = "InvalidSolidoInstruction"
    \/ kind = "SetAuthority" /\ d.kind = "Unrecognized"
    \/ /\ kind = "ChangeRewardDistribution" /\ d.kind = "InvalidSolidoInstruction"
       /\ DoneSince(d, "MigrateStateToV2") # {}

\* What was displayed of a proposal that is executed, as far as it depends on the state.
DisplayIsCurrent ==
    \A t \in ByVote(Foreign \cup Managed) : \A d \in txs[t].shown :
        /\ KindIsCurrent(d, txs[t].ins.kind)
        /\ txs[t].ins.kind = "SetOwners" => d.multisig = {multisig}
        /\ txs[t].ins.kind = "ChangeRewardDistribution" =>
              \/ d.rewards \subseteq {Rewards(lido)}
              \/ DoneSince(d, "ChangeRewardDistribution") # {}

(***************************************************************************)
(* How far a batch approval displays what happens.  When a proposal is     *)
(* executed, each of its approvers that was shown anything was shown its   *)
(* kind, and the owners that a change of owners replaces are still those to*)
(* which the difference was displayed.  The exceptions: the removal of a   *)
(* validator and a new upgrade authority are displayed as not known, as is *)
(* a new reward distribution until the instance is migrated; and the reward*)
(* distribution to which the difference was displayed is no longer that of *)
(* the instance if another proposal changed it since, which no sequence    *)
(* number tells.                                                           *)
(***************************************************************************)
ShownIsCurrent == [][DisplayIsCurrent]_vars

=============================================================================
