----------------------------- MODULE Deployment -----------------------------
(***************************************************************************)
(* How an instance of Solido comes into being: by `create-solido`, a       *)
(* command of three transactions any of which may be lost, or be executed  *)
(* although the client gives up on it, and which may then be run again     *)
(* with the same key for the instance; or by the migration of an instance  *)
(* of version 1 to accounts that were created for it.                      *)
(*                                                                         *)
(* A mint is its authority and whether anything was minted, a token account*)
(* is the number of its mint, a list account has a type tag, a size, the   *)
(* capacity in its header, and entries.  Mints, token accounts and list    *)
(* accounts are numbered in the order of their creation; the number is     *)
(* their address.  Fees are opaque; of the criteria only the maximal       *)
(* commission matters here.                                                *)
(*                                                                         *)
(* An operator whose name ends in _Bug is a mutation of the operator that  *)
(* follows it; no specification uses it.                                   *)
(***************************************************************************)
EXTENDS AccountList, Instruction

CONSTANTS
    GivenMints,        \* mints that exist before: a sequence of Mint records
    FeeOptions,        \* reward distributions
    CriteriaOptions,   \* criteria
    MaxEntries,        \* the options max_validators and max_maintainers
    PerfListSizes,     \* sizes of a perf list account that is created by hand
    LegacyMaintainers, \* the maintainers of an instance of version 1
    Budget             \* bound: commands, by where the instance comes from

Criteria == [max_commission : 0..255]

\* Criteria::default()
DefaultCriteria == [max_commission |-> 100]

Mint == [authority : {"mint_authority", "other"}, supply : Nat]

ASSUME DeploymentAssumption ==
    /\ GivenMints \in Seq(Mint)
    /\ Len(GivenMints) > 0
    /\ GivenMints[1].authority = "mint_authority"
    /\ FeeOptions # {}
    /\ CriteriaOptions \subseteq Criteria
    /\ MaxEntries \in Nat
    /\ PerfListSizes \subseteq Nat
    /\ Budget \in [{"new", "legacy", "running"} -> Nat]

VARIABLES
    lido,      \* the account of the instance
    accounts,  \* the list accounts
    reserve,   \* whether the reserve account is rent-exempt
    mints,
    tokens,    \* the mint of every token account
    setup,     \* the set-up command that is running
    budget     \* how many more commands may be started

deployment == <<lido, accounts, reserve, mints, tokens, setup, budget>>

\* The lists of an instance, with the type tag and the bytes of an entry.
Types == [validator_list |-> "Validator", validator_perf_list |-> "ValidatorPerf",
          maintainer_list |-> "Maintainer"]
EntryLen == [validator_list |-> 89, validator_perf_list |-> 64, maintainer_list |-> 32]
ListNames == DOMAIN Types

NoLido == [version |-> "none"]
Idle == [pc |-> "idle", mint |-> 0, given |-> FALSE]

required_bytes(name, max_entries) == 10 + EntryLen[name] * max_entries

\* An account that the system program just allocated.
Allocated(bytes) == [type |-> "Uninitialized", bytes |-> bytes, max |-> 0, entries |-> <<>>]

-----------------------------------------------------------------------------
(* Checks of the program *)

check_mint(mint) == mint.supply = 0 /\ mint.authority = "mint_authority"

\* Mutation: the size of the account is not looked at.
check_account_data_Bug(account, expected_size) == account.type = "Uninitialized"

\* The account is not in use, and large enough.
check_account_data(account, expected_size) ==
    account.type = "Uninitialized" /\ account.bytes >= expected_size

check_is_st_sol_account(mint, token) == tokens[token] = mint

\* ValidationCommissionOutOfBounds otherwise.
IsWithinBounds(max_commission) == max_commission <= 100

\* Mutation: any account will do as the manager.
check_manager_Bug(manager) == TRUE

\* The account that is given as the manager is that of the instance.
check_manager(manager) == manager = lido.manager

\* `save` of a list with this capacity and these entries.
Saved(account, name, max_entries, entries) ==
    [account EXCEPT !.type = Types[name], !.max = max_entries, !.entries = entries]

\* What the handlers of version 2 find: the instance has their version, and the list the
\* type they want.
deserialize_lido == lido.version = "v2"

deserialize_account_list_info(name) ==
    deserialize_lido /\ accounts[lido[name]].type = Types[name]

Entries(name) == accounts[lido[name]].entries

\* The list `name` of the instance gets these entries.
SaveEntries(name, entries) ==
    /\ accounts' = [accounts EXCEPT ![lido[name]].entries = entries]
    /\ UNCHANGED lido

-----------------------------------------------------------------------------
(* Initialize, on accounts that the same transaction created *)

\* The system program refuses to create an instance that exists.
CanInitialize(news, s, criteria) ==
    /\ lido = NoLido
    /\ reserve
    /\ \A name \in ListNames :
          check_account_data(news[name], required_bytes(name, MaxEntries))
    /\ check_mint(mints[s.mint])
    /\ IsWithinBounds(criteria.max_commission)
    /\ check_is_st_sol_account(s.mint, s.treasury)
    /\ check_is_st_sol_account(s.mint, s.developer)

process_initialize(news, s, fees, criteria) ==
    LET save(name) == Saved(news[name], name, MaxEntries, <<>>)
        n == Len(accounts)
    IN /\ CanInitialize(news, s, criteria)
       /\ accounts' = accounts \o <<save("validator_list"), save("validator_perf_list"),
                                    save("maintainer_list")>>
       /\ lido' = [version |-> "v2", manager |-> "multisig", mint |-> s.mint,
                   treasury |-> s.treasury, developer |-> s.developer,
                   fees |-> fees, criteria |-> criteria,
                   validator_list |-> n + 1, validator_perf_list |-> n + 2,
                   maintainer_list |-> n + 3]

-----------------------------------------------------------------------------
(* create-solido *)

\* The command starts.  A mint can be given as an option, by its address.
command_create_solido(given, mint) ==
    /\ setup = Idle
    /\ budget > 0
    /\ given => mint \in DOMAIN mints
    /\ ~given => mint = 0
    /\ setup' = [pc |-> IF given THEN "fees" ELSE "mint", mint |-> mint, given |-> given]
    /\ budget' = budget - 1
    /\ UNCHANGED <<lido, accounts, reserve, mints, tokens>>

\* A transaction is executed or not, and the client may take an executed one for failed:
\* the command ends then.
Continue(landed, seen, next) == setup' = IF landed /\ seen THEN next ELSE Idle

push_create_spl_token_mint(authority) ==
    mints' = Append(mints, [authority |-> authority, supply |-> 0])

\* The first transaction: the rent of the reserve, and the mint.
SendMint(landed, seen) ==
    /\ setup.pc = "mint"
    /\ IF landed
       THEN reserve' = TRUE /\ push_create_spl_token_mint("mint_authority")
       ELSE UNCHANGED <<reserve, mints>>
    /\ Continue(landed, seen, [setup EXCEPT !.pc = "fees", !.mint = Len(mints) + 1])
    /\ UNCHANGED <<lido, accounts, tokens, budget>>

\* Mutation: the transfer to the reserve is not sent when a mint is given.
FundsReserve_Bug(s) == FALSE

\* Instructions that wait for the next transaction: when a mint is given there is no
\* first transaction, and the rent of the reserve goes with the second.
FundsReserve(s) == s.given

push_create_spl_token_account(mint) == Append(tokens, mint)

\* The second transaction: the accounts that receive the fees.
SendFees(landed, seen) ==
    LET n == Len(tokens)
    IN /\ setup.pc = "fees"
       /\ tokens' = IF landed THEN tokens \o <<setup.mint, setup.mint>> ELSE tokens
       /\ reserve' = (reserve \/ (landed /\ FundsReserve(setup)))
       /\ Continue(landed, seen,
                   [pc |-> "init", mint |-> setup.mint, given |-> setup.given,
                    treasury |-> n + 1, developer |-> n + 2])
       /\ UNCHANGED <<lido, accounts, mints, budget>>

\* The list accounts of create-solido.
NewLists == [name \in ListNames |-> Allocated(required_bytes(name, MaxEntries))]

\* The last transaction creates the instance and its lists and initializes them.
SendInit(landed, fees, criteria) ==
    /\ setup.pc = "init"
    /\ IF landed
       THEN process_initialize(NewLists, setup, fees, criteria)
       ELSE UNCHANGED <<lido, accounts>>
    /\ setup' = Idle
    /\ UNCHANGED <<reserve, mints, tokens, budget>>

-----------------------------------------------------------------------------
(* Migration from version 1 *)

\* One transaction: a token account for the fees of the developer, and two lists.
command_create_v2_accounts(mint) ==
    /\ lido.version = "v1"
    /\ accounts = <<>> \* once: another run creates more of the same
    /\ tokens' = push_create_spl_token_account(mint)
    /\ accounts' = accounts \o <<Allocated(required_bytes("validator_list", 50000)),
                                 Allocated(required_bytes("maintainer_list", 5000))>>
    /\ UNCHANGED <<lido, reserve, mints, setup, budget>>

\* No command creates the perf list that the migration wants: it is created by hand.
CreatePerfList(bytes) ==
    /\ lido.version = "v1"
    /\ Len(accounts) = 2 \* once, after the other two
    /\ accounts' = Append(accounts, Allocated(bytes))
    /\ UNCHANGED <<lido, reserve, mints, tokens, setup, budget>>

\* The last validator of version 1 is removed, by the program of version 1.
DrainV1 ==
    /\ lido.version = "v1"
    /\ lido.validators # {}
    /\ lido' = [lido EXCEPT !.validators = {}]
    /\ UNCHANGED <<accounts, reserve, mints, tokens, setup, budget>>

\* The instruction that command_migrate_state_to_v2 proposes, for what the command line
\* says: the addresses of the lists and the maximal commission.
command_migrate_state_to_v2(args, developer, fees) ==
    [kind |-> "MigrateStateToV2", fees |-> fees, developer |-> developer,
     max_commission |-> args[4], validator_list |-> args[1],
     validator_perf_list |-> args[2], maintainer_list |-> args[3],
     max |-> [validator_list |-> 6700, validator_perf_list |-> 6700,
              maintainer_list |-> 5000]]

\* The perf list is checked like the others, and not saved; the maximal commission is
\* checked, and the criteria are those by default.
process_migrate_to_v2(ins, manager) ==
    LET old(name) == accounts[ins[name]]
        maintainers == [i \in DOMAIN lido.maintainers |-> [pubkey |-> lido.maintainers[i]]]
    IN /\ lido.version = "v1"
       /\ check_manager(manager)
       /\ \A name \in ListNames :
             check_account_data(old(name), required_bytes(name, ins.max[name]))
       /\ ins.validator_list # ins.maintainer_list
       /\ Len(maintainers) <= ins.max.maintainer_list
       /\ lido.validators = {}
       /\ IsWithinBounds(ins.max_commission)
       /\ check_is_st_sol_account(lido.mint, ins.developer)
       /\ accounts' = [accounts EXCEPT
            ![ins.validator_list] = Saved(@, "validator_list", ins.max.validator_list, <<>>),
            ![ins.maintainer_list] =
                Saved(@, "maintainer_list", ins.max.maintainer_list, maintainers)]
       /\ lido' = [version |-> "v2", manager |-> lido.manager, mint |-> lido.mint,
                   treasury |-> lido.treasury, developer |-> ins.developer,
                   fees |-> ins.fees, criteria |-> DefaultCriteria,
                   validator_list |-> ins.validator_list,
                   validator_perf_list |-> ins.validator_perf_list,
                   maintainer_list |-> ins.maintainer_list]

-----------------------------------------------------------------------------
\* An instance of version 1, with one validator left.
LidoV1 == [version |-> "v1", manager |-> "multisig", mint |-> 1, treasury |-> 1,
           validators |-> {"v"}, maintainers |-> LegacyMaintainers]

DeploymentInit ==
    /\ accounts = <<>>
    /\ mints = GivenMints
    /\ setup = Idle
    /\ \/ lido = NoLido /\ reserve = FALSE /\ tokens = <<>> /\ budget = Budget["new"]
       \/ lido = LidoV1 /\ reserve = TRUE /\ tokens = <<1>> /\ budget = Budget["legacy"]

Set_up ==
    \/ \E given \in BOOLEAN, mint \in 0 .. Len(GivenMints) : command_create_solido(given, mint)
    \/ \E landed, seen \in BOOLEAN : SendMint(landed, seen) \/ SendFees(landed, seen)
    \/ \E landed \in BOOLEAN, fees \in FeeOptions, criteria \in CriteriaOptions :
          SendInit(landed, fees, criteria)
    \/ \E mint \in DOMAIN mints : command_create_v2_accounts(mint)
    \/ \E bytes \in PerfListSizes : CreatePerfList(bytes)
    \/ DrainV1

-----------------------------------------------------------------------------
(* Properties *)

(***************************************************************************)
(* An instance that exists can be used: its reserve is rent-exempt, the    *)
(* program can mint and burn its stSOL and pay fees in it, and both lists  *)
(* have their type and the bytes for their capacity, which deserialize_vec *)
(* slices without looking; whichever transactions of which runs of the     *)
(* commands were executed, and whatever addresses the operator passed.     *)
(***************************************************************************)
InstanceIsUsable ==
    lido.version = "v2" =>
        /\ reserve
        /\ mints[lido.mint].authority = "mint_authority"
        /\ tokens[lido.treasury] = lido.mint
        /\ tokens[lido.developer] = lido.mint
        /\ \A name \in {"validator_list", "maintainer_list"} :
              LET list == accounts[lido[name]]
              IN /\ list.type = Types[name]
                 /\ list.bytes >= required_bytes(name, list.max)
                 /\ Len(list.entries) <= list.max

(***************************************************************************)
(* A run of create-solido that got its first transactions through is       *)
(* refused at the last only for what the operator passed, or because the   *)
(* instance exists: an earlier run may have made it although its client    *)
(* gave up.  It is never refused for what earlier runs left behind half    *)
(* done: all else that is checked was put in place by this run.  The       *)
(* command checks neither the mint that it is given nor the maximal        *)
(* commission.                                                             *)
(***************************************************************************)
SetupSucceeds ==
    setup.pc = "init" =>
        \A criteria \in CriteriaOptions :
            \/ CanInitialize(NewLists, setup, criteria)
            \/ lido # NoLido
            \/ setup.given /\ ~check_mint(mints[setup.mint])
            \/ ~IsWithinBounds(criteria.max_commission)

=============================================================================
