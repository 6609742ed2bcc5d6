----------------------------- MODULE Instruction -----------------------------
(***************************************************************************)
(* The instructions of the Solido program: for each one the accounts that  *)
(* its builder lists, in order, and what the program demands of the        *)
(* accounts it is given.  An account is a role (the address that belongs   *)
(* there is chosen elsewhere), whether it signed and whether it may be     *)
(* written.  The runtime fails a transaction whose handler changes an      *)
(* account that is not writable.                                           *)
(*                                                                         *)
(* An operator whose name ends in _Bug is a mutation of the operator that  *)
(* follows it; no specification uses it.                                   *)
(***************************************************************************)
EXTENDS Integers, Sequences

AccountMeta(role, is_signer, is_writable) ==
    [role |-> role, is_signer |-> is_signer, is_writable |-> is_writable]

\* The four combinations that `accounts_struct!` declarations use.
R(role)  == AccountMeta(role, FALSE, FALSE)
W(role)  == AccountMeta(role, FALSE, TRUE)
S(role)  == AccountMeta(role, TRUE, FALSE)
SW(role) == AccountMeta(role, TRUE, TRUE)

\* An accounts struct: user-specified accounts, accounts with a fixed address, and
\* whether any number of writable accounts may follow.
Struct(roles, consts, variadic) ==
    [roles |-> roles, consts |-> consts, variadic |-> variadic]

-----------------------------------------------------------------------------

InitializeAccountsMeta ==
    Struct(<<W("lido"), R("manager"), R("st_sol_mint"), R("treasury_account"),
             R("developer_account"), R("reserve_account"), W("validator_list"),
             W("validator_perf_list"), W("maintainer_list")>>,
           <<"sysvar_rent", "spl_token">>, FALSE)

DepositAccountsMeta ==
    Struct(<<W("lido"), SW("user"), W("recipient"), W("st_sol_mint"),
             W("reserve_account"), R("mint_authority")>>,
           <<"spl_token", "system_program">>, FALSE)

WithdrawAccountsMetaV2 ==
    Struct(<<W("lido"), S("st_sol_account_owner"), W("st_sol_account"), W("st_sol_mint"),
             R("validator_vote_account"), W("source_stake_account"),
             SW("destination_stake_account"), R("stake_authority"), W("validator_list")>>,
           <<"spl_token", "sysvar_clock", "system_program", "stake_program">>, FALSE)

StakeDepositAccountsMetaV2 ==
    Struct(<<R("lido"), S("maintainer"), W("reserve"), R("validator_vote_account"),
             W("stake_account_merge_into"), W("stake_account_end"), R("stake_authority"),
             W("validator_list"), R("maintainer_list")>>,
           <<"sysvar_clock", "system_program", "sysvar_rent", "stake_program",
             "stake_history", "stake_program_config">>, FALSE)

UnstakeAccountsMetaV2 ==
    Struct(<<R("lido"), S("maintainer"), R("validator_vote_account"),
             W("source_stake_account"), W("destination_unstake_account"),
             R("stake_authority"), W("validator_list"), R("maintainer_list")>>,
           <<"sysvar_clock", "system_program", "stake_program">>, FALSE)

UpdateExchangeRateAccountsMetaV2 ==
    Struct(<<W("lido"), R("reserve"), R("st_sol_mint"), R("validator_list")>>,
           <<"sysvar_clock", "sysvar_rent">>, FALSE)

UpdateOffchainValidatorPerfAccountsMeta ==
    Struct(<<W("lido"), R("validator_vote_account_to_update"), R("validator_list"),
             W("validator_perf_list")>>,
           <<"sysvar_clock">>, FALSE)

UpdateOnchainValidatorPerfAccountsMeta ==
    Struct(<<W("lido"), R("validator_vote_account_to_update"), R("validator_list"),
             W("validator_perf_list")>>,
           <<"sysvar_clock">>, FALSE)

ChangeRewardDistributionMeta ==
    Struct(<<W("lido"), S("manager"), R("treasury_account"), R("developer_account")>>,
           <<>>, FALSE)

RemoveValidatorMetaV2 ==
    Struct(<<R("lido"), R("validator_vote_account_to_remove"), W("validator_list")>>,
           <<>>, FALSE)

DeactivateValidatorMetaV2 ==
    Struct(<<R("lido"), S("manager"), R("validator_vote_account_to_deactivate"),
             W("validator_list")>>, <<>>, FALSE)

EnqueueValidatorForRemovalMetaV2 ==
    Struct(<<R("lido"), S("manager"), R("validator_vote_account_to_remove"),
             W("validator_list")>>, <<>>, FALSE)

AddMaintainerMetaV2 ==
    Struct(<<R("lido"), S("manager"), R("maintainer"), W("maintainer_list")>>, <<>>, FALSE)

RemoveMaintainerMetaV2 ==
    Struct(<<R("lido"), S("manager"), R("maintainer"), W("maintainer_list")>>, <<>>, FALSE)

MergeStakeMetaV2 ==
    Struct(<<R("lido"), R("validator_vote_account"), W("from_stake"), W("to_stake"),
             R("stake_authority"), W("validator_list")>>,
           <<"sysvar_clock", "stake_history", "stake_program">>, FALSE)

AddValidatorMetaV2 ==
    Struct(<<R("lido"), S("manager"), R("validator_vote_account"), W("validator_list")>>,
           <<>>, FALSE)

UpdateStakeAccountBalanceMeta ==
    Struct(<<W("lido"), R("validator_vote_account"), R("stake_authority"), W("reserve"),
             W("st_sol_mint"), R("mint_authority"), W("treasury_st_sol_account"),
             W("developer_st_sol_account"), W("validator_list")>>,
           <<"spl_token_program", "sysvar_clock", "sysvar_stake_history", "stake_program">>,
           TRUE)

DeactivateIfViolatesMeta ==
    Struct(<<R("lido"), R("validator_vote_account_to_deactivate"), W("validator_list"),
             R("validator_perf_list")>>, <<>>, FALSE)

ReactivateIfCompliesMeta ==
    Struct(<<R("lido"), R("validator_vote_account_to_reactivate"), W("validator_list"),
             R("validator_perf_list")>>, <<>>, FALSE)

ChangeCriteriaMeta == Struct(<<W("lido"), S("manager")>>, <<>>, FALSE)

MigrateStateToV2Meta ==
    Struct(<<W("lido"), S("manager"), W("validator_list"), R("validator_perf_list"),
             W("maintainer_list"), R("developer_account")>>, <<>>, FALSE)

-----------------------------------------------------------------------------

\* What the builder of each kind of instruction lists.
AccountsOf ==
    [Initialize                  |-> InitializeAccountsMeta,
     Deposit                     |-> DepositAccountsMeta,
     Withdraw                    |-> WithdrawAccountsMetaV2,
     StakeDeposit                |-> StakeDepositAccountsMetaV2,
     Unstake                     |-> UnstakeAccountsMetaV2,
     UpdateExchangeRate          |-> UpdateExchangeRateAccountsMetaV2,
     UpdateOffchainValidatorPerf |-> UpdateOffchainValidatorPerfAccountsMeta,
     UpdateOnchainValidatorPerf  |-> UpdateOnchainValidatorPerfAccountsMeta,
     ChangeRewardDistribution    |-> ChangeRewardDistributionMeta,
     RemoveValidator             |-> RemoveValidatorMetaV2,
     DeactivateValidator         |-> DeactivateValidatorMetaV2,
     EnqueueValidatorForRemoval  |-> EnqueueValidatorForRemovalMetaV2,
     AddMaintainer               |-> AddMaintainerMetaV2,
     RemoveMaintainer            |-> RemoveMaintainerMetaV2,
     MergeStake                  |-> MergeStakeMetaV2,
     AddValidator                |-> AddValidatorMetaV2,
     UpdateStakeAccountBalance   |-> UpdateStakeAccountBalanceMeta,
     DeactivateIfViolates        |-> DeactivateIfViolatesMeta,
     ReactivateIfComplies        |-> ReactivateIfCompliesMeta,
     ChangeCriteria              |-> ChangeCriteriaMeta,
     MigrateStateToV2            |-> MigrateStateToV2Meta]

\* What the handler decodes the accounts with: one handler uses the struct of another.
DecodedWith(kind) ==
    IF kind = "EnqueueValidatorForRemoval" THEN DeactivateValidatorMetaV2 ELSE AccountsOf[kind]

\* Instructions of version 1 can still be decoded, and are refused.
Deprecated == {"Withdraw_V1", "StakeDeposit_V1", "Unstake_V1", "UpdateExchangeRate_V1",
    "WithdrawInactiveStake", "CollectValidatorFee", "ClaimValidatorFee", "AddValidator_V1",
    "DeactivateValidator_V1", "RemoveValidator_V1", "AddMaintainer_V1",
    "RemoveMaintainer_V1", "MergeStake_V1"}

Kinds == DOMAIN AccountsOf
LidoInstructions == Kinds \cup Deprecated

\* The accounts a builder puts into an instruction, followed by `extra` further ones.
to_vec(struct, extra) ==
    struct.roles
      \o [i \in DOMAIN struct.consts |-> R(struct.consts[i])]
      \o [i \in 1 .. extra |-> W("stake_account")]

\* Whether the program accepts the accounts it is given.
try_from_slice(struct, given) ==
    LET n == Len(struct.roles)
        c == Len(struct.consts)
    IN /\ Len(given) >= n + c
       /\ \A i \in 1 .. n :
             /\ struct.roles[i].is_signer => given[i].is_signer
             /\ struct.roles[i].is_writable => given[i].is_writable
       /\ \A i \in 1 .. c : given[n + i] = R(struct.consts[i])
       /\ IF struct.variadic
          THEN \A i \in (n + c + 1) .. Len(given) : given[i].is_writable
          ELSE Len(given) = n + c

\* The accounts that the handler of an instruction changes, itself or by the programs it
\* calls.  (A migration also fills the performance list with zeros, though it is read-only
\* to it: that account was just allocated and holds only zeros, and the runtime compares
\* contents, so it is not changed.)
Writes(kind) ==
    CASE kind = "Initialize" ->
           {"lido", "validator_list", "validator_perf_list", "maintainer_list"}
      [] kind = "Deposit" -> {"lido", "user", "recipient", "st_sol_mint", "reserve_account"}
      [] kind = "Withdraw" -> {"lido", "st_sol_account", "st_sol_mint", "validator_list",
           "source_stake_account", "destination_stake_account"}
      [] kind = "StakeDeposit" -> {"reserve", "stake_account_end",
           "stake_account_merge_into", "validator_list"}
      [] kind = "Unstake" -> {"source_stake_account", "destination_unstake_account",
           "validator_list"}
      [] kind \in {"UpdateExchangeRate", "ChangeRewardDistribution", "ChangeCriteria"} ->
           {"lido"}
      [] kind \in {"UpdateOffchainValidatorPerf", "UpdateOnchainValidatorPerf"} ->
           {"validator_perf_list"}
      [] kind \in {"AddMaintainer", "RemoveMaintainer"} -> {"maintainer_list"}
      [] kind = "MergeStake" -> {"from_stake", "to_stake", "validator_list"}
      [] kind = "UpdateStakeAccountBalance" -> {"lido", "reserve", "st_sol_mint",
           "treasury_st_sol_account", "developer_st_sol_account", "validator_list",
           "stake_account"}
      [] kind = "MigrateStateToV2" -> {"lido", "validator_list", "maintainer_list"}
      [] OTHER -> {"validator_list"}

\* Whether the handler of an instruction can run on these accounts: it is dispatched, the
\* accounts are accepted, and it may write what it changes.
process(kind, given) ==
    /\ kind \in Kinds
    /\ try_from_slice(DecodedWith(kind), given)
    /\ \A i \in DOMAIN given : given[i].role \in Writes(kind) => given[i].is_writable

=============================================================================
