-------------------------------- MODULE Pool --------------------------------
(***************************************************************************)
(* What the program promises about the value of stSOL: the pool as a whole,*)
(* with the SOL that it manages by its own books (`get_sol_balance`: the   *)
(* reserve and the tracked balances of all validators) and the stSOL in    *)
(* existence.  Moving SOL between the reserve and stake accounts is not    *)
(* visible here.                                                           *)
(*                                                                         *)
(* An operator whose name ends in _Bug is a mutation of the operator that  *)
(* follows it; no specification uses it.                                   *)
(***************************************************************************)
EXTENDS Integers, ExchangeRate

CONSTANTS
    Amounts,        \* amounts of lamports and of stSOL
    Distributions,  \* reward distributions
    MaxManaged,     \* bound: SOL in the pool
    MaxEpoch        \* bound: last epoch

ASSUME PoolAssumption ==
    /\ Amounts \subseteq Nat
    /\ Distributions \subseteq [treasury : Nat, developer : Nat, appreciation : Nat]
    /\ MaxManaged \in Nat
    /\ MaxEpoch \in Nat

VARIABLES managed, supply, exchange_rate, epoch

vars == <<managed, supply, exchange_rate, epoch>>

Rates == [computed_in_epoch : Nat, st_sol_supply : Nat, sol_balance : Nat]

\* The types of the state; a rate is never ahead of the clock.
TypeOK ==
    /\ managed \in Nat
    /\ supply \in Nat
    /\ exchange_rate \in Rates
    /\ epoch \in Nat
    /\ exchange_rate.computed_in_epoch <= epoch

Init ==
    /\ managed = 0
    /\ supply = 0
    /\ exchange_rate = [computed_in_epoch |-> 0, st_sol_supply |-> 0, sol_balance |-> 0]
    /\ epoch = 0

\* Also at a rate of an earlier epoch.
Deposit(amount) ==
    /\ amount # 0
    /\ managed + amount <= MaxManaged
    /\ managed' = managed + amount
    /\ supply' = supply + exchange_sol(exchange_rate, amount)
    /\ UNCHANGED <<exchange_rate, epoch>>

\* SOL transferred to the reserve from outside.
Donate(amount) ==
    /\ managed + amount <= MaxManaged
    /\ managed' = managed + amount
    /\ UNCHANGED <<supply, exchange_rate, epoch>>

\* Mutation: the stSOL is not burned.
Withdraw_Bug(amount) ==
    LET sol == exchange_st_sol(exchange_rate, amount)
    IN  /\ exchange_rate.computed_in_epoch >= epoch
        /\ CanExchangeStSol(exchange_rate)
        /\ amount <= supply
        /\ sol <= managed
        /\ managed' = managed - sol
        /\ UNCHANGED <<supply, exchange_rate, epoch>>

\* Only at the rate of the current epoch.
Withdraw(amount) ==
    LET sol == exchange_st_sol(exchange_rate, amount)
    IN  /\ exchange_rate.computed_in_epoch >= epoch
        /\ CanExchangeStSol(exchange_rate)
        /\ amount <= supply
        /\ sol <= managed
        /\ supply' = supply - amount
        /\ managed' = managed - sol
        /\ UNCHANGED <<exchange_rate, epoch>>

\* A holder burns stSOL without withdrawing.
Burn(amount) ==
    /\ amount <= supply
    /\ supply' = supply - amount
    /\ UNCHANGED <<managed, exchange_rate, epoch>>

\* UpdateStakeAccountBalance observes a reward and mints the fees for it, only
\* at the rate of the current epoch.
ObserveReward(reward, dist) ==
    /\ exchange_rate.computed_in_epoch >= epoch
    /\ DistributionSum(dist) # 0
    /\ managed + reward <= MaxManaged
    /\ managed' = managed + reward
    /\ supply' = supply + FeesMinted(exchange_rate, dist, reward)
    /\ UNCHANGED <<exchange_rate, epoch>>

\* Mutation: the rate is recorded for the next epoch.
UpdateExchangeRate_Bug ==
    /\ exchange_rate.computed_in_epoch < epoch
    /\ exchange_rate' = [computed_in_epoch |-> epoch + 1,
                         st_sol_supply     |-> supply,
                         sol_balance       |-> managed]
    /\ UNCHANGED <<managed, supply, epoch>>

UpdateExchangeRate ==
    /\ exchange_rate.computed_in_epoch < epoch
    /\ exchange_rate' = [computed_in_epoch |-> epoch,
                         st_sol_supply     |-> supply,
                         sol_balance       |-> managed]
    /\ UNCHANGED <<managed, supply, epoch>>

NextEpoch ==
    /\ epoch < MaxEpoch
    /\ epoch' = epoch + 1
    /\ UNCHANGED <<managed, supply, exchange_rate>>

Next ==
    \/ \E amount \in Amounts :
          Deposit(amount) \/ Donate(amount) \/ Withdraw(amount) \/ Burn(amount)
    \/ \E reward \in Amounts, dist \in Distributions : ObserveReward(reward, dist)
    \/ UpdateExchangeRate
    \/ NextEpoch

Spec == Init /\ [][Next]_vars

-----------------------------------------------------------------------------
(* Properties *)

(***************************************************************************)
(* All stSOL in existence is worth no more than the SOL under management,  *)
(* at the recorded rate: rounding in deposits, withdrawals and fees, and a *)
(* rate that is some epochs old, never favour a user over the pool.        *)
(***************************************************************************)
SupplyIsCovered ==
    supply * PriceNum(exchange_rate) <= managed * PriceDen(exchange_rate)

\* `newRate` values stSOL at least as high as `oldRate`.
NotLower(oldRate, newRate) ==
    PriceNum(oldRate) * PriceDen(newRate) <= PriceNum(newRate) * PriceDen(oldRate)

(***************************************************************************)
(* The value of stSOL never drops: UpdateExchangeRate never records fewer  *)
(* SOL per stSOL than before, as long as there is stSOL.                   *)
(***************************************************************************)
PriceNeverDrops ==
    [][exchange_rate'.st_sol_supply > 0 => NotLower(exchange_rate, exchange_rate')]_vars

(***************************************************************************)
(* The case that `exchange_sol` guards against, "If we minted stSOL but    *)
(* there is no SOL", is never recorded.                                    *)
(***************************************************************************)
StSolNeverWorthless ==
    exchange_rate.st_sol_supply > 0 => exchange_rate.sol_balance > 0

=============================================================================
