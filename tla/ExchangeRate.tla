---------------------------- MODULE ExchangeRate ----------------------------
(***************************************************************************)
(* The arithmetic of the pool: conversion between SOL and stSOL at the     *)
(* exchange rate that was recorded at the start of an epoch, and the split *)
(* of a reward into fees.  Amounts are naturals; every product is floored  *)
(* exactly as `token.rs` does (multiply in 128 bits, divide, truncate).    *)
(*                                                                         *)
(* An operator whose name ends in _Bug is a mutation of the operator that  *)
(* follows it; no specification uses it.                                   *)
(***************************************************************************)
EXTENDS Integers

\* Mutation: the result is rounded up.
MulRational_Bug(amount, numerator, denominator) ==
    (amount * numerator + denominator - 1) \div denominator

\* `Mul<Rational>` of `token.rs`: the result is rounded down.
MulRational(amount, numerator, denominator) ==
    (amount * numerator) \div denominator

\* The two cases in which `exchange_sol` assumes a 1:1 rate.
IsOneToOne(rate) == rate.st_sol_supply = 0 \/ rate.sol_balance = 0

\* Mutation: the recorded rate is ignored.
exchange_sol_Bug(rate, amount) == amount

\* SOL to stSOL.
exchange_sol(rate, amount) ==
    IF IsOneToOne(rate)
    THEN amount
    ELSE MulRational(amount, rate.st_sol_supply, rate.sol_balance)

\* stSOL to SOL; the code refuses when no stSOL existed at the recorded rate.
CanExchangeStSol(rate) == rate.st_sol_supply # 0

exchange_st_sol(rate, amount) ==
    MulRational(amount, rate.sol_balance, rate.st_sol_supply)

\* A reward distribution [treasury, developer, appreciation] is in parts.
DistributionSum(dist) == dist.treasury + dist.developer + dist.appreciation

\* Fees are rounded down, what is left makes the value of stSOL go up.
split_reward(dist, amount) ==
    [treasury  |-> MulRational(amount, dist.treasury, DistributionSum(dist)),
     developer |-> MulRational(amount, dist.developer, DistributionSum(dist))]

\* The stSOL that `distribute_fees` mints for a reward.
FeesMinted(rate, dist, reward) ==
    LET fees == split_reward(dist, reward)
    IN  exchange_sol(rate, fees.treasury) + exchange_sol(rate, fees.developer)

(***************************************************************************)
(* The value of one stSOL at a recorded rate, as a fraction of naturals    *)
(* with a positive numerator and denominator.                              *)
(***************************************************************************)
PriceNum(rate) == IF IsOneToOne(rate) THEN 1 ELSE rate.sol_balance
PriceDen(rate) == IF IsOneToOne(rate) THEN 1 ELSE rate.st_sol_supply

=============================================================================
