----------------------------- MODULE PoolProofs -----------------------------
(***************************************************************************)
(* The value of stSOL, for every set of amounts, every reward distribution *)
(* and any number of epochs.                                               *)
(***************************************************************************)
EXTENDS Pool, TLAPS

-----------------------------------------------------------------------------
(* Arithmetic *)

\* Rounding down: what `Mul<Rational>` returns, times the denominator, is at
\* most the exact product.
LEMMA FloorMul ==
    ASSUME NEW a \in Nat, NEW n \in Nat, NEW d \in Nat \ {0}
    PROVE  /\ MulRational(a, n, d) \in Nat
           /\ MulRational(a, n, d) * d <= a * n
<1>1. a * n \in Nat
  OBVIOUS
<1>2. ASSUME NEW x \in Nat
      PROVE  x \div d \in Nat /\ (x \div d) * d <= x
  OBVIOUS
<1>. QED
  BY <1>1, <1>2 DEF MulRational

\* Multiplication by a natural is monotonic.
LEMMA MulMono ==
    ASSUME NEW a \in Nat, NEW b \in Nat, NEW c \in Nat, a <= b
    PROVE  a * c <= b * c
OBVIOUS

\* Both parts of a price are positive naturals.
LEMMA PricePositive ==
    ASSUME NEW r \in Rates
    PROVE  PriceNum(r) \in Nat \ {0} /\ PriceDen(r) \in Nat \ {0}
BY DEF Rates, PriceNum, PriceDen, IsOneToOne

\* SOL is exchanged for at most its value in stSOL.
LEMMA ExchangeSolFair ==
    ASSUME NEW r \in Rates, NEW a \in Nat
    PROVE  /\ exchange_sol(r, a) \in Nat
           /\ exchange_sol(r, a) * PriceNum(r) <= a * PriceDen(r)
<1>1. CASE IsOneToOne(r)
  BY <1>1 DEF exchange_sol, PriceNum, PriceDen
<1>2. CASE ~IsOneToOne(r)
  <2>1. r.sol_balance \in Nat \ {0} /\ r.st_sol_supply \in Nat
    BY <1>2 DEF IsOneToOne, Rates
  <2>. QED
    BY <1>2, <2>1, FloorMul DEF exchange_sol, PriceNum, PriceDen
<1>. QED
  BY <1>1, <1>2

\* stSOL is exchanged for at most its value in SOL.
LEMMA ExchangeStSolFair ==
    ASSUME NEW r \in Rates, NEW a \in Nat, CanExchangeStSol(r)
    PROVE  /\ exchange_st_sol(r, a) \in Nat
           /\ exchange_st_sol(r, a) * PriceDen(r) <= a * PriceNum(r)
<1>1. r.sol_balance \in Nat /\ r.st_sol_supply \in Nat \ {0}
  BY DEF CanExchangeStSol, Rates
<1>2. /\ exchange_st_sol(r, a) \in Nat
      /\ exchange_st_sol(r, a) * r.st_sol_supply <= a * r.sol_balance
  BY <1>1, FloorMul DEF exchange_st_sol
<1>3. CASE r.sol_balance = 0
  <2>1. exchange_st_sol(r, a) * r.st_sol_supply <= 0
    BY <1>1, <1>2, <1>3
  <2>2. exchange_st_sol(r, a) = 0
    BY <1>1, <1>2, <2>1
  <2>3. PriceDen(r) = 1 /\ PriceNum(r) = 1
    BY <1>3 DEF PriceNum, PriceDen, IsOneToOne
  <2>. QED
    BY <2>2, <2>3
<1>4. CASE r.sol_balance # 0
  BY <1>1, <1>2, <1>4 DEF PriceNum, PriceDen, IsOneToOne
<1>. QED
  BY <1>3, <1>4

\* The two fees together are at most the reward (the assertion in split_reward).
LEMMA FeesAtMostReward ==
    ASSUME NEW dist \in [treasury : Nat, developer : Nat, appreciation : Nat],
           NEW reward \in Nat, DistributionSum(dist) # 0
    PROVE  LET fees == split_reward(dist, reward)
           IN  /\ fees.treasury \in Nat
               /\ fees.developer \in Nat
               /\ fees.treasury + fees.developer <= reward
<1>. DEFINE d == DistributionSum(dist)
            t == MulRational(reward, dist.treasury, d)
            e == MulRational(reward, dist.developer, d)
<1>1. /\ dist.treasury \in Nat
      /\ dist.developer \in Nat
      /\ dist.appreciation \in Nat
      /\ d = dist.treasury + dist.developer + dist.appreciation
      /\ d \in Nat \ {0}
  BY DEF DistributionSum
<1>. HIDE DEF d
<1>2. t \in Nat /\ t * d <= reward * dist.treasury
  BY <1>1, FloorMul
<1>3. e \in Nat /\ e * d <= reward * dist.developer
  BY <1>1, FloorMul
<1>. HIDE DEF t, e
<1>4. reward * d = reward * dist.treasury + reward * dist.developer
                     + reward * dist.appreciation
  BY <1>1
<1>5. (t + e) * d <= reward * d
  <2>1. (t + e) * d = t * d + e * d
    BY <1>1, <1>2, <1>3
  <2>2. /\ t * d \in Nat /\ e * d \in Nat /\ reward * d \in Nat
        /\ reward * dist.treasury \in Nat
        /\ reward * dist.developer \in Nat
        /\ reward * dist.appreciation \in Nat
    BY <1>1, <1>2, <1>3
  <2>. QED
    BY <2>1, <2>2, <1>2, <1>3, <1>4
<1>6. t + e <= reward
  <2>1. SUFFICES ASSUME t + e >= reward + 1
                 PROVE  FALSE
    BY <1>2, <1>3
  <2>2. (reward + 1) * d <= (t + e) * d
    <3>1. t + e \in Nat /\ reward + 1 \in Nat /\ d \in Nat /\ reward + 1 <= t + e
      BY <2>1, <1>1, <1>2, <1>3
    <3>. QED
      BY <3>1, MulMono
  <2>3. (reward + 1) * d = reward * d + d
    BY <1>1
  <2>. QED
    BY <2>2, <2>3, <1>5, <1>1, <1>2, <1>3
<1>. QED
  BY <1>2, <1>3, <1>6 DEF split_reward, t, e, d

\* The stSOL minted for fees is worth at most the reward.
LEMMA FeesMintedFair ==
    ASSUME NEW r \in Rates,
           NEW dist \in [treasury : Nat, developer : Nat, appreciation : Nat],
           NEW reward \in Nat, DistributionSum(dist) # 0
    PROVE  /\ FeesMinted(r, dist, reward) \in Nat
           /\ FeesMinted(r, dist, reward) * PriceNum(r) <= reward * PriceDen(r)
<1>. DEFINE t == split_reward(dist, reward).treasury
            e == split_reward(dist, reward).developer
            T == exchange_sol(r, t)
            E == exchange_sol(r, e)
            n == PriceNum(r)
            m == PriceDen(r)
<1>1. t \in Nat /\ e \in Nat /\ t + e <= reward
  BY FeesAtMostReward
<1>2. n \in Nat /\ m \in Nat
  BY PricePositive
<1>. HIDE DEF t, e
<1>3. T \in Nat /\ T * n <= t * m
  BY <1>1, ExchangeSolFair
<1>4. E \in Nat /\ E * n <= e * m
  BY <1>1, ExchangeSolFair
<1>5. FeesMinted(r, dist, reward) = T + E
  BY DEF FeesMinted, t, e
<1>. HIDE DEF T, E, n, m
<1>6. (T + E) * n = T * n + E * n
  BY <1>2, <1>3, <1>4
<1>7. (t + e) * m = t * m + e * m
  BY <1>1, <1>2
<1>8. (t + e) * m <= reward * m
  BY <1>1, <1>2, MulMono
<1>9. /\ T * n \in Nat /\ E * n \in Nat /\ t * m \in Nat /\ e * m \in Nat
      /\ reward * m \in Nat
  BY <1>1, <1>2, <1>3, <1>4
<1>10. (T + E) * n <= reward * m
  BY <1>3, <1>4, <1>6, <1>7, <1>8, <1>9
<1>. QED
  BY <1>3, <1>4, <1>5, <1>10 DEF n, m

-----------------------------------------------------------------------------
(* Type correctness *)

LEMMA InitTypeOK == Init => TypeOK
BY DEF Init, TypeOK, Rates

LEMMA NextTypeOK == TypeOK /\ [Next]_vars => TypeOK'
<1>. SUFFICES ASSUME TypeOK, [Next]_vars
              PROVE  TypeOK'
  OBVIOUS
<1>. USE DEF TypeOK
<1>1. ASSUME NEW amount \in Amounts, Deposit(amount)
      PROVE  TypeOK'
  BY <1>1, PoolAssumption, ExchangeSolFair DEF Deposit
<1>2. ASSUME NEW amount \in Amounts, Donate(amount)
      PROVE  TypeOK'
  BY <1>2, PoolAssumption DEF Donate
<1>3. ASSUME NEW amount \in Amounts, Withdraw(amount)
      PROVE  TypeOK'
  BY <1>3, PoolAssumption, ExchangeStSolFair DEF Withdraw
<1>4. ASSUME NEW amount \in Amounts, Burn(amount)
      PROVE  TypeOK'
  BY <1>4, PoolAssumption DEF Burn
<1>5. ASSUME NEW reward \in Amounts, NEW dist \in Distributions, ObserveReward(reward, dist)
      PROVE  TypeOK'
  BY <1>5, PoolAssumption, FeesMintedFair DEF ObserveReward
<1>6. CASE UpdateExchangeRate
  BY <1>6 DEF UpdateExchangeRate, Rates
<1>7. CASE NextEpoch
  BY <1>7 DEF NextEpoch, Rates
<1>8. CASE UNCHANGED vars
  BY <1>8 DEF vars
<1>. QED
  BY <1>1, <1>2, <1>3, <1>4, <1>5, <1>6, <1>7, <1>8 DEF Next

\* Every reachable state of the pool is well typed, and the recorded exchange
\* rate is never of a later epoch than the clock's.
THEOREM PoolTypeOK == Spec => []TypeOK
BY InitTypeOK, NextTypeOK, PTL DEF Spec

-----------------------------------------------------------------------------
(* The value of stSOL *)

\* The products that appear in SupplyIsCovered distribute over the change that
\* a step makes: `x` more stSOL is covered by `y` more SOL that is worth it.
LEMMA CoverGrows ==
    ASSUME NEW s \in Nat, NEW m \in Nat, NEW x \in Nat, NEW y \in Nat,
           NEW n \in Nat, NEW d \in Nat,
           s * n <= m * d, x * n <= y * d
    PROVE  (s + x) * n <= (m + y) * d
<1>1. (s + x) * n = s * n + x * n /\ (m + y) * d = m * d + y * d
  OBVIOUS
<1>2. s * n \in Nat /\ x * n \in Nat /\ m * d \in Nat /\ y * d \in Nat
  OBVIOUS
<1>. QED
  BY <1>1, <1>2

\* Likewise, when `x` stSOL disappears for `y` SOL that is worth no more.
LEMMA CoverShrinks ==
    ASSUME NEW s \in Nat, NEW m \in Nat, NEW x \in Nat, NEW y \in Nat,
           NEW n \in Nat, NEW d \in Nat, x <= s, y <= m,
           s * n <= m * d, y * d <= x * n
    PROVE  (s - x) * n <= (m - y) * d
<1>1. (s - x) * n = s * n - x * n /\ (m - y) * d = m * d - y * d
  OBVIOUS
<1>2. s * n \in Nat /\ x * n \in Nat /\ m * d \in Nat /\ y * d \in Nat
  OBVIOUS
<1>. QED
  BY <1>1, <1>2

\* Covered stSOL is backed by some SOL, at any rate.
LEMMA CoveredIsBacked ==
    ASSUME TypeOK, SupplyIsCovered, supply > 0
    PROVE  managed > 0
<1>1. PriceNum(exchange_rate) \in Nat \ {0} /\ PriceDen(exchange_rate) \in Nat \ {0}
  BY PricePositive DEF TypeOK
<1>2. SUFFICES ASSUME managed = 0
               PROVE  FALSE
  BY DEF TypeOK
<1>3. supply * PriceNum(exchange_rate) <= 0
  BY <1>1, <1>2 DEF SupplyIsCovered
<1>. QED
  BY <1>1, <1>3 DEF TypeOK

\* stSOL is covered at a rate that is recorded now.
LEMMA CoveredAfterUpdate ==
    ASSUME TypeOK, SupplyIsCovered, UpdateExchangeRate
    PROVE  SupplyIsCovered'
<1>1. /\ managed' = managed /\ supply' = supply
      /\ exchange_rate'.st_sol_supply = supply
      /\ exchange_rate'.sol_balance = managed
      /\ managed \in Nat /\ supply \in Nat
  BY DEF UpdateExchangeRate, TypeOK
<1>2. CASE supply = 0
  <2>1. PriceNum(exchange_rate') = 1 /\ PriceDen(exchange_rate') = 1
    BY <1>1, <1>2 DEF PriceNum, PriceDen, IsOneToOne
  <2>. QED
    BY <1>1, <1>2, <2>1 DEF SupplyIsCovered
<1>3. CASE supply # 0
  <2>1. managed # 0
    BY <1>1, <1>3, CoveredIsBacked
  <2>2. PriceNum(exchange_rate') = managed /\ PriceDen(exchange_rate') = supply
    BY <1>1, <1>3, <2>1 DEF PriceNum, PriceDen, IsOneToOne
  <2>. QED
    BY <1>1, <2>2 DEF SupplyIsCovered
<1>. QED
  BY <1>2, <1>3

LEMMA NextCovered == TypeOK /\ SupplyIsCovered /\ [Next]_vars => SupplyIsCovered'
<1>. SUFFICES ASSUME TypeOK, SupplyIsCovered, [Next]_vars
              PROVE  SupplyIsCovered'
  OBVIOUS
<1>. DEFINE n == PriceNum(exchange_rate)
            d == PriceDen(exchange_rate)
<1>1. /\ managed \in Nat /\ supply \in Nat /\ exchange_rate \in Rates
      /\ n \in Nat /\ d \in Nat
      /\ supply * n <= managed * d
  BY PricePositive DEF TypeOK, SupplyIsCovered
<1>2. ASSUME exchange_rate' = exchange_rate, supply' * n <= managed' * d
      PROVE  SupplyIsCovered'
  BY <1>2 DEF SupplyIsCovered
<1>3. ASSUME NEW amount \in Amounts, Deposit(amount)
      PROVE  SupplyIsCovered'
  <2>1. amount \in Nat
    BY PoolAssumption
  <2>2. exchange_sol(exchange_rate, amount) \in Nat
        /\ exchange_sol(exchange_rate, amount) * n <= amount * d
    BY <1>1, <2>1, ExchangeSolFair
  <2>3. (supply + exchange_sol(exchange_rate, amount)) * n <= (managed + amount) * d
    BY <1>1, <2>1, <2>2, CoverGrows
  <2>. QED
    BY <1>2, <1>3, <2>3 DEF Deposit
<1>4. ASSUME NEW amount \in Amounts, Donate(amount)
      PROVE  SupplyIsCovered'
  <2>1. amount \in Nat /\ 0 * n <= amount * d /\ supply + 0 = supply
    BY <1>1, PoolAssumption
  <2>2. (supply + 0) * n <= (managed + amount) * d
    BY <1>1, <2>1, CoverGrows
  <2>. QED
    BY <1>2, <1>4, <2>1, <2>2 DEF Donate
<1>5. ASSUME NEW amount \in Amounts, Withdraw(amount)
      PROVE  SupplyIsCovered'
  <2>. DEFINE sol == exchange_st_sol(exchange_rate, amount)
  <2>1. amount \in Nat
    BY PoolAssumption
  <2>2. sol \in Nat /\ sol * d <= amount * n
    BY <1>1, <1>5, <2>1, ExchangeStSolFair DEF Withdraw
  <2>3. amount <= supply /\ sol <= managed
    BY <1>5 DEF Withdraw
  <2>4. (supply - amount) * n <= (managed - sol) * d
    BY <1>1, <2>1, <2>2, <2>3, CoverShrinks
  <2>. QED
    BY <1>2, <1>5, <2>4 DEF Withdraw
<1>6. ASSUME NEW amount \in Amounts, Burn(amount)
      PROVE  SupplyIsCovered'
  <2>1. amount \in Nat /\ amount <= supply /\ 0 * d <= amount * n /\ managed - 0 = managed
    BY <1>1, <1>6, PoolAssumption DEF Burn
  <2>2. (supply - amount) * n <= (managed - 0) * d
    BY <1>1, <2>1, CoverShrinks
  <2>. QED
    BY <1>2, <1>6, <2>1, <2>2 DEF Burn
<1>7. ASSUME NEW reward \in Amounts, NEW dist \in Distributions, ObserveReward(reward, dist)
      PROVE  SupplyIsCovered'
  <2>. DEFINE fees == FeesMinted(exchange_rate, dist, reward)
  <2>1. reward \in Nat /\ dist \in [treasury : Nat, developer : Nat, appreciation : Nat]
    BY PoolAssumption
  <2>2. fees \in Nat /\ fees * n <= reward * d
    BY <1>1, <1>7, <2>1, FeesMintedFair DEF ObserveReward
  <2>3. (supply + fees) * n <= (managed + reward) * d
    BY <1>1, <2>1, <2>2, CoverGrows
  <2>. QED
    BY <1>2, <1>7, <2>3 DEF ObserveReward
<1>8. CASE UpdateExchangeRate
  BY <1>8, CoveredAfterUpdate
<1>9. CASE NextEpoch
  BY <1>1, <1>2, <1>9 DEF NextEpoch
<1>10. CASE UNCHANGED vars
  BY <1>1, <1>2, <1>10 DEF vars
<1>. QED
  BY <1>3, <1>4, <1>5, <1>6, <1>7, <1>8, <1>9, <1>10 DEF Next

\* In every reachable state the stSOL in existence is covered by the managed
\* SOL at the recorded rate, whatever was deposited, withdrawn, burned,
\* donated or paid as a fee, in whichever order, at a rate of whichever age.
THEOREM PoolSupplyIsCovered == Spec => []SupplyIsCovered
<1>1. Init => SupplyIsCovered
  BY DEF Init, SupplyIsCovered, PriceNum, PriceDen, IsOneToOne
<1>. QED
  BY <1>1, NextCovered, PoolTypeOK, PTL DEF Spec

LEMMA NextPrice ==
    ASSUME TypeOK, SupplyIsCovered, [Next]_vars, exchange_rate'.st_sol_supply > 0
    PROVE  NotLower(exchange_rate, exchange_rate')
<1>1. CASE exchange_rate' = exchange_rate
  BY <1>1, PricePositive DEF NotLower, TypeOK
<1>2. CASE UpdateExchangeRate
  <2>1. /\ exchange_rate'.st_sol_supply = supply
        /\ exchange_rate'.sol_balance = managed
        /\ managed \in Nat /\ supply \in Nat /\ supply > 0
    BY <1>2 DEF UpdateExchangeRate, TypeOK
  <2>2. PriceNum(exchange_rate) \in Nat \ {0} /\ PriceDen(exchange_rate) \in Nat \ {0}
    BY PricePositive DEF TypeOK
  <2>3. managed > 0
    BY <2>1, CoveredIsBacked
  <2>4. PriceNum(exchange_rate') = managed /\ PriceDen(exchange_rate') = supply
    BY <2>1, <2>3 DEF PriceNum, PriceDen, IsOneToOne
  <2>. QED
    BY <2>1, <2>2, <2>4 DEF NotLower, SupplyIsCovered
<1>. QED
  BY <1>1, <1>2 DEF Next, Deposit, Donate, Withdraw, Burn, ObserveReward, NextEpoch, vars

\* No step of the pool lowers the recorded value of stSOL while stSOL exists.
THEOREM PoolPriceNeverDrops == Spec => PriceNeverDrops
<1>1. TypeOK /\ SupplyIsCovered /\ [Next]_vars
        => [exchange_rate'.st_sol_supply > 0
               => NotLower(exchange_rate, exchange_rate')]_vars
  BY NextPrice
<1>. QED
  BY <1>1, PoolTypeOK, PoolSupplyIsCovered, PTL DEF Spec, PriceNeverDrops

\* No rate is ever recorded at which stSOL exists but is worth nothing.
THEOREM PoolStSolNeverWorthless == Spec => []StSolNeverWorthless
<1>1. Init => StSolNeverWorthless
  BY DEF Init, StSolNeverWorthless
<1>2. TypeOK /\ SupplyIsCovered /\ StSolNeverWorthless /\ [Next]_vars => StSolNeverWorthless'
  <2>. SUFFICES ASSUME TypeOK, SupplyIsCovered, StSolNeverWorthless, [Next]_vars
                PROVE  StSolNeverWorthless'
    OBVIOUS
  <2>1. CASE exchange_rate' = exchange_rate
    BY <2>1 DEF StSolNeverWorthless
  <2>2. CASE UpdateExchangeRate
    BY <2>2, CoveredIsBacked DEF UpdateExchangeRate, StSolNeverWorthless, TypeOK
  <2>. QED
    BY <2>1, <2>2 DEF Next, Deposit, Donate, Withdraw, Burn, ObserveReward, NextEpoch, vars
<1>. QED
  BY <1>1, <1>2, PoolTypeOK, PoolSupplyIsCovered, PTL DEF Spec

=============================================================================
