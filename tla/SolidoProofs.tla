---------------------------- MODULE SolidoProofs ----------------------------
(***************************************************************************)
(* The on-chain program, for every set of validators, any number of seeds  *)
(* and any amounts: the balances it tracks are backed, its accounts stay   *)
(* usable, no SOL is left behind, and it implements Pool and StakeBook.    *)
(***************************************************************************)
EXTENDS Solido, DataLemmas

\* The abstract specifications with what is proved about them.
P == INSTANCE PoolProofs WITH managed <- get_sol_balance,
                              Amounts <- 0..TotalSol,
                              MaxManaged <- TotalSol

B == INSTANCE StakeBookProofs WITH book      <- validators,
                                   staked    <- Staked,
                                   unstaking <- Unstaking,
                                   Amounts   <- 0..TotalSol

-----------------------------------------------------------------------------
(* Lamports of the accounts of a validator *)

Rows == [Seeds -> StakeAccounts]

LEMMA SeedsFinite == IsFiniteSet(Seeds) /\ \A R \in SUBSET Seeds : IsFiniteSet(R)
<1>1. IsFiniteSet(Seeds)
  BY SolidoAssumption, FS_Interval DEF Seeds
<1>. QED
  BY <1>1, FS_Subset

\* The terms of SumLamports are naturals.
LEMMA LamportsTerms ==
    ASSUME NEW row \in Rows, NEW R \in SUBSET Seeds
    PROVE  /\ IsFiniteSet(R)
           /\ \A s \in R : /\ [t \in R |-> row[t].lamports][s] = row[s].lamports
                           /\ row[s].lamports \in Nat
BY SeedsFinite DEF Rows, StakeAccounts

LEMMA LamportsNat ==
    ASSUME NEW row \in Rows, NEW R \in SUBSET Seeds
    PROVE  /\ SumLamports(row, R) \in Nat
           /\ \A s \in R : row[s].lamports <= SumLamports(row, R)
<1>. DEFINE f == [t \in R |-> row[t].lamports]
<1>1. IsFiniteSet(R) /\ \A s \in R : f[s] = row[s].lamports /\ f[s] \in Nat
  BY LamportsTerms
<1>2. SumLamports(row, R) = SumFunctionOnSet(f, R)
  BY DEF SumLamports
<1>. HIDE DEF f
<1>3. /\ SumFunctionOnSet(f, R) \in Nat
      /\ \A s \in R : f[s] <= SumFunctionOnSet(f, R)
  BY <1>1, SumIsNat
<1>. QED
  BY <1>1, <1>2, <1>3

LEMMA LamportsOfNone ==
    ASSUME NEW row, NEW R, R = {}
    PROVE  SumLamports(row, R) = 0
<1>. DEFINE f == [t \in R |-> row[t].lamports]
<1>1. SumLamports(row, R) = SumFunctionOnSet(f, R)
  BY DEF SumLamports
<1>. HIDE DEF f
<1>2. SumFunctionOnSet(f, R) = 0
  BY SumEmpty
<1>. QED
  BY <1>1, <1>2

LEMMA LamportsSame ==
    ASSUME NEW row \in Rows, NEW new \in Rows, NEW R \in SUBSET Seeds,
           \A s \in R : new[s].lamports = row[s].lamports
    PROVE  SumLamports(new, R) = SumLamports(row, R)
<1>. DEFINE f == [t \in R |-> row[t].lamports]
            g == [t \in R |-> new[t].lamports]
<1>1. IsFiniteSet(R) /\ \A s \in R : g[s] \in Int /\ f[s] = g[s]
  BY LamportsTerms
<1>2. SumLamports(row, R) = SumFunctionOnSet(f, R) /\ SumLamports(new, R) = SumFunctionOnSet(g, R)
  BY DEF SumLamports
<1>. HIDE DEF f, g
<1>3. SumFunctionOnSet(g, R) = SumFunctionOnSet(f, R)
  BY <1>1, SumOfEqual
<1>. QED
  BY <1>2, <1>3

\* One account changes.
LEMMA LamportsWithChange ==
    ASSUME NEW row \in Rows, NEW new \in Rows, NEW R \in SUBSET Seeds, NEW e \in R,
           \A s \in R : s # e => new[s].lamports = row[s].lamports
    PROVE  SumLamports(new, R) = SumLamports(row, R) - row[e].lamports + new[e].lamports
<1>. DEFINE f == [t \in R |-> row[t].lamports]
            g == [t \in R |-> new[t].lamports]
<1>1. /\ IsFiniteSet(R)
      /\ \A s \in R : f[s] \in Int /\ g[s] \in Int /\ (s # e => g[s] = f[s])
      /\ f[e] = row[e].lamports /\ g[e] = new[e].lamports
  BY LamportsTerms
<1>2. SumLamports(row, R) = SumFunctionOnSet(f, R) /\ SumLamports(new, R) = SumFunctionOnSet(g, R)
  BY DEF SumLamports
<1>. HIDE DEF f, g
<1>3. SumFunctionOnSet(g, R) = SumFunctionOnSet(f, R) - f[e] + g[e]
  BY <1>1, SumWithChange
<1>. QED
  BY <1>1, <1>2, <1>3

\* Accounts that are part of others.
LEMMA LamportsSplit ==
    ASSUME NEW row \in Rows, NEW R \in SUBSET Seeds, NEW T, T \subseteq R
    PROVE  /\ SumLamports(row, R) = SumLamports(row, T) + SumLamports(row, R \ T)
           /\ SumLamports(row, T) <= SumLamports(row, R)
<1>. DEFINE f == [t \in R |-> row[t].lamports]
            g == [t \in T |-> row[t].lamports]
            Q == R \ T
            h == [t \in Q |-> row[t].lamports]
<1>1. IsFiniteSet(R) /\ \A s \in R : f[s] \in Int /\ f[s] = row[s].lamports
  BY LamportsTerms
<1>2. /\ SumLamports(row, R) = SumFunctionOnSet(f, R)
      /\ SumLamports(row, T) = SumFunctionOnSet(g, T)
      /\ SumLamports(row, Q) = SumFunctionOnSet(h, Q)
  BY DEF SumLamports
<1>3. SumFunctionOnSet(f, R) = SumFunctionOnSet(f, T) + SumFunctionOnSet(f, Q)
  <2>. HIDE DEF f
  <2>. QED
    BY <1>1, SumSplits
<1>4. IsFiniteSet(T) /\ \A s \in T : g[s] = f[s] /\ f[s] \in Int
  BY <1>1, FS_Subset
<1>5. IsFiniteSet(Q) /\ \A s \in Q : h[s] = f[s] /\ f[s] \in Int
  BY <1>1, FS_Subset
<1>6. T \in SUBSET Seeds /\ Q \in SUBSET Seeds
  OBVIOUS
<1>7. SumLamports(row, T) \in Nat
  BY <1>6, LamportsNat
<1>. HIDE DEF Q
<1>8. SumLamports(row, Q) \in Nat
  BY <1>6, LamportsNat
<1>. HIDE DEF f, g, h
<1>9. SumFunctionOnSet(f, T) = SumFunctionOnSet(g, T)
  BY <1>4, SumOfEqual
<1>10. SumFunctionOnSet(f, Q) = SumFunctionOnSet(h, Q)
  BY <1>5, SumOfEqual
<1>11. SumLamports(row, R) = SumLamports(row, T) + SumLamports(row, Q)
  BY <1>2, <1>3, <1>9, <1>10
<1>12. SumLamports(row, T) <= SumLamports(row, R)
  BY <1>7, <1>8, <1>11
<1>. QED
  BY <1>11, <1>12 DEF Q

\* One account more.
LEMMA LamportsOneMore ==
    ASSUME NEW row \in Rows, NEW R \in SUBSET Seeds, NEW T, NEW e,
           e \in R, T = R \ {e}
    PROVE  SumLamports(row, R) = SumLamports(row, T) + row[e].lamports
<1>. DEFINE f == [t \in R |-> row[t].lamports]
            g == [t \in T |-> row[t].lamports]
<1>1. /\ IsFiniteSet(R) /\ \A s \in R : f[s] \in Int
      /\ f[e] = row[e].lamports
  BY LamportsTerms
<1>2. SumLamports(row, R) = SumFunctionOnSet(f, R) /\ SumLamports(row, T) = SumFunctionOnSet(g, T)
  BY DEF SumLamports
<1>3. IsFiniteSet(T) /\ \A s \in T : g[s] = f[s] /\ f[s] \in Int
  BY <1>1, FS_Subset
<1>. HIDE DEF f, g
<1>4. SumFunctionOnSet(f, R) = f[e] + SumFunctionOnSet(f, T)
  BY <1>1, SumTakeOut
<1>5. SumFunctionOnSet(f, T) = SumFunctionOnSet(g, T)
  BY <1>3, SumOfEqual
<1>6. SumFunctionOnSet(f, T) \in Int
  BY <1>3, SumIsInt
<1>. QED
  BY <1>1, <1>2, <1>4, <1>5, <1>6

\* Every account gains or loses.
LEMMA LamportsWithGains ==
    ASSUME NEW row \in Rows, NEW new \in Rows, NEW R \in SUBSET Seeds, NEW gain,
           \A s \in R : gain[s] \in Int /\ new[s].lamports = row[s].lamports + gain[s]
    PROVE  /\ SumFunctionOnSet(gain, R) \in Int
           /\ SumLamports(new, R) = SumLamports(row, R) + SumFunctionOnSet(gain, R)
<1>. DEFINE f == [t \in R |-> row[t].lamports]
            g == [t \in R |-> new[t].lamports]
<1>1. /\ IsFiniteSet(R)
      /\ \A s \in R : f[s] \in Int /\ gain[s] \in Int /\ g[s] = f[s] + gain[s]
  <2>1. IsFiniteSet(R) /\ \A s \in R : f[s] = row[s].lamports /\ f[s] \in Int
    BY LamportsTerms
  <2>2. \A s \in R : g[s] = new[s].lamports
    OBVIOUS
  <2>. HIDE DEF f, g
  <2>. QED
    BY <2>1, <2>2
<1>2. SumLamports(row, R) = SumFunctionOnSet(f, R) /\ SumLamports(new, R) = SumFunctionOnSet(g, R)
  BY DEF SumLamports
<1>. HIDE DEF f, g
<1>3. SumFunctionOnSet(g, R) = SumFunctionOnSet(f, R) + SumFunctionOnSet(gain, R)
  BY <1>1, SumAdds
<1>4. SumFunctionOnSet(gain, R) \in Int
  BY <1>1, SumIsInt
<1>. QED
  BY <1>2, <1>3, <1>4

-----------------------------------------------------------------------------
(* Totals over the validators *)

Grids == [Votes -> Rows]

\* All lamports at the addresses of stake, or of unstake, accounts.
Total(grid) == SumFunctionOnSet([v \in Votes |-> SumLamports(grid[v], Seeds)], Votes)

\* All SOL that is recorded for validators.
Tracked(vals) == SumFunctionOnSet([v \in Votes |-> vals[v].stake_accounts_balance], Votes)

LEMMA TotalTerms ==
    ASSUME NEW grid \in Grids
    PROVE  /\ IsFiniteSet(Votes)
           /\ \A v \in Votes : /\ [w \in Votes |-> SumLamports(grid[w], Seeds)][v]
                                     = SumLamports(grid[v], Seeds)
                               /\ SumLamports(grid[v], Seeds) \in Nat
<1>1. ASSUME NEW v \in Votes
      PROVE  SumLamports(grid[v], Seeds) \in Nat
  <2>1. grid[v] \in Rows /\ Seeds \in SUBSET Seeds
    BY DEF Grids
  <2>. QED
    BY <2>1, LamportsNat
<1>. QED
  BY <1>1, SolidoAssumption

LEMMA TotalNat ==
    ASSUME NEW grid \in Grids
    PROVE  /\ Total(grid) \in Nat
           /\ \A v \in Votes : SumLamports(grid[v], Seeds) <= Total(grid)
<1>. DEFINE f == [w \in Votes |-> SumLamports(grid[w], Seeds)]
<1>1. /\ IsFiniteSet(Votes)
      /\ \A v \in Votes : f[v] = SumLamports(grid[v], Seeds) /\ f[v] \in Nat
  BY TotalTerms
<1>2. Total(grid) = SumFunctionOnSet(f, Votes)
  BY DEF Total
<1>. HIDE DEF f
<1>3. /\ SumFunctionOnSet(f, Votes) \in Nat
      /\ \A v \in Votes : f[v] <= SumFunctionOnSet(f, Votes)
  BY <1>1, SumIsNat
<1>. QED
  BY <1>1, <1>2, <1>3

\* The accounts of each validator gain or lose.
LEMMA TotalWithGains ==
    ASSUME NEW grid \in Grids, NEW new \in Grids, NEW gain,
           \A v \in Votes : /\ gain[v] \in Int
                            /\ SumLamports(new[v], Seeds) = SumLamports(grid[v], Seeds) + gain[v]
    PROVE  /\ SumFunctionOnSet(gain, Votes) \in Int
           /\ Total(new) = Total(grid) + SumFunctionOnSet(gain, Votes)
<1>. DEFINE f == [w \in Votes |-> SumLamports(grid[w], Seeds)]
            g == [w \in Votes |-> SumLamports(new[w], Seeds)]
<1>1. /\ IsFiniteSet(Votes)
      /\ \A v \in Votes : f[v] \in Int /\ gain[v] \in Int /\ g[v] = f[v] + gain[v]
  <2>1. IsFiniteSet(Votes) /\ \A v \in Votes : f[v] = SumLamports(grid[v], Seeds) /\ f[v] \in Int
    BY TotalTerms
  <2>2. \A v \in Votes : g[v] = SumLamports(new[v], Seeds)
    OBVIOUS
  <2>. HIDE DEF f, g
  <2>. QED
    BY <2>1, <2>2
<1>2. Total(grid) = SumFunctionOnSet(f, Votes) /\ Total(new) = SumFunctionOnSet(g, Votes)
  BY DEF Total
<1>. HIDE DEF f, g
<1>3. SumFunctionOnSet(g, Votes) = SumFunctionOnSet(f, Votes) + SumFunctionOnSet(gain, Votes)
  BY <1>1, SumAdds
<1>4. SumFunctionOnSet(gain, Votes) \in Int
  BY <1>1, SumIsInt
<1>. QED
  BY <1>2, <1>3, <1>4

\* The accounts of one validator change.
LEMMA TotalWithChange ==
    ASSUME NEW grid \in Grids, NEW new \in Grids, NEW v \in Votes,
           \A w \in Votes : w # v => new[w] = grid[w]
    PROVE  Total(new) = Total(grid) - SumLamports(grid[v], Seeds) + SumLamports(new[v], Seeds)
<1>. DEFINE f == [w \in Votes |-> SumLamports(grid[w], Seeds)]
            g == [w \in Votes |-> SumLamports(new[w], Seeds)]
<1>1. IsFiniteSet(Votes) /\ \A w \in Votes : f[w] = SumLamports(grid[w], Seeds) /\ f[w] \in Int
  BY TotalTerms
<1>2. \A w \in Votes : g[w] = SumLamports(new[w], Seeds) /\ g[w] \in Int
  BY TotalTerms
<1>3. Total(grid) = SumFunctionOnSet(f, Votes) /\ Total(new) = SumFunctionOnSet(g, Votes)
  BY DEF Total
<1>. HIDE DEF f, g
<1>4. \A w \in Votes : w # v => g[w] = f[w]
  BY <1>1, <1>2
<1>5. SumFunctionOnSet(g, Votes) = SumFunctionOnSet(f, Votes) - f[v] + g[v]
  BY <1>1, <1>2, <1>4, SumWithChange
<1>. QED
  BY <1>1, <1>2, <1>3, <1>5

LEMMA TrackedTerms ==
    ASSUME NEW vals \in [Votes -> Validators]
    PROVE  /\ IsFiniteSet(Votes)
           /\ \A v \in Votes : /\ [w \in Votes |-> vals[w].stake_accounts_balance][v]
                                     = vals[v].stake_accounts_balance
                               /\ vals[v].stake_accounts_balance \in Nat
BY SolidoAssumption DEF Validators

LEMMA TrackedNat ==
    ASSUME NEW vals \in [Votes -> Validators]
    PROVE  /\ Tracked(vals) \in Nat
           /\ \A v \in Votes : vals[v].stake_accounts_balance <= Tracked(vals)
<1>. DEFINE f == [w \in Votes |-> vals[w].stake_accounts_balance]
<1>1. /\ IsFiniteSet(Votes)
      /\ \A v \in Votes : f[v] = vals[v].stake_accounts_balance /\ f[v] \in Nat
  BY TrackedTerms
<1>2. Tracked(vals) = SumFunctionOnSet(f, Votes)
  BY DEF Tracked
<1>. HIDE DEF f
<1>3. /\ SumFunctionOnSet(f, Votes) \in Nat
      /\ \A v \in Votes : f[v] <= SumFunctionOnSet(f, Votes)
  BY <1>1, SumIsNat
<1>. QED
  BY <1>1, <1>2, <1>3

LEMMA TrackedWithChange ==
    ASSUME NEW vals \in [Votes -> Validators], NEW new \in [Votes -> Validators],
           NEW v \in Votes,
           \A w \in Votes : w # v => new[w] = vals[w]
    PROVE  Tracked(new) = Tracked(vals) - vals[v].stake_accounts_balance
                                        + new[v].stake_accounts_balance
<1>. DEFINE f == [w \in Votes |-> vals[w].stake_accounts_balance]
            g == [w \in Votes |-> new[w].stake_accounts_balance]
<1>1. IsFiniteSet(Votes) /\ \A w \in Votes : f[w] = vals[w].stake_accounts_balance /\ f[w] \in Int
  BY TrackedTerms
<1>2. \A w \in Votes : g[w] = new[w].stake_accounts_balance /\ g[w] \in Int
  BY TrackedTerms
<1>3. Tracked(vals) = SumFunctionOnSet(f, Votes) /\ Tracked(new) = SumFunctionOnSet(g, Votes)
  BY DEF Tracked
<1>. HIDE DEF f, g
<1>4. \A w \in Votes : w # v => g[w] = f[w]
  BY <1>1, <1>2
<1>5. SumFunctionOnSet(g, Votes) = SumFunctionOnSet(f, Votes) - f[v] + g[v]
  BY <1>1, <1>2, <1>4, SumWithChange
<1>. QED
  BY <1>1, <1>2, <1>3, <1>5

\* What is recorded for validators is no more than what their addresses hold.
LEMMA TrackedIsHeld ==
    ASSUME NEW vals \in [Votes -> Validators], NEW grid \in Grids, NEW other \in Grids,
           \A v \in Votes : vals[v].stake_accounts_balance
                              <= SumLamports(grid[v], Seeds) + SumLamports(other[v], Seeds)
    PROVE  Tracked(vals) <= Total(grid) + Total(other)
<1>. DEFINE f == [w \in Votes |-> SumLamports(grid[w], Seeds)]
            g == [w \in Votes |-> SumLamports(other[w], Seeds)]
            h == [w \in Votes |-> f[w] + g[w]]
            b == [w \in Votes |-> vals[w].stake_accounts_balance]
<1>1. IsFiniteSet(Votes) /\ \A w \in Votes : f[w] = SumLamports(grid[w], Seeds) /\ f[w] \in Int
  BY TotalTerms
<1>2. \A w \in Votes : g[w] = SumLamports(other[w], Seeds) /\ g[w] \in Int
  BY TotalTerms
<1>3. /\ Total(grid) = SumFunctionOnSet(f, Votes) /\ Total(other) = SumFunctionOnSet(g, Votes)
      /\ Tracked(vals) = SumFunctionOnSet(b, Votes)
  BY DEF Total, Tracked
<1>4. \A w \in Votes : b[w] = vals[w].stake_accounts_balance /\ b[w] \in Int
  BY TrackedTerms
<1>. HIDE DEF f, g, b
<1>5. \A w \in Votes : h[w] = f[w] + g[w] /\ h[w] \in Int
  BY <1>1, <1>2
<1>. HIDE DEF h
<1>6. SumFunctionOnSet(h, Votes) = SumFunctionOnSet(f, Votes) + SumFunctionOnSet(g, Votes)
  BY <1>1, <1>2, <1>5, SumAdds
<1>7. \A w \in Votes : b[w] <= h[w]
  BY <1>1, <1>2, <1>4, <1>5
<1>8. SumFunctionOnSet(b, Votes) <= SumFunctionOnSet(h, Votes)
  BY <1>1, <1>4, <1>5, <1>7, SumGrows
<1>. QED
  BY <1>3, <1>6, <1>8

\* A vote account that is not listed has no balance, so the sum over the list
\* is the sum over all.
LEMMA ListedSum ==
    ASSUME NEW vals \in [Votes -> Validators],
           \A v \in Votes : vals[v].status = "NotListed" => vals[v].stake_accounts_balance = 0,
           NEW L, L = {v \in Votes : vals[v].status # "NotListed"}
    PROVE  SumFunctionOnSet([v \in L |-> vals[v].stake_accounts_balance], L) = Tracked(vals)
<1>. DEFINE f == [w \in Votes |-> vals[w].stake_accounts_balance]
            g == [w \in L |-> vals[w].stake_accounts_balance]
            Q == Votes \ L
<1>1. IsFiniteSet(Votes) /\ \A w \in Votes : f[w] = vals[w].stake_accounts_balance /\ f[w] \in Int
  BY TrackedTerms
<1>2. Tracked(vals) = SumFunctionOnSet(f, Votes)
  BY DEF Tracked
<1>3. IsFiniteSet(L) /\ L \subseteq Votes /\ \A w \in L : f[w] = g[w] /\ g[w] \in Int
  BY <1>1, FS_Subset
<1>4. IsFiniteSet(Q) /\ \A w \in Q : f[w] = 0
  BY <1>1, FS_Subset
<1>5. SumFunctionOnSet(f, Votes) = SumFunctionOnSet(f, L) + SumFunctionOnSet(f, Q)
  <2>. HIDE DEF f
  <2>. QED
    BY <1>1, <1>3, SumSplits
<1>. HIDE DEF f, g, Q
<1>6. SumFunctionOnSet(f, Q) = 0
  BY <1>4, SumOfZeros
<1>7. SumFunctionOnSet(f, L) = SumFunctionOnSet(g, L)
  BY <1>3, SumOfEqual
<1>8. SumFunctionOnSet(f, L) \in Int
  BY <1>3, SumIsInt
<1>9. SumFunctionOnSet(g, L) = Tracked(vals)
  BY <1>2, <1>5, <1>6, <1>7, <1>8
<1>. QED
  BY <1>9 DEF g

-----------------------------------------------------------------------------
(* The inductive invariant *)

\* The accounts of a seed range and around it: the program has emptied those
\* that it moved past, and not yet created those at the end.
StakesOrderly(range, row) ==
    /\ range.begin <= range.end
    /\ range.end <= MaxSeed
    /\ \A s \in Seeds : /\ s < range.begin => row[s] = EmptyAccount
                        /\ s \in SeedsOf(range) => /\ row[s].phase \in {"activating", "active"}
                                                   /\ row[s].stake + Rent <= row[s].lamports
                        /\ s >= range.end => row[s].phase = "none"

UnstakesOrderly(range, row) ==
    /\ range.begin <= range.end
    /\ range.end <= MaxSeed
    /\ \A s \in Seeds : /\ s < range.begin => row[s] = EmptyAccount
                        /\ s \in SeedsOf(range) => row[s].phase \in {"deactivating", "inactive"}
                        /\ s >= range.end => row[s].phase = "none"

AccountsAreOrderly ==
    \A v \in Votes : /\ StakesOrderly(validators[v].stake_seeds, stake_accounts[v])
                     /\ UnstakesOrderly(validators[v].unstake_seeds, unstake_accounts[v])

\* No lamport appears or gets lost.
SolIsConserved ==
    reserve + outside + Total(stake_accounts) + Total(unstake_accounts) = TotalSol

AccountsInv == TypeOK /\ AccountsAreOrderly /\ SolIsConserved

\* One stSOL was never worth less than one SOL.
RateIsAtLeastPar == exchange_rate.st_sol_supply <= exchange_rate.sol_balance

\* The invariants of the abstract specifications are part of it: that the
\* books are backed is why the accounts that an instruction names exist.
SolidoInv == /\ AccountsInv
             /\ B!BooksInv
             /\ P!TypeOK
             /\ P!SupplyIsCovered
             /\ RateIsAtLeastPar

-----------------------------------------------------------------------------
(* Steps that change one validator *)

LEMMA TypesOfGrids == TypeOK => stake_accounts \in Grids /\ unstake_accounts \in Grids
BY DEF TypeOK, Grids, Rows

LEMMA RangeIsPart ==
    ASSUME NEW range \in SeedRanges, range.end <= MaxSeed
    PROVE  SeedsOf(range) \in SUBSET Seeds
BY SolidoAssumption DEF SeedRanges, SeedsOf, Seeds

\* Writing one account.
LEMMA RowWithAccount ==
    ASSUME NEW row \in Rows, NEW s \in Seeds, NEW a \in StakeAccounts,
           NEW new, Overwrites(row, s, a, new)
    PROVE  /\ new \in Rows
           /\ new[s] = a
           /\ \A t \in Seeds : t # s => new[t] = row[t]
           /\ \A R \in SUBSET Seeds :
                 SumLamports(new, R) = IF s \in R
                                       THEN SumLamports(row, R) - row[s].lamports + a.lamports
                                       ELSE SumLamports(row, R)
<1>1. new \in Rows /\ new[s] = a /\ \A t \in Seeds : t # s => new[t] = row[t]
  BY DEF Rows, Overwrites
<1>2. ASSUME NEW R \in SUBSET Seeds, s \in R
      PROVE  SumLamports(new, R) = SumLamports(row, R) - row[s].lamports + a.lamports
  <2>1. \A t \in R : t # s => new[t].lamports = row[t].lamports
    BY <1>1
  <2>2. SumLamports(new, R) = SumLamports(row, R) - row[s].lamports + new[s].lamports
    BY <1>1, <1>2, <2>1, LamportsWithChange
  <2>. QED
    BY <1>1, <2>2
<1>3. ASSUME NEW R \in SUBSET Seeds, s \notin R
      PROVE  SumLamports(new, R) = SumLamports(row, R)
  <2>1. \A t \in R : new[t].lamports = row[t].lamports
    BY <1>1, <1>3
  <2>. QED
    BY <1>1, <2>1, LamportsSame
<1>. QED
  BY <1>1, <1>2, <1>3

LEMMA Ledger ==
    ASSUME NEW r \in Nat, NEW o \in Nat, NEW x \in Nat, NEW y \in Nat, NEW A \in Nat, NEW C \in Nat,
           NEW r1 \in Nat, NEW o1 \in Nat, NEW z \in Nat, NEW u \in Nat, NEW T,
           r + o + A + C = T, r1 + o1 + z + u = r + o + x + y
    PROVE  r1 + o1 + (A - x + z) + (C - y + u) = T
OBVIOUS

\* A step that writes the entry and the accounts of one validator, and how
\* totals follow.
Rewrites(v, b, row, other) ==
    /\ b \in Validators /\ row \in Rows /\ other \in Rows
    /\ StakesOrderly(b.stake_seeds, row) /\ UnstakesOrderly(b.unstake_seeds, other)
    /\ Overwrites(validators, v, b, validators')
    /\ Overwrites(stake_accounts, v, row, stake_accounts')
    /\ Overwrites(unstake_accounts, v, other, unstake_accounts')
    /\ reserve' \in Nat /\ outside' \in Nat /\ supply' \in Nat
    /\ UNCHANGED <<epoch, exchange_rate, reward_distribution>>
    /\ reserve' + outside' + SumLamports(row, Seeds) + SumLamports(other, Seeds)
         = reserve + outside + SumLamports(stake_accounts[v], Seeds)
                             + SumLamports(unstake_accounts[v], Seeds)

TotalsFollow(v, b, row, other) ==
    /\ Staked' = [Staked EXCEPT ![v] = SumLamports(row, SeedsOf(b.stake_seeds))]
    /\ Unstaking' = [Unstaking EXCEPT ![v] = SumLamports(other, SeedsOf(b.unstake_seeds))]
    /\ Tracked(validators') = Tracked(validators) - validators[v].stake_accounts_balance
                                                  + b.stake_accounts_balance

LEMMA OneValidator ==
    ASSUME AccountsInv, NEW v \in Votes, NEW b, NEW row, NEW other, Rewrites(v, b, row, other)
    PROVE  AccountsInv' /\ TotalsFollow(v, b, row, other)
<1>0. /\ b \in Validators /\ row \in Rows /\ other \in Rows
      /\ StakesOrderly(b.stake_seeds, row) /\ UnstakesOrderly(b.unstake_seeds, other)
      /\ Overwrites(validators, v, b, validators')
      /\ Overwrites(stake_accounts, v, row, stake_accounts')
      /\ Overwrites(unstake_accounts, v, other, unstake_accounts')
      /\ reserve' \in Nat /\ outside' \in Nat /\ supply' \in Nat
      /\ UNCHANGED <<epoch, exchange_rate, reward_distribution>>
  BY DEF Rewrites
<1>1. /\ validators \in [Votes -> Validators]
      /\ stake_accounts \in Grids /\ unstake_accounts \in Grids
      /\ reserve \in Nat /\ outside \in Nat
  BY TypesOfGrids DEF AccountsInv, TypeOK
<1>2. TypeOK'
  BY <1>0 DEF AccountsInv, TypeOK, Rows, Overwrites
<1>3. /\ validators' \in [Votes -> Validators]
      /\ stake_accounts' \in Grids /\ unstake_accounts' \in Grids
      /\ validators'[v] = b /\ stake_accounts'[v] = row /\ unstake_accounts'[v] = other
      /\ \A w \in Votes : w # v => /\ validators'[w] = validators[w]
                                   /\ stake_accounts'[w] = stake_accounts[w]
                                   /\ unstake_accounts'[w] = unstake_accounts[w]
  BY <1>0, <1>1 DEF Grids, Overwrites
<1>4. AccountsAreOrderly'
  <2>. SUFFICES ASSUME NEW w \in Votes
                PROVE  /\ StakesOrderly(validators'[w].stake_seeds, stake_accounts'[w])
                       /\ UnstakesOrderly(validators'[w].unstake_seeds, unstake_accounts'[w])
    BY DEF AccountsAreOrderly, StakesOrderly, UnstakesOrderly
  <2>1. CASE w = v
    BY <1>0, <1>3, <2>1
  <2>2. CASE w # v
    BY <1>3, <2>2 DEF AccountsInv, AccountsAreOrderly
  <2>. QED
    BY <2>1, <2>2
<1>5. SolIsConserved'
  <2>. DEFINE x == SumLamports(stake_accounts[v], Seeds)
              y == SumLamports(unstake_accounts[v], Seeds)
              z == SumLamports(row, Seeds)
              q == SumLamports(other, Seeds)
              A == Total(stake_accounts)
              C == Total(unstake_accounts)
              r == reserve'
              o == outside'
  <2>1. Total(stake_accounts') = A - x + z
    BY <1>1, <1>3, TotalWithChange
  <2>2. Total(unstake_accounts') = C - y + q
    BY <1>1, <1>3, TotalWithChange
  <2>3. x \in Nat /\ y \in Nat /\ A \in Nat /\ C \in Nat
    BY <1>1, TotalTerms, TotalNat
  <2>4. z \in Nat /\ q \in Nat /\ r \in Nat /\ o \in Nat
    BY <1>0, LamportsNat
  <2>5. r + o + z + q = reserve + outside + x + y
    BY DEF Rewrites
  <2>6. reserve + outside + A + C = TotalSol
    BY DEF AccountsInv, SolIsConserved
  <2>. HIDE DEF x, y, z, q, A, C, r, o
  <2>7. r + o + (A - x + z) + (C - y + q) = TotalSol
    BY <1>1, <2>3, <2>4, <2>5, <2>6, Ledger
  <2>8. reserve' + outside' + Total(stake_accounts') + Total(unstake_accounts') = TotalSol
    BY <2>1, <2>2, <2>7 DEF r, o
  <2>. QED
    BY <2>8 DEF SolIsConserved, Total, SumLamports, Seeds
<1>6. Staked' = [Staked EXCEPT ![v] = SumLamports(row, SeedsOf(b.stake_seeds))]
  <2>1. Staked' = [w \in Votes |-> SumLamports(stake_accounts'[w],
                                               SeedsOf(validators'[w].stake_seeds))]
    BY DEF Staked, SumLamports, SeedsOf
  <2>. QED
    BY <1>3, <2>1 DEF Staked
<1>7. Unstaking' = [Unstaking EXCEPT ![v] = SumLamports(other, SeedsOf(b.unstake_seeds))]
  <2>1. Unstaking' = [w \in Votes |-> SumLamports(unstake_accounts'[w],
                                                  SeedsOf(validators'[w].unstake_seeds))]
    BY DEF Unstaking, SumLamports, SeedsOf
  <2>. QED
    BY <1>3, <2>1 DEF Unstaking
<1>8. Tracked(validators') = Tracked(validators) - validators[v].stake_accounts_balance
                                                 + b.stake_accounts_balance
  <2>1. Tracked(validators') = Tracked(validators) - validators[v].stake_accounts_balance
                                                   + validators'[v].stake_accounts_balance
    BY <1>1, <1>3, TrackedWithChange
  <2>. QED
    BY <1>3, <2>1
<1>. QED
  BY <1>2, <1>4, <1>5, <1>6, <1>7, <1>8 DEF AccountsInv, TotalsFollow

-----------------------------------------------------------------------------
(* What the invariant says of sums *)

\* Rows, ranges and accounts of one validator.
LEMMA OfValidator ==
    ASSUME AccountsInv, NEW v \in Votes
    PROVE  /\ validators[v] \in Validators
           /\ stake_accounts[v] \in Rows /\ unstake_accounts[v] \in Rows
           /\ StakesOrderly(validators[v].stake_seeds, stake_accounts[v])
           /\ UnstakesOrderly(validators[v].unstake_seeds, unstake_accounts[v])
           /\ validators[v].stake_seeds \in SeedRanges
           /\ validators[v].unstake_seeds \in SeedRanges
           /\ SeedsOf(validators[v].stake_seeds) \in SUBSET Seeds
           /\ SeedsOf(validators[v].unstake_seeds) \in SUBSET Seeds
<1>1. validators[v] \in Validators /\ stake_accounts[v] \in Rows /\ unstake_accounts[v] \in Rows
  BY DEF AccountsInv, TypeOK, Rows
<1>2. /\ validators[v].stake_seeds \in SeedRanges
      /\ validators[v].unstake_seeds \in SeedRanges
  BY <1>1 DEF Validators
<1>3. /\ StakesOrderly(validators[v].stake_seeds, stake_accounts[v])
      /\ UnstakesOrderly(validators[v].unstake_seeds, unstake_accounts[v])
  BY DEF AccountsInv, AccountsAreOrderly
<1>4. /\ SeedsOf(validators[v].stake_seeds) \in SUBSET Seeds
      /\ SeedsOf(validators[v].unstake_seeds) \in SUBSET Seeds
  BY <1>2, <1>3, RangeIsPart DEF StakesOrderly, UnstakesOrderly
<1>. QED
  BY <1>1, <1>2, <1>3, <1>4

\* All lamports at the addresses of a validator, in use or not, are part of the
\* SOL there is.
Fits(v) == /\ Staked[v] \in Nat /\ Unstaking[v] \in Nat
           /\ Staked[v] <= SumLamports(stake_accounts[v], Seeds)
           /\ Unstaking[v] <= SumLamports(unstake_accounts[v], Seeds)
           /\ SumLamports(stake_accounts[v], Seeds) \in Nat
           /\ SumLamports(unstake_accounts[v], Seeds) \in Nat
           /\ SumLamports(stake_accounts[v], Seeds) + SumLamports(unstake_accounts[v], Seeds)
                <= TotalSol
           /\ Staked[v] + Unstaking[v] <= TotalSol

LEMMA HeldFits == AccountsInv => \A v \in Votes : Fits(v)
<1>. SUFFICES ASSUME AccountsInv, NEW v \in Votes
              PROVE  Fits(v)
  OBVIOUS
<1>. DEFINE row == stake_accounts[v]
            other == unstake_accounts[v]
            R == SeedsOf(validators[v].stake_seeds)
            U == SeedsOf(validators[v].unstake_seeds)
<1>1. row \in Rows /\ other \in Rows /\ R \in SUBSET Seeds /\ U \in SUBSET Seeds
  BY OfValidator
<1>2. Staked[v] = SumLamports(row, R) /\ Unstaking[v] = SumLamports(other, U)
  BY DEF Staked, Unstaking
<1>3. /\ stake_accounts \in Grids /\ unstake_accounts \in Grids
      /\ reserve \in Nat /\ outside \in Nat
  BY TypesOfGrids DEF AccountsInv, TypeOK
<1>4. /\ Total(stake_accounts) \in Nat /\ SumLamports(row, Seeds) <= Total(stake_accounts)
      /\ Total(unstake_accounts) \in Nat /\ SumLamports(other, Seeds) <= Total(unstake_accounts)
  BY <1>3, TotalNat
<1>5. reserve + outside + Total(stake_accounts) + Total(unstake_accounts) = TotalSol
  BY DEF AccountsInv, SolIsConserved
<1>. HIDE DEF row, other, R, U
<1>6. SumLamports(row, R) \in Nat /\ SumLamports(other, U) \in Nat
  BY <1>1, LamportsNat
<1>7. SumLamports(row, Seeds) \in Nat /\ SumLamports(other, Seeds) \in Nat
  BY <1>1, LamportsNat
<1>8. SumLamports(row, R) <= SumLamports(row, Seeds) /\ SumLamports(other, U) <= SumLamports(other, Seeds)
  <2>1. R \subseteq Seeds /\ U \subseteq Seeds /\ Seeds \in SUBSET Seeds
    BY <1>1
  <2>. QED
    BY <1>1, <2>1, LamportsSplit
<1>. DEFINE a == SumLamports(row, R)
            b == SumLamports(other, U)
            c == SumLamports(row, Seeds)
            d == SumLamports(other, Seeds)
            x == Total(stake_accounts)
            y == Total(unstake_accounts)
<1>9. a + b <= TotalSol /\ c + d <= TotalSol
  <2>1. /\ a \in Nat /\ b \in Nat /\ c \in Nat /\ d \in Nat /\ x \in Nat /\ y \in Nat
        /\ a <= c /\ b <= d /\ c <= x /\ d <= y
        /\ reserve + outside + x + y = TotalSol
    BY <1>4, <1>5, <1>6, <1>7, <1>8
  <2>. HIDE DEF a, b, c, d, x, y
  <2>. QED
    BY <1>3, <2>1
<1>. QED
  BY <1>2, <1>6, <1>7, <1>8, <1>9 DEF Fits, row, other

LEMMA HeldFitsNext == AccountsInv' => (\A v \in Votes : Fits(v))'
BY HeldFits, PTL

\* The constants that the abstract specifications are used with.
LEMMA BookConstants ==
    /\ (0..TotalSol) \subseteq Nat
    /\ MAXIMUM_UNSTAKE_ACCOUNTS \in Nat \ {0}
    /\ TotalSol \in Nat
    /\ MaxSeed \in Nat
BY SolidoAssumption

LEMMA PoolConstants ==
    /\ (0..TotalSol) \subseteq Nat
    /\ Distributions \subseteq [treasury : Nat, developer : Nat, appreciation : Nat]
    /\ TotalSol \in Nat
    /\ MaxEpoch \in Nat
BY SolidoAssumption

\* The bounds of StakeBook are those of this specification.
LEMMA BooksWithinBounds == AccountsInv' => B!WithinBounds
<1>. SUFFICES ASSUME AccountsInv', NEW v \in Votes
              PROVE  /\ Staked'[v] + Unstaking'[v] <= TotalSol
                     /\ validators'[v].stake_seeds.end <= MaxSeed
                     /\ validators'[v].unstake_seeds.end <= MaxSeed
  BY DEF B!WithinBounds
<1>1. Staked'[v] + Unstaking'[v] <= TotalSol
  BY HeldFitsNext DEF Fits
<1>2. validators'[v].stake_seeds.end <= MaxSeed /\ validators'[v].unstake_seeds.end <= MaxSeed
  BY DEF AccountsInv, AccountsAreOrderly, StakesOrderly, UnstakesOrderly
<1>. QED
  BY <1>1, <1>2

BookStep == B!Step \/ UNCHANGED <<validators, Staked, Unstaking>>

LEMMA BooksFollow ==
    ASSUME B!BooksInv, BookStep, AccountsInv'
    PROVE  [B!Next]_(B!vars) /\ B!BooksInv'
<1>1. [B!Next]_(B!vars)
  BY BooksWithinBounds DEF B!Next, B!vars, BookStep
<1>2. B!BooksInv /\ [B!Next]_(B!vars) => B!BooksInv'
  BY BookConstants, B!NextInv
<1>. QED
  BY <1>1, <1>2

\* What BooksInv says of an entry.
LEMMA BookOf ==
    ASSUME B!BooksInv, NEW v \in Votes
    PROVE  LET val == validators[v]
           IN  /\ val \in Validators
               /\ Staked[v] \in Nat /\ Unstaking[v] \in Nat
               /\ val.stake_seeds.begin <= val.stake_seeds.end
               /\ val.unstake_seeds.begin <= val.unstake_seeds.end
               /\ val.unstake_seeds.end - val.unstake_seeds.begin <= MAXIMUM_UNSTAKE_ACCOUNTS
               /\ val.stake_accounts_balance
                    = val.effective_stake_balance + val.unstake_accounts_balance
               /\ val.stake_seeds.begin = val.stake_seeds.end => Staked[v] = 0
               /\ val.unstake_seeds.begin = val.unstake_seeds.end => Unstaking[v] = 0
               /\ val.status = "NotListed" => /\ val.stake_seeds.begin = val.stake_seeds.end
                                              /\ val.unstake_seeds.begin = val.unstake_seeds.end
               /\ val.effective_stake_balance <= Staked[v]
               /\ val.unstake_accounts_balance <= Unstaking[v]
               /\ val.stake_accounts_balance <= Staked[v] + Unstaking[v]
<1>. DEFINE val == validators[v]
<1>1. /\ val \in B!Books /\ Staked[v] \in Nat /\ Unstaking[v] \in Nat
  BY DEF B!BooksInv, B!TypeOK
<1>2. val \in Validators
  BY <1>1 DEF B!Books, B!Ranges, B!Statuses, Validators, SeedRanges, ValidatorStatus
<1>3. /\ val.stake_seeds.begin \in Nat /\ val.stake_seeds.end \in Nat
      /\ val.unstake_seeds.begin \in Nat /\ val.unstake_seeds.end \in Nat
      /\ val.stake_accounts_balance \in Nat /\ val.unstake_accounts_balance \in Nat
      /\ val.effective_stake_balance \in Nat
  BY <1>2 DEF Validators, SeedRanges
<1>4. /\ val.stake_seeds.begin <= val.stake_seeds.end
      /\ val.unstake_seeds.begin <= val.unstake_seeds.end
      /\ val.unstake_seeds.end - val.unstake_seeds.begin <= MAXIMUM_UNSTAKE_ACCOUNTS
  BY DEF B!BooksInv, B!RangesAreOrdered, B!Width
<1>5. val.stake_accounts_balance = val.effective_stake_balance + val.unstake_accounts_balance
  BY DEF B!BooksInv, B!EffectiveIsDifference
<1>6. /\ val.stake_seeds.end - val.stake_seeds.begin = 0 => Staked[v] = 0
      /\ val.unstake_seeds.end - val.unstake_seeds.begin = 0 => Unstaking[v] = 0
      /\ val.status = "NotListed" => /\ val.stake_seeds.end - val.stake_seeds.begin = 0
                                     /\ val.unstake_seeds.end - val.unstake_seeds.begin = 0
  BY DEF B!BooksInv, B!EmptyRangesHoldNothing, B!Width, B!IsListed
<1>7. Staked[v] >= val.effective_stake_balance /\ Unstaking[v] >= val.unstake_accounts_balance
  BY DEF B!BooksInv, B!BooksAreBacked, B!ObserveBalance
<1>. HIDE DEF val
<1>8. /\ val.stake_seeds.begin = val.stake_seeds.end => Staked[v] = 0
      /\ val.unstake_seeds.begin = val.unstake_seeds.end => Unstaking[v] = 0
      /\ val.status = "NotListed" => /\ val.stake_seeds.begin = val.stake_seeds.end
                                     /\ val.unstake_seeds.begin = val.unstake_seeds.end
  BY <1>3, <1>6
<1>9. val.stake_accounts_balance <= Staked[v] + Unstaking[v]
  BY <1>1, <1>3, <1>5, <1>7
<1>10. val.effective_stake_balance <= Staked[v] /\ val.unstake_accounts_balance <= Unstaking[v]
  BY <1>1, <1>3, <1>7
<1>. QED
  BY <1>1, <1>2, <1>4, <1>5, <1>8, <1>9, <1>10 DEF val

\* The managed SOL by its parts, and its bound.
ManagedIsSum == /\ get_sol_balance = reserve + Tracked(validators)
                /\ get_sol_balance \in 0..TotalSol
                /\ get_sol_balance + outside <= TotalSol

LEMMA ManagedFits == AccountsInv /\ B!BooksInv => ManagedIsSum
<1>. SUFFICES ASSUME AccountsInv, B!BooksInv
              PROVE  ManagedIsSum
  OBVIOUS
<1>1. validators \in [Votes -> Validators] /\ reserve \in Nat /\ outside \in Nat
  BY DEF AccountsInv, TypeOK
<1>2. \A v \in Votes : validators[v].status = "NotListed" => validators[v].stake_accounts_balance = 0
  <2>. SUFFICES ASSUME NEW v \in Votes, validators[v].status = "NotListed"
                PROVE  validators[v].stake_accounts_balance = 0
    OBVIOUS
  <2>1. Staked[v] = 0 /\ Unstaking[v] = 0 /\ validators[v].stake_accounts_balance <= Staked[v] + Unstaking[v]
        /\ validators[v] \in Validators
    BY BookOf
  <2>2. validators[v].stake_accounts_balance \in Nat
    BY <2>1 DEF Validators
  <2>. QED
    BY <2>1, <2>2
<1>3. SumFunctionOnSet([v \in Listed |-> validators[v].stake_accounts_balance], Listed)
        = Tracked(validators)
  BY <1>1, <1>2, ListedSum DEF Listed
<1>4. get_sol_balance = reserve + Tracked(validators)
  BY <1>3, Zenon DEF get_sol_balance
<1>5. /\ stake_accounts \in Grids /\ unstake_accounts \in Grids
  BY TypesOfGrids DEF AccountsInv
<1>6. \A v \in Votes : validators[v].stake_accounts_balance
                         <= SumLamports(stake_accounts[v], Seeds) + SumLamports(unstake_accounts[v], Seeds)
  <2>. SUFFICES ASSUME NEW v \in Votes
                PROVE  validators[v].stake_accounts_balance
                         <= SumLamports(stake_accounts[v], Seeds) + SumLamports(unstake_accounts[v], Seeds)
    OBVIOUS
  <2>. DEFINE c == SumLamports(stake_accounts[v], Seeds)
              d == SumLamports(unstake_accounts[v], Seeds)
              b == validators[v].stake_accounts_balance
  <2>1. Staked[v] \in Nat /\ Unstaking[v] \in Nat /\ Staked[v] <= c /\ Unstaking[v] <= d
        /\ c \in Nat /\ d \in Nat
    BY HeldFits DEF Fits
  <2>2. b <= Staked[v] + Unstaking[v] /\ b \in Nat
    BY BookOf DEF Validators
  <2>. HIDE DEF b, c, d
  <2>3. b <= c + d
    BY <2>1, <2>2
  <2>. QED
    BY <2>3 DEF b, c, d
<1>7. Tracked(validators) <= Total(stake_accounts) + Total(unstake_accounts)
  BY <1>1, <1>5, <1>6, TrackedIsHeld
<1>8. Total(stake_accounts) \in Nat /\ Total(unstake_accounts) \in Nat /\ Tracked(validators) \in Nat
  BY <1>1, <1>5, TotalNat, TrackedNat
<1>9. reserve + outside + Total(stake_accounts) + Total(unstake_accounts) = TotalSol
  BY DEF AccountsInv, SolIsConserved
<1>10. reserve + Tracked(validators) \in 0..TotalSol /\ reserve + Tracked(validators) + outside <= TotalSol
  BY <1>1, <1>7, <1>8, <1>9, SolidoAssumption
<1>. QED
  BY <1>4, <1>10 DEF ManagedIsSum

LEMMA ManagedFitsNext == (AccountsInv /\ B!BooksInv)' => ManagedIsSum'
BY ManagedFits, PTL

-----------------------------------------------------------------------------
(* The entries of validators *)

LEMMA FieldTypes ==
    ASSUME NEW val \in Validators
    PROVE  /\ val.status \in ValidatorStatus \cup {"NotListed"}
           /\ val.stake_seeds \in SeedRanges /\ val.unstake_seeds \in SeedRanges
           /\ val.stake_seeds.begin \in Nat /\ val.stake_seeds.end \in Nat
           /\ val.unstake_seeds.begin \in Nat /\ val.unstake_seeds.end \in Nat
           /\ val.stake_accounts_balance \in Nat
           /\ val.unstake_accounts_balance \in Nat
           /\ val.effective_stake_balance \in Nat
BY DEF Validators, SeedRanges

\* An entry by its fields.
LEMMA EntryFields ==
    ASSUME NEW status \in ValidatorStatus \cup {"NotListed"},
           NEW st \in SeedRanges, NEW un \in SeedRanges,
           NEW total \in Nat, NEW unstake \in Nat, unstake <= total,
           NEW b, b = B!Entry(status, st, un, total, unstake)
    PROVE  /\ b \in Validators
           /\ b.status = status
           /\ b.stake_seeds = st
           /\ b.unstake_seeds = un
           /\ b.stake_accounts_balance = total
           /\ b.unstake_accounts_balance = unstake
           /\ b.effective_stake_balance = total - unstake
BY DEF B!Entry, Validators

IsEntry(b, status, st, un, total, unstake) == b = B!Entry(status, st, un, total, unstake)

LEMMA FieldsOfEntry ==
    ASSUME NEW b, NEW status, NEW st, NEW un, NEW total, NEW unstake,
           IsEntry(b, status, st, un, total, unstake),
           status \in ValidatorStatus \cup {"NotListed"}, st \in SeedRanges, un \in SeedRanges,
           total \in Nat, unstake \in Nat, unstake <= total
    PROVE  /\ b \in Validators
           /\ b.status = status
           /\ b.stake_seeds = st
           /\ b.unstake_seeds = un
           /\ b.stake_accounts_balance = total
           /\ b.unstake_accounts_balance = unstake
           /\ b.effective_stake_balance = total - unstake
BY DEF IsEntry, B!Entry, Validators

\* What the handlers write is such an entry.
LEMMA EntryOfBalances ==
    ASSUME NEW new \in Validators, NEW total \in Nat, NEW unstake \in Nat, unstake <= total,
           new.stake_accounts_balance = total, new.unstake_accounts_balance = unstake
    PROVE  WithEffective(new)
             = B!Entry(new.status, new.stake_seeds, new.unstake_seeds, total, unstake)
<1>. DEFINE b == WithEffective(new)
            e == B!Entry(new.status, new.stake_seeds, new.unstake_seeds, total, unstake)
<1>1. total - unstake \in Nat
  OBVIOUS
<1>2. /\ b \in Validators
      /\ b.status = new.status /\ b.stake_seeds = new.stake_seeds
      /\ b.unstake_seeds = new.unstake_seeds
      /\ b.stake_accounts_balance = total /\ b.unstake_accounts_balance = unstake
      /\ b.effective_stake_balance = total - unstake
  BY <1>1 DEF WithEffective, Validators
<1>3. /\ e \in Validators
      /\ e.status = new.status /\ e.stake_seeds = new.stake_seeds
      /\ e.unstake_seeds = new.unstake_seeds
      /\ e.stake_accounts_balance = total /\ e.unstake_accounts_balance = unstake
      /\ e.effective_stake_balance = total - unstake
  <2>1. /\ new.status \in ValidatorStatus \cup {"NotListed"}
        /\ new.stake_seeds \in SeedRanges /\ new.unstake_seeds \in SeedRanges
    BY FieldTypes
  <2>. QED
    BY <1>1, <2>1 DEF B!Entry, Validators
<1>. HIDE DEF b, e
<1>4. b = e
  BY <1>2, <1>3 DEF Validators
<1>. QED
  BY <1>4 DEF b, e

\* The price of stSOL is computed by the same operators here and in Pool.
LEMMA SameExchange ==
    /\ \A r, a : P!exchange_sol(r, a) = exchange_sol(r, a)
    /\ \A r, a : P!exchange_st_sol(r, a) = exchange_st_sol(r, a)
    /\ \A r : P!CanExchangeStSol(r) <=> CanExchangeStSol(r)
    /\ \A d : P!DistributionSum(d) = DistributionSum(d)
BY DEF P!exchange_sol, exchange_sol, P!exchange_st_sol, exchange_st_sol, P!MulRational, MulRational,
       P!IsOneToOne, IsOneToOne, P!CanExchangeStSol, CanExchangeStSol, P!DistributionSum, DistributionSum

LEMMA SameFees ==
    \A r, d, x : P!FeesMinted(r, d, x) = FeesMinted(r, d, x)
BY SameExchange DEF P!FeesMinted, FeesMinted, P!split_reward, split_reward, P!MulRational, MulRational

\* Writing an account of a validator, and writing nothing.
LEMMA WriteRow ==
    ASSUME NEW grid \in Grids, NEW v \in Votes, NEW s \in Seeds, NEW a, NEW row,
           Overwrites(grid[v], s, a, row), NEW new, new = [grid EXCEPT ![v][s] = a]
    PROVE  Overwrites(grid, v, row, new)
BY DEF Grids, Rows, Overwrites

LEMMA WriteNothing ==
    ASSUME AccountsInv, NEW v \in Votes
    PROVE  /\ UNCHANGED validators => Overwrites(validators, v, validators[v], validators')
           /\ UNCHANGED stake_accounts
                => Overwrites(stake_accounts, v, stake_accounts[v], stake_accounts')
           /\ UNCHANGED unstake_accounts
                => Overwrites(unstake_accounts, v, unstake_accounts[v], unstake_accounts')
BY DEF AccountsInv, TypeOK, Overwrites

\* What the totals of a validator are sums of, and totals that stay.
LEMMA TotalsOf ==
    ASSUME NEW v \in Votes
    PROVE  /\ Staked[v] = SumLamports(stake_accounts[v], SeedsOf(validators[v].stake_seeds))
           /\ Unstaking[v] = SumLamports(unstake_accounts[v], SeedsOf(validators[v].unstake_seeds))
           /\ [Staked EXCEPT ![v] = Staked[v]] = Staked
           /\ [Unstaking EXCEPT ![v] = Unstaking[v]] = Unstaking
BY DEF Staked, Unstaking

-----------------------------------------------------------------------------
(* The instructions of users *)

LEMMA WithdrawKeeps ==
    ASSUME SolidoInv, NEW v \in Votes, NEW amount \in StSolAmounts, Withdraw(v, amount)
    PROVE  /\ AccountsInv'
           /\ BookStep
           /\ exchange_st_sol(exchange_rate, amount) \in Nat
           /\ Tracked(validators') = Tracked(validators) - exchange_st_sol(exchange_rate, amount)
<1>. DEFINE val == validators[v]
            seed == val.stake_seeds.begin
            old == stake_accounts[v]
            source == old[seed]
            sol == exchange_st_sol(exchange_rate, amount)
            a == SplitSource(source, sol)
            row == [old EXCEPT ![seed] = a]
            other == unstake_accounts[v]
            b == WithEffective([val EXCEPT !.stake_accounts_balance = @ - sol])
<1>1. /\ AccountsInv /\ B!BooksInv /\ P!TypeOK
  BY DEF SolidoInv
<1>2. amount \in Nat /\ exchange_rate \in P!Rates /\ supply \in Nat /\ amount <= supply
  BY <1>1, SolidoAssumption DEF P!TypeOK, Withdraw
<1>3. sol \in Nat
  <2>1. P!CanExchangeStSol(exchange_rate)
    BY SameExchange DEF Withdraw
  <2>2. P!exchange_st_sol(exchange_rate, amount) \in Nat
    BY <1>2, <2>1, PoolConstants, P!ExchangeStSolFair
  <2>. QED
    BY <2>2, SameExchange
<1>. HIDE DEF sol
<1>4. /\ val \in Validators /\ old \in Rows /\ other \in Rows
      /\ StakesOrderly(val.stake_seeds, old) /\ UnstakesOrderly(val.unstake_seeds, other)
      /\ SeedsOf(val.stake_seeds) \in SUBSET Seeds
  BY <1>1, OfValidator
<1>5. /\ val.effective_stake_balance # 0
      /\ source.lamports - sol >= MINIMUM_STAKE_ACCOUNT_BALANCE
      /\ sol <= val.stake_accounts_balance
      /\ val.unstake_accounts_balance <= val.stake_accounts_balance - sol
      /\ CanSplit(source, EmptyAccount, sol)
      /\ Overwrites(validators, v, b, validators')
      /\ supply' = supply - amount
      /\ stake_accounts' = [stake_accounts EXCEPT ![v][seed] = a]
      /\ outside' = outside + sol
      /\ UNCHANGED <<epoch, reserve, exchange_rate, reward_distribution, unstake_accounts>>
  BY DEF Withdraw, Overwrites, CanComputeEffective, sol
<1>6. /\ val.stake_seeds.begin \in Nat /\ val.stake_seeds.end \in Nat
      /\ val.stake_seeds.begin < val.stake_seeds.end
  <2>1. /\ val.stake_seeds.begin = val.stake_seeds.end => Staked[v] = 0
        /\ val.effective_stake_balance <= Staked[v]
        /\ val.stake_seeds.begin <= val.stake_seeds.end
    BY <1>1, BookOf
  <2>2. /\ val.stake_seeds.begin \in Nat /\ val.stake_seeds.end \in Nat
        /\ val.effective_stake_balance \in Nat
    BY <1>4, FieldTypes
  <2>. HIDE DEF val
  <2>. QED
    BY <1>5, <2>1, <2>2
<1>7. /\ seed \in Seeds /\ seed \in SeedsOf(val.stake_seeds) /\ source \in StakeAccounts
      /\ source.phase \in {"activating", "active"} /\ source.stake + Rent <= source.lamports
  <2>1. seed \in SeedsOf(val.stake_seeds)
    BY <1>6 DEF SeedsOf
  <2>2. seed \in Seeds
    BY <1>4, <2>1
  <2>. QED
    BY <1>4, <2>1, <2>2 DEF StakesOrderly, Rows
<1>8. /\ a \in StakeAccounts /\ a.lamports = source.lamports - sol
      /\ a.phase = source.phase /\ a.stake + Rent <= a.lamports
      /\ sol <= source.lamports /\ source.lamports \in Nat
  <2>. HIDE DEF source
  <2>1. source.lamports \in Nat /\ source.stake \in Nat /\ source.phase \in Phases
    BY <1>7 DEF StakeAccounts
  <2>2. ~IsFullSplit(source, sol)
    BY <1>3, <1>5, <2>1, SolidoAssumption, RentAssumption DEF IsFullSplit
  <2>3. sol <= source.lamports /\ sol <= source.stake
    BY <1>5, <2>2 DEF CanSplit
  <2>4. a = [source EXCEPT !.lamports = @ - sol, !.stake = @ - sol]
    BY <2>2 DEF SplitSource
  <2>5. source.lamports - sol \in Nat /\ source.stake - sol \in Nat
    BY <1>3, <2>1, <2>3
  <2>6. a \in StakeAccounts /\ a.lamports = source.lamports - sol
        /\ a.stake = source.stake - sol /\ a.phase = source.phase
    BY <1>7, <2>4, <2>5 DEF StakeAccounts
  <2>. QED
    BY <1>3, <1>7, <2>1, <2>3, <2>6, RentAssumption
<1>9. /\ row \in Rows /\ row[seed] = a
      /\ \A t \in Seeds : t # seed => row[t] = old[t]
      /\ \A R \in SUBSET Seeds :
            SumLamports(row, R) = IF seed \in R
                                  THEN SumLamports(old, R) - old[seed].lamports + a.lamports
                                  ELSE SumLamports(old, R)
  <2>1. Overwrites(old, seed, a, row) /\ old \in Rows /\ seed \in Seeds /\ a \in StakeAccounts
    BY <1>4, <1>7, <1>8 DEF Overwrites
  <2>. HIDE DEF a, seed, old, row
  <2>. QED
    BY <2>1, RowWithAccount
<1>10. /\ b = B!Entry(val.status, val.stake_seeds, val.unstake_seeds,
                      val.stake_accounts_balance - sol, val.unstake_accounts_balance)
       /\ val.stake_accounts_balance - sol \in Nat
  <2>. DEFINE new == [val EXCEPT !.stake_accounts_balance = @ - sol]
  <2>. HIDE DEF val
  <2>1. val.stake_accounts_balance - sol \in Nat
    BY <1>3, <1>4, <1>5, FieldTypes
  <2>2. /\ new \in Validators /\ new.status = val.status
        /\ new.stake_seeds = val.stake_seeds /\ new.unstake_seeds = val.unstake_seeds
        /\ new.stake_accounts_balance = val.stake_accounts_balance - sol
        /\ new.unstake_accounts_balance = val.unstake_accounts_balance
        /\ val.unstake_accounts_balance \in Nat
    BY <1>4, <2>1 DEF Validators
  <2>. HIDE DEF new
  <2>3. WithEffective(new) = B!Entry(val.status, val.stake_seeds, val.unstake_seeds,
                                     val.stake_accounts_balance - sol, val.unstake_accounts_balance)
    BY <1>5, <2>1, <2>2, EntryOfBalances
  <2>. QED
    BY <2>1, <2>3 DEF new
<1>11. /\ b \in Validators
       /\ b.stake_seeds = val.stake_seeds /\ b.unstake_seeds = val.unstake_seeds
       /\ b.stake_accounts_balance = val.stake_accounts_balance - sol
  <2>. HIDE DEF val, b
  <2>. QED
    BY <1>4, <1>5, <1>10, FieldTypes, EntryFields
<1>. HIDE DEF val, old, other, b, a, row, seed
<1>12. StakesOrderly(b.stake_seeds, row) /\ UnstakesOrderly(b.unstake_seeds, other)
  BY <1>4, <1>6, <1>7, <1>8, <1>9, <1>11 DEF StakesOrderly, SeedsOf, Seeds, seed
<1>13. /\ Overwrites(stake_accounts, v, row, stake_accounts')
       /\ Overwrites(unstake_accounts, v, other, unstake_accounts')
  <2>1. stake_accounts \in Grids /\ Overwrites(stake_accounts[v], seed, a, row)
    BY <1>1, TypesOfGrids DEF AccountsInv, Overwrites, row, old
  <2>. QED
    BY <1>1, <1>5, <1>7, <2>1, WriteRow, WriteNothing DEF other
<1>14. /\ SumLamports(row, Seeds) = SumLamports(old, Seeds) - sol
       /\ SumLamports(row, SeedsOf(val.stake_seeds)) = SumLamports(old, SeedsOf(val.stake_seeds)) - sol
       /\ SumLamports(old, Seeds) \in Nat /\ SumLamports(old, SeedsOf(val.stake_seeds)) \in Nat
  BY <1>3, <1>4, <1>7, <1>8, <1>9, LamportsNat
<1>15. /\ supply' \in Nat /\ outside' \in Nat /\ reserve' \in Nat
       /\ reserve' + outside' + SumLamports(row, Seeds) + SumLamports(other, Seeds)
             = reserve + outside + SumLamports(old, Seeds) + SumLamports(other, Seeds)
  <2>1. reserve \in Nat /\ outside \in Nat /\ SumLamports(other, Seeds) \in Nat
    BY <1>1, <1>4, LamportsNat DEF AccountsInv, TypeOK
  <2>2. supply' \in Nat /\ outside' \in Nat /\ reserve' \in Nat
    BY <1>2, <1>3, <1>5, <2>1
  <2>. QED
    BY <1>3, <1>5, <1>14, <2>1, <2>2
<1>16. Rewrites(v, b, row, other)
  BY <1>4, <1>5, <1>9, <1>11, <1>12, <1>13, <1>15 DEF Rewrites, old, other
<1>17. AccountsInv' /\ TotalsFollow(v, b, row, other)
  BY <1>1, <1>16, OneValidator
<1>18. /\ Staked[v] = SumLamports(old, SeedsOf(val.stake_seeds))
       /\ Unstaking[v] = SumLamports(other, SeedsOf(val.unstake_seeds))
       /\ [Unstaking EXCEPT ![v] = Unstaking[v]] = Unstaking
  BY TotalsOf DEF old, other, val
<1>19. Staked' = [Staked EXCEPT ![v] = Staked[v] - sol] /\ UNCHANGED Unstaking
  BY <1>11, <1>14, <1>17, <1>18 DEF TotalsFollow
<1>20. /\ sol \in 0..TotalSol /\ sol <= Staked[v]
  <2>1. Staked[v] \in Nat /\ Unstaking[v] \in Nat /\ Staked[v] + Unstaking[v] <= TotalSol
    BY <1>1, HeldFits DEF Fits
  <2>2. old[seed].lamports <= Staked[v] /\ sol <= old[seed].lamports /\ old[seed].lamports \in Nat
    BY <1>4, <1>7, <1>8, <1>18, LamportsNat
  <2>. QED
    BY <1>3, <2>1, <2>2, SolidoAssumption
<1>21. B!Withdraw(v, sol)
  <2>1. val.stake_seeds.end - val.stake_seeds.begin > 0
    BY <1>6
  <2>2. val.unstake_accounts_balance + sol <= val.stake_accounts_balance
    BY <1>3, <1>4, <1>5, FieldTypes
  <2>. QED
    BY <1>5, <1>10, <1>19, <1>20, <2>1, <2>2 DEF B!Withdraw, B!Width, Overwrites, val
<1>22. BookStep
  BY <1>20, <1>21 DEF BookStep, B!Step
<1>23. Tracked(validators') = Tracked(validators) - sol
  <2>1. Tracked(validators) \in Nat /\ val.stake_accounts_balance \in Nat
    BY <1>1, <1>4, FieldTypes, TrackedNat DEF AccountsInv, TypeOK
  <2>2. Tracked(validators') = Tracked(validators) - val.stake_accounts_balance
                                                   + (val.stake_accounts_balance - sol)
    BY <1>11, <1>17 DEF TotalsFollow, val
  <2>. QED
    BY <1>3, <2>1, <2>2
<1>. QED
  BY <1>3, <1>17, <1>22, <1>23 DEF sol

-----------------------------------------------------------------------------
(* Steps that touch neither an entry nor an account *)

LEMMA AccountsStay ==
    ASSUME AccountsInv, UNCHANGED <<validators, stake_accounts, unstake_accounts>>,
           reserve' \in Nat, outside' \in Nat, supply' \in Nat, epoch' \in Nat,
           exchange_rate' \in P!Rates, reward_distribution' \in Distributions,
           reserve' + outside' = reserve + outside
    PROVE  AccountsInv' /\ BookStep
<1>1. TypeOK'
  BY DEF AccountsInv, TypeOK, P!Rates
<1>2. AccountsAreOrderly'
  BY DEF AccountsInv, AccountsAreOrderly, StakesOrderly, UnstakesOrderly, SeedsOf, Seeds
<1>3. SolIsConserved'
  <2>. DEFINE A == Total(stake_accounts)
              C == Total(unstake_accounts)
              r == reserve'
              o == outside'
  <2>1. Total(stake_accounts') = A /\ Total(unstake_accounts') = C
    OBVIOUS
  <2>2. A \in Nat /\ C \in Nat
    BY TypesOfGrids, TotalNat DEF AccountsInv
  <2>3. /\ reserve + outside + A + C = TotalSol /\ r + o = reserve + outside
        /\ r \in Nat /\ o \in Nat /\ reserve \in Nat /\ outside \in Nat
    BY DEF AccountsInv, SolIsConserved, TypeOK
  <2>. HIDE DEF A, C, r, o
  <2>4. r + o + A + C = TotalSol
    BY <2>2, <2>3
  <2>5. reserve' + outside' + Total(stake_accounts') + Total(unstake_accounts') = TotalSol
    BY <2>1, <2>4 DEF r, o
  <2>. QED
    BY <2>5 DEF SolIsConserved, Total, SumLamports, Seeds
<1>4. UNCHANGED <<validators, Staked, Unstaking>>
  BY DEF Staked, Unstaking, SumLamports, SeedsOf
<1>. QED
  BY <1>1, <1>2, <1>3, <1>4 DEF AccountsInv, BookStep

\* What the recorded rate gives for SOL.
LEMMA ExchangedIsNat ==
    ASSUME AccountsInv, NEW amount \in Nat
    PROVE  exchange_sol(exchange_rate, amount) \in Nat
<1>1. exchange_rate \in P!Rates
  BY DEF AccountsInv, TypeOK, P!Rates
<1>2. P!exchange_sol(exchange_rate, amount) \in Nat
  BY <1>1, PoolConstants, P!ExchangeSolFair
<1>. QED
  BY <1>2, SameExchange

LEMMA DepositKeeps ==
    ASSUME SolidoInv, NEW amount \in DepositAmounts, Deposit(amount)
    PROVE  /\ AccountsInv' /\ BookStep /\ amount \in Nat
           /\ reserve' + Tracked(validators') = reserve + Tracked(validators) + amount
<1>1. AccountsInv /\ amount \in Nat
  BY SolidoAssumption DEF SolidoInv
<1>2. exchange_sol(exchange_rate, amount) \in Nat
  BY <1>1, ExchangedIsNat
<1>3. /\ reserve \in Nat /\ outside \in Nat /\ supply \in Nat
      /\ epoch \in Nat /\ exchange_rate \in P!Rates /\ reward_distribution \in Distributions
  BY <1>1 DEF AccountsInv, TypeOK, P!Rates
<1>4. AccountsInv' /\ BookStep
  BY <1>1, <1>2, <1>3, AccountsStay DEF Deposit
<1>5. Tracked(validators) \in Nat
  BY <1>1, TrackedNat DEF AccountsInv, TypeOK
<1>6. UNCHANGED validators /\ reserve' = reserve + amount
  BY DEF Deposit
<1>. QED
  BY <1>1, <1>3, <1>4, <1>5, <1>6

LEMMA HolderBurnsKeeps ==
    ASSUME SolidoInv, NEW amount \in StSolAmounts, HolderBurns(amount)
    PROVE  /\ AccountsInv' /\ BookStep /\ UNCHANGED <<reserve, validators>>
<1>1. AccountsInv /\ amount \in Nat
  BY SolidoAssumption DEF SolidoInv
<1>2. /\ reserve \in Nat /\ outside \in Nat /\ supply \in Nat
      /\ epoch \in Nat /\ exchange_rate \in P!Rates /\ reward_distribution \in Distributions
  BY <1>1 DEF AccountsInv, TypeOK, P!Rates
<1>. QED
  BY <1>1, <1>2, AccountsStay DEF HolderBurns

LEMMA DonateToReserveKeeps ==
    ASSUME SolidoInv, NEW amount \in DonationAmounts, DonateToReserve(amount)
    PROVE  /\ AccountsInv' /\ BookStep /\ amount \in Nat
           /\ reserve' + Tracked(validators') = reserve + Tracked(validators) + amount
<1>1. AccountsInv /\ amount \in Nat
  BY SolidoAssumption DEF SolidoInv
<1>2. /\ reserve \in Nat /\ outside \in Nat /\ supply \in Nat
      /\ epoch \in Nat /\ exchange_rate \in P!Rates /\ reward_distribution \in Distributions
  BY <1>1 DEF AccountsInv, TypeOK, P!Rates
<1>3. AccountsInv' /\ BookStep
  BY <1>1, <1>2, AccountsStay DEF DonateToReserve
<1>4. Tracked(validators) \in Nat
  BY <1>1, TrackedNat DEF AccountsInv, TypeOK
<1>5. UNCHANGED validators /\ reserve' = reserve + amount
  BY DEF DonateToReserve
<1>. QED
  BY <1>1, <1>2, <1>3, <1>4, <1>5

LEMMA ChangeRewardDistributionKeeps ==
    ASSUME SolidoInv, NEW dist \in Distributions, ChangeRewardDistribution(dist)
    PROVE  AccountsInv' /\ BookStep /\ UNCHANGED <<reserve, validators>>
<1>1. AccountsInv
  BY DEF SolidoInv
<1>2. /\ reserve \in Nat /\ outside \in Nat /\ supply \in Nat
      /\ epoch \in Nat /\ exchange_rate \in P!Rates
  BY <1>1 DEF AccountsInv, TypeOK, P!Rates
<1>. QED
  BY <1>1, <1>2, AccountsStay DEF ChangeRewardDistribution

LEMMA UpdateExchangeRateKeeps ==
    ASSUME SolidoInv, UpdateExchangeRate
    PROVE  AccountsInv' /\ BookStep /\ UNCHANGED <<reserve, validators>>
<1>1. AccountsInv /\ B!BooksInv
  BY DEF SolidoInv
<1>2. /\ reserve \in Nat /\ outside \in Nat /\ supply \in Nat /\ epoch \in Nat
      /\ reward_distribution \in Distributions
  BY <1>1 DEF AccountsInv, TypeOK
<1>3. get_sol_balance \in Nat
  BY <1>1, ManagedFits, SolidoAssumption DEF ManagedIsSum
<1>4. exchange_rate' \in P!Rates
  BY <1>2, <1>3 DEF UpdateExchangeRate, P!Rates
<1>. QED
  BY <1>1, <1>2, <1>4, AccountsStay DEF UpdateExchangeRate

-----------------------------------------------------------------------------
(* Steps that touch an entry and no account *)

LEMMA EntryChanges ==
    ASSUME AccountsInv, NEW v \in Votes, NEW b \in Validators,
           StakesOrderly(b.stake_seeds, stake_accounts[v]),
           UnstakesOrderly(b.unstake_seeds, unstake_accounts[v]),
           Overwrites(validators, v, b, validators'),
           UNCHANGED <<epoch, reserve, supply, exchange_rate, reward_distribution,
                       stake_accounts, unstake_accounts, outside>>
    PROVE  AccountsInv' /\ TotalsFollow(v, b, stake_accounts[v], unstake_accounts[v])
<1>. DEFINE row == stake_accounts[v]
            other == unstake_accounts[v]
<1>1. row \in Rows /\ other \in Rows
  BY OfValidator
<1>2. /\ Overwrites(stake_accounts, v, row, stake_accounts')
      /\ Overwrites(unstake_accounts, v, other, unstake_accounts')
  BY WriteNothing
<1>3. reserve' \in Nat /\ outside' \in Nat /\ supply' \in Nat
  BY DEF AccountsInv, TypeOK
<1>4. Rewrites(v, b, row, other)
  BY <1>1, <1>2, <1>3 DEF Rewrites
<1>. HIDE DEF row, other
<1>5. AccountsInv' /\ TotalsFollow(v, b, row, other)
  BY <1>4, OneValidator
<1>. QED
  BY <1>5 DEF row, other

\* Enqueue, deactivate or reactivate.
LEMMA SetStatusKeeps ==
    ASSUME SolidoInv, NEW v \in Votes, NEW status \in ValidatorStatus, SetStatus(v, status),
           v \in Listed, validators[v].status = "PendingRemoval" => status = "PendingRemoval"
    PROVE  /\ AccountsInv' /\ BookStep /\ UNCHANGED reserve
           /\ Tracked(validators') = Tracked(validators)
<1>. DEFINE val == validators[v]
            b == [val EXCEPT !.status = status]
<1>1. AccountsInv
  BY DEF SolidoInv
<1>2. /\ val \in Validators
      /\ StakesOrderly(val.stake_seeds, stake_accounts[v])
      /\ UnstakesOrderly(val.unstake_seeds, unstake_accounts[v])
  BY <1>1, OfValidator
<1>3. Overwrites(validators, v, b, validators')
  BY <1>1 DEF SetStatus, Overwrites, AccountsInv, TypeOK
<1>4. /\ b \in Validators /\ b.stake_seeds = val.stake_seeds /\ b.unstake_seeds = val.unstake_seeds
      /\ b.stake_accounts_balance = val.stake_accounts_balance
  BY <1>2 DEF Validators
<1>. HIDE DEF b
<1>5. AccountsInv' /\ TotalsFollow(v, b, stake_accounts[v], unstake_accounts[v])
  BY <1>1, <1>2, <1>3, <1>4, EntryChanges DEF SetStatus
<1>6. UNCHANGED <<Staked, Unstaking>>
  BY <1>4, <1>5, TotalsOf DEF TotalsFollow
<1>7. Tracked(validators') = Tracked(validators)
  <2>1. Tracked(validators) \in Nat /\ val.stake_accounts_balance \in Nat
    BY <1>1, <1>2, FieldTypes, TrackedNat DEF AccountsInv, TypeOK
  <2>2. Tracked(validators') = Tracked(validators) - val.stake_accounts_balance
                                                   + val.stake_accounts_balance
    BY <1>4, <1>5 DEF TotalsFollow
  <2>. QED
    BY <2>1, <2>2
<1>8. B!ChangeStatus(v, status)
  BY <1>6 DEF B!ChangeStatus, B!IsListed, Listed, SetStatus
<1>9. status \in B!Statuses \ {"NotListed"}
  BY DEF ValidatorStatus, B!Statuses
<1>. QED
  BY <1>5, <1>7, <1>8, <1>9 DEF BookStep, B!Step, SetStatus

\* Nothing is in use at the addresses of a validator whose ranges are empty.
LEMMA NewEntryOrderly ==
    ASSUME AccountsInv, B!BooksInv, NEW v \in Votes, NEW status \in ValidatorStatus \cup {"NotListed"},
           validators[v].stake_seeds.begin = validators[v].stake_seeds.end,
           validators[v].unstake_seeds.begin = validators[v].unstake_seeds.end,
           Overwrites(validators, v, NewValidator(status), validators'),
           UNCHANGED <<epoch, reserve, supply, exchange_rate, reward_distribution,
                       stake_accounts, unstake_accounts, outside>>
    PROVE  /\ AccountsInv' /\ UNCHANGED <<Staked, Unstaking>>
           /\ Tracked(validators') = Tracked(validators)
<1>. DEFINE val == validators[v]
            b == NewValidator(status)
            row == stake_accounts[v]
            other == unstake_accounts[v]
<1>1. /\ b \in Validators /\ b.stake_accounts_balance = 0
      /\ b.stake_seeds \in SeedRanges /\ b.unstake_seeds \in SeedRanges
      /\ b.stake_seeds.begin = 0 /\ b.stake_seeds.end = 0
      /\ b.unstake_seeds.begin = 0 /\ b.unstake_seeds.end = 0
  BY DEF NewValidator, Validators, SeedRanges
<1>2. /\ val \in Validators /\ row \in Rows /\ other \in Rows
      /\ StakesOrderly(val.stake_seeds, row) /\ UnstakesOrderly(val.unstake_seeds, other)
      /\ val.stake_seeds.begin \in Nat /\ val.unstake_seeds.begin \in Nat
  BY OfValidator, FieldTypes
<1>3. /\ Staked[v] = 0 /\ Unstaking[v] = 0 /\ val.stake_accounts_balance \in Nat
      /\ val.stake_accounts_balance <= Staked[v] + Unstaking[v]
  BY BookOf, <1>2, FieldTypes
<1>. HIDE DEF b, val, row, other
<1>4. \A s \in Seeds : row[s].phase = "none" /\ other[s].phase = "none"
  <2>1. val.stake_seeds.begin = val.stake_seeds.end /\ val.unstake_seeds.begin = val.unstake_seeds.end
    BY DEF val
  <2>2. EmptyAccount.phase = "none"
    BY DEF EmptyAccount, Undelegated
  <2>. QED
    BY <1>2, <2>1, <2>2, SolidoAssumption DEF StakesOrderly, UnstakesOrderly, Seeds
<1>5. StakesOrderly(b.stake_seeds, row) /\ UnstakesOrderly(b.unstake_seeds, other)
  BY <1>1, <1>4, SolidoAssumption DEF StakesOrderly, UnstakesOrderly, SeedsOf, Seeds
<1>6. AccountsInv' /\ TotalsFollow(v, b, stake_accounts[v], unstake_accounts[v])
  <2>1. Overwrites(validators, v, b, validators')
    BY DEF b
  <2>. QED
    BY <1>1, <1>5, <2>1, EntryChanges DEF row, other
<1>7. SeedsOf(b.stake_seeds) = {} /\ SeedsOf(b.unstake_seeds) = {}
  BY <1>1 DEF SeedsOf
<1>8. /\ SumLamports(stake_accounts[v], SeedsOf(b.stake_seeds)) = 0
      /\ SumLamports(unstake_accounts[v], SeedsOf(b.unstake_seeds)) = 0
  BY <1>7, LamportsOfNone
<1>9. UNCHANGED <<Staked, Unstaking>>
  BY <1>3, <1>6, <1>8, TotalsOf DEF TotalsFollow
<1>10. Tracked(validators') = Tracked(validators)
  <2>1. Tracked(validators) \in Nat /\ val.stake_accounts_balance = 0
    BY <1>3, TrackedNat DEF AccountsInv, TypeOK
  <2>2. Tracked(validators') = Tracked(validators) - 0 + 0
    BY <1>1, <1>6, <2>1 DEF TotalsFollow, val
  <2>. QED
    BY <2>1, <2>2
<1>. QED
  BY <1>6, <1>9, <1>10

LEMMA SameNew == \A status : B!NewBook(status) = NewValidator(status)
BY DEF B!NewBook, NewValidator

LEMMA AddValidatorKeeps ==
    ASSUME SolidoInv, NEW v \in Votes, AddValidator(v)
    PROVE  /\ AccountsInv' /\ BookStep /\ UNCHANGED reserve
           /\ Tracked(validators') = Tracked(validators)
<1>1. AccountsInv /\ B!BooksInv
  BY DEF SolidoInv
<1>2. /\ validators[v].status = "NotListed"
      /\ Overwrites(validators, v, NewValidator("AcceptingStakes"), validators')
  BY DEF AddValidator, Listed, Overwrites
<1>3. /\ validators[v].stake_seeds.begin = validators[v].stake_seeds.end
      /\ validators[v].unstake_seeds.begin = validators[v].unstake_seeds.end
  BY <1>1, <1>2, BookOf
<1>4. "AcceptingStakes" \in ValidatorStatus \cup {"NotListed"}
  BY DEF ValidatorStatus
<1>5. /\ AccountsInv' /\ UNCHANGED <<Staked, Unstaking>>
      /\ Tracked(validators') = Tracked(validators)
  BY <1>1, <1>2, <1>3, <1>4, NewEntryOrderly DEF AddValidator
<1>6. B!AddValidator(v)
  BY <1>2, <1>5, SameNew DEF B!AddValidator, B!IsListed, Overwrites
<1>. QED
  BY <1>5, <1>6 DEF BookStep, B!Step, AddValidator

LEMMA RemoveValidatorKeeps ==
    ASSUME SolidoInv, NEW v \in Votes, RemoveValidator(v)
    PROVE  /\ AccountsInv' /\ BookStep /\ UNCHANGED reserve
           /\ Tracked(validators') = Tracked(validators)
<1>1. AccountsInv /\ B!BooksInv
  BY DEF SolidoInv
<1>2. /\ validators[v].status = "PendingRemoval"
      /\ validators[v].stake_seeds.begin = validators[v].stake_seeds.end
      /\ validators[v].unstake_seeds.begin = validators[v].unstake_seeds.end
      /\ Overwrites(validators, v, NewValidator("NotListed"), validators')
  BY DEF RemoveValidator, has_stake_accounts, has_unstake_accounts, Overwrites
<1>3. /\ AccountsInv' /\ UNCHANGED <<Staked, Unstaking>>
      /\ Tracked(validators') = Tracked(validators)
  BY <1>1, <1>2, NewEntryOrderly DEF RemoveValidator
<1>4. validators[v] \in Validators
  BY <1>1, OfValidator
<1>5. B!RemoveValidator(v)
  <2>1. /\ validators[v].stake_seeds.end - validators[v].stake_seeds.begin = 0
        /\ validators[v].unstake_seeds.end - validators[v].unstake_seeds.begin = 0
    BY <1>2, <1>4, FieldTypes
  <2>. QED
    BY <1>2, <1>3, <2>1, SameNew DEF B!RemoveValidator, B!Width, Overwrites
<1>. QED
  BY <1>3, <1>5 DEF BookStep, B!Step, RemoveValidator

-----------------------------------------------------------------------------
(* StakeDeposit *)

LEMMA WithinTotal == AccountsInv => reserve \in 0..TotalSol /\ outside \in 0..TotalSol
<1>. SUFFICES ASSUME AccountsInv
              PROVE  reserve \in 0..TotalSol /\ outside \in 0..TotalSol
  OBVIOUS
<1>1. reserve \in Nat /\ outside \in Nat
  BY DEF AccountsInv, TypeOK
<1>2. Total(stake_accounts) \in Nat /\ Total(unstake_accounts) \in Nat
  BY TypesOfGrids, TotalNat DEF AccountsInv
<1>3. reserve + outside + Total(stake_accounts) + Total(unstake_accounts) = TotalSol
  BY DEF AccountsInv, SolIsConserved
<1>. QED
  BY <1>1, <1>2, <1>3, SolidoAssumption

\* An entry to which stake is added.
LEMMA StakeEntry ==
    ASSUME B!BooksInv, NEW v \in Votes, NEW amount \in Nat
    PROVE  LET val == validators[v]
           IN  /\ WithStake(val, amount)
                    = B!Entry(val.status, val.stake_seeds, val.unstake_seeds,
                              val.stake_accounts_balance + amount, val.unstake_accounts_balance)
               /\ val.unstake_accounts_balance <= val.stake_accounts_balance + amount
<1>. DEFINE val == validators[v]
            new == [val EXCEPT !.stake_accounts_balance = @ + amount]
<1>1. /\ val \in Validators
      /\ val.stake_accounts_balance = val.effective_stake_balance + val.unstake_accounts_balance
  BY BookOf
<1>. HIDE DEF val
<1>2. /\ val.stake_accounts_balance \in Nat /\ val.unstake_accounts_balance \in Nat
      /\ val.effective_stake_balance \in Nat
  BY <1>1, FieldTypes
<1>3. /\ val.stake_accounts_balance + amount \in Nat
      /\ val.unstake_accounts_balance <= val.stake_accounts_balance + amount
  BY <1>1, <1>2
<1>4. /\ new \in Validators /\ new.status = val.status
      /\ new.stake_seeds = val.stake_seeds /\ new.unstake_seeds = val.unstake_seeds
      /\ new.stake_accounts_balance = val.stake_accounts_balance + amount
      /\ new.unstake_accounts_balance = val.unstake_accounts_balance
  BY <1>1, <1>3 DEF Validators
<1>5. WithStake(val, amount) = WithEffective(new)
  BY DEF WithStake
<1>. HIDE DEF new
<1>6. WithEffective(new) = B!Entry(val.status, val.stake_seeds, val.unstake_seeds,
                              val.stake_accounts_balance + amount, val.unstake_accounts_balance)
  BY <1>2, <1>3, <1>4, EntryOfBalances
<1>. QED
  BY <1>3, <1>5, <1>6 DEF val

LEMMA ExtendRange ==
    ASSUME NEW st \in SeedRanges
    PROVE  /\ B!Extend(st, 1) \in SeedRanges
           /\ B!Extend(st, 1).begin = st.begin /\ B!Extend(st, 1).end = st.end + 1
BY DEF B!Extend, SeedRanges

Lengthens(e, new) == new = [e EXCEPT !.stake_seeds.end = @ + 1]

LEMMA ExtendEntry ==
    ASSUME NEW status, NEW st \in SeedRanges, NEW un, NEW total, NEW unstake, NEW e, NEW new,
           e = B!Entry(status, st, un, total, unstake), Lengthens(e, new)
    PROVE  new = B!Entry(status, B!Extend(st, 1), un, total, unstake)
<1>1. [st EXCEPT !.end = @ + 1] = B!Extend(st, 1)
  BY DEF B!Extend, SeedRanges
<1>. QED
  BY <1>1 DEF B!Entry, Lengthens

\* Delegating a fresh account leaves its rent alone.
LEMMA DelegateFresh ==
    ASSUME NEW x \in Nat, x >= Rent, NEW a, a = Delegate(Undelegated(x))
    PROVE  /\ a \in StakeAccounts /\ a.lamports = x
           /\ a.phase = "activating" /\ a.stake + Rent <= a.lamports
<1>1. x - Rent \in Nat /\ Rent \in Nat
  BY RentAssumption
<1>2. a = [lamports |-> x, stake |-> x - Rent, phase |-> "activating"]
  BY DEF Delegate, Undelegated
<1>. QED
  BY <1>1, <1>2 DEF StakeAccounts, Phases

LEMMA StakeDepositAppendKeeps ==
    ASSUME SolidoInv, NEW v \in Votes, NEW amount \in StakeAmounts, StakeDepositAppend(v, amount)
    PROVE  /\ AccountsInv' /\ BookStep
           /\ reserve' + Tracked(validators') = reserve + Tracked(validators)
<1>. DEFINE val == validators[v]
            range == val.stake_seeds
            seed == range.end
            old == stake_accounts[v]
            found == old[seed].lamports
            a == Delegate(Undelegated(found + amount))
            row == [old EXCEPT ![seed] = a]
            other == unstake_accounts[v]
            b == B!Entry(val.status, B!Extend(range, 1), val.unstake_seeds,
                         val.stake_accounts_balance + amount, val.unstake_accounts_balance)
<1>1. /\ AccountsInv /\ B!BooksInv
  BY DEF SolidoInv
<1>2. /\ amount \in Nat /\ reserve \in Nat /\ outside \in Nat /\ supply \in Nat
      /\ amount <= reserve /\ amount >= MINIMUM_STAKE_ACCOUNT_BALANCE
      /\ val.status = "AcceptingStakes" /\ seed < MaxSeed
      /\ reserve' = reserve - amount
      /\ UNCHANGED <<epoch, supply, exchange_rate, reward_distribution, outside>>
  BY <1>1, SolidoAssumption DEF StakeDepositAppend, CanStake, is_active, AccountsInv, TypeOK
<1>3. /\ val \in Validators /\ old \in Rows /\ other \in Rows
      /\ StakesOrderly(range, old) /\ UnstakesOrderly(val.unstake_seeds, other)
      /\ SeedsOf(range) \in SUBSET Seeds
      /\ range \in SeedRanges /\ range.begin \in Nat /\ range.end \in Nat /\ range.begin <= range.end
  BY <1>1, OfValidator, FieldTypes DEF StakesOrderly
<1>4. /\ seed \in Seeds /\ seed \notin SeedsOf(range) /\ found \in Nat
  <2>. HIDE DEF val, old
  <2>1. seed \in Seeds /\ seed \notin SeedsOf(range)
    BY <1>2, <1>3, SolidoAssumption DEF Seeds, SeedsOf
  <2>. QED
    BY <1>3, <2>1 DEF Rows, StakeAccounts
<1>5. /\ Overwrites(validators, v, b, validators')
      /\ stake_accounts' = [stake_accounts EXCEPT ![v][seed] = a]
      /\ UNCHANGED unstake_accounts
  <2>1. WithStake(val, amount)
          = B!Entry(val.status, range, val.unstake_seeds,
                    val.stake_accounts_balance + amount, val.unstake_accounts_balance)
    BY <1>1, <1>2, StakeEntry
  <2>. DEFINE e == WithStake(val, amount)
              new == [e EXCEPT !.stake_seeds.end = @ + 1]
              t == val.stake_accounts_balance + amount
  <2>2. e = B!Entry(val.status, range, val.unstake_seeds, t, val.unstake_accounts_balance)
        /\ Lengthens(e, new)
    BY <2>1 DEF Lengthens
  <2>3. new = b
    <3>. HIDE DEF val, t, e, new, range
    <3>1. new = B!Entry(val.status, B!Extend(range, 1), val.unstake_seeds, t,
                        val.unstake_accounts_balance)
      BY <1>3, <2>2, ExtendEntry
    <3>. QED
      BY <3>1 DEF t
  <2>. HIDE DEF b
  <2>. QED
    BY <2>3 DEF StakeDepositAppend, Overwrites
<1>6. /\ b \in Validators /\ b.stake_seeds = B!Extend(range, 1) /\ b.unstake_seeds = val.unstake_seeds
      /\ b.stake_accounts_balance = val.stake_accounts_balance + amount
      /\ b.stake_seeds.begin = range.begin /\ b.stake_seeds.end = range.end + 1
  <2>1. val.unstake_accounts_balance <= val.stake_accounts_balance + amount
    BY <1>1, <1>2, StakeEntry
  <2>2. B!Extend(range, 1) \in SeedRanges /\ B!Extend(range, 1).begin = range.begin
        /\ B!Extend(range, 1).end = range.end + 1
    BY <1>3, ExtendRange
  <2>3. /\ val.status \in ValidatorStatus \cup {"NotListed"} /\ val.unstake_seeds \in SeedRanges
        /\ val.stake_accounts_balance + amount \in Nat /\ val.unstake_accounts_balance \in Nat
    BY <1>2, <1>3, FieldTypes
  <2>. DEFINE next == B!Extend(range, 1)
              total == val.stake_accounts_balance + amount
  <2>4. IsEntry(b, val.status, next, val.unstake_seeds, total, val.unstake_accounts_balance)
    BY DEF IsEntry
  <2>. HIDE DEF val, b, next, total
  <2>5. /\ b \in Validators /\ b.stake_seeds = next
        /\ b.unstake_seeds = val.unstake_seeds
        /\ b.stake_accounts_balance = total
    <3>1. next \in SeedRanges /\ total \in Nat /\ val.unstake_accounts_balance <= total
      BY <2>1, <2>2, <2>3 DEF next, total
    <3>. QED
      BY <2>3, <2>4, <3>1, FieldsOfEntry
  <2>. QED
    BY <2>2, <2>5 DEF next, total
<1>7. /\ a \in StakeAccounts /\ a.lamports = found + amount
      /\ a.phase = "activating" /\ a.stake + Rent <= a.lamports
  <2>1. found + amount \in Nat /\ found + amount >= Rent
    BY <1>2, <1>4, SolidoAssumption, RentAssumption
  <2>. DEFINE x == found + amount
  <2>2. a = Delegate(Undelegated(x)) /\ x \in Nat /\ x >= Rent
    BY <2>1
  <2>. HIDE DEF a, x
  <2>3. /\ a \in StakeAccounts /\ a.lamports = x
        /\ a.phase = "activating" /\ a.stake + Rent <= a.lamports
    BY <2>2, DelegateFresh
  <2>. QED
    BY <2>3 DEF x
<1>. HIDE DEF val, seed, old, other, b, a, row, range, found
<1>8. /\ row \in Rows /\ row[seed] = a
      /\ \A t \in Seeds : t # seed => row[t] = old[t]
      /\ \A R \in SUBSET Seeds :
            SumLamports(row, R) = IF seed \in R
                                  THEN SumLamports(old, R) - old[seed].lamports + a.lamports
                                  ELSE SumLamports(old, R)
  <2>1. Overwrites(old, seed, a, row)
    BY DEF Overwrites, row
  <2>. QED
    BY <1>3, <1>4, <1>7, <2>1, RowWithAccount
<1>9. StakesOrderly(b.stake_seeds, row) /\ UnstakesOrderly(b.unstake_seeds, other)
  <2>1. b.stake_seeds.begin <= b.stake_seeds.end /\ b.stake_seeds.end <= MaxSeed
    BY <1>2, <1>3, <1>6, SolidoAssumption DEF seed
  <2>2. ASSUME NEW s \in Seeds
        PROVE  /\ s < b.stake_seeds.begin => row[s] = EmptyAccount
               /\ s \in SeedsOf(b.stake_seeds) => /\ row[s].phase \in {"activating", "active"}
                                                  /\ row[s].stake + Rent <= row[s].lamports
               /\ s >= b.stake_seeds.end => row[s].phase = "none"
    <3>1. CASE s = seed
      BY <1>3, <1>6, <1>7, <1>8, <3>1 DEF SeedsOf, seed
    <3>2. CASE s # seed
      <4>1. row[s] = old[s] /\ s \in Nat
        BY <1>8, <3>2, SolidoAssumption DEF Seeds
      <4>2. /\ s < range.begin => old[s] = EmptyAccount
            /\ s \in SeedsOf(range) => /\ old[s].phase \in {"activating", "active"}
                                       /\ old[s].stake + Rent <= old[s].lamports
            /\ s >= range.end => old[s].phase = "none"
        BY <1>3 DEF StakesOrderly
      <4>3. /\ s \in SeedsOf(b.stake_seeds) => s \in SeedsOf(range)
            /\ s >= b.stake_seeds.end => s >= range.end
        BY <1>3, <1>6, <3>2, <4>1 DEF SeedsOf, seed
      <4>. QED
        BY <1>6, <4>1, <4>2, <4>3
    <3>. QED
      BY <3>1, <3>2
  <2>. QED
    BY <1>3, <1>6, <2>1, <2>2 DEF StakesOrderly
<1>10. /\ Overwrites(stake_accounts, v, row, stake_accounts')
       /\ Overwrites(unstake_accounts, v, other, unstake_accounts')
  <2>1. stake_accounts \in Grids /\ Overwrites(stake_accounts[v], seed, a, row)
    BY <1>1, TypesOfGrids DEF AccountsInv, Overwrites, row, old
  <2>. QED
    BY <1>1, <1>4, <1>5, <2>1, WriteRow, WriteNothing DEF other
<1>11. /\ SumLamports(row, Seeds) = SumLamports(old, Seeds) + amount
       /\ SumLamports(old, Seeds) \in Nat /\ SumLamports(other, Seeds) \in Nat
       /\ SumLamports(old, SeedsOf(range)) \in Nat
  <2>1. SumLamports(old, Seeds) \in Nat /\ SumLamports(other, Seeds) \in Nat
        /\ SumLamports(old, SeedsOf(range)) \in Nat
    BY <1>3, LamportsNat
  <2>2. SumLamports(row, Seeds) = SumLamports(old, Seeds) - found + (found + amount)
    BY <1>4, <1>7, <1>8 DEF found
  <2>. QED
    BY <1>2, <1>4, <2>1, <2>2
<1>12. SumLamports(row, SeedsOf(b.stake_seeds)) = SumLamports(old, SeedsOf(range)) + amount + found
  <2>1. SumLamports(row, SeedsOf(range)) = SumLamports(old, SeedsOf(range))
    BY <1>3, <1>4, <1>8
  <2>2. /\ SeedsOf(b.stake_seeds) \in SUBSET Seeds /\ seed \in SeedsOf(b.stake_seeds)
        /\ SeedsOf(range) = SeedsOf(b.stake_seeds) \ {seed}
    BY <1>2, <1>3, <1>6, SolidoAssumption DEF SeedsOf, Seeds, seed
  <2>3. SumLamports(row, SeedsOf(b.stake_seeds)) = SumLamports(row, SeedsOf(range)) + row[seed].lamports
    BY <1>8, <2>2, LamportsOneMore
  <2>. QED
    BY <1>2, <1>4, <1>7, <1>8, <1>11, <2>1, <2>3
<1>13. Rewrites(v, b, row, other)
  <2>1. reserve' \in Nat /\ outside' \in Nat /\ supply' \in Nat
    BY <1>2
  <2>2. reserve' + outside' + SumLamports(row, Seeds) + SumLamports(other, Seeds)
          = reserve + outside + SumLamports(old, Seeds) + SumLamports(other, Seeds)
    BY <1>2, <1>11
  <2>. QED
    BY <1>2, <1>3, <1>5, <1>6, <1>8, <1>9, <1>10, <2>1, <2>2 DEF Rewrites, old, other
<1>14. AccountsInv' /\ TotalsFollow(v, b, row, other)
  BY <1>1, <1>13, OneValidator
<1>15. /\ Staked[v] = SumLamports(old, SeedsOf(range))
       /\ Unstaking[v] = SumLamports(other, SeedsOf(val.unstake_seeds))
       /\ [Unstaking EXCEPT ![v] = Unstaking[v]] = Unstaking
  BY TotalsOf DEF old, other, val, range
<1>16. Staked' = [Staked EXCEPT ![v] = Staked[v] + amount + found] /\ UNCHANGED Unstaking
  BY <1>6, <1>12, <1>14, <1>15 DEF TotalsFollow
<1>17. amount \in 0..TotalSol /\ found \in 0..TotalSol
  <2>1. reserve <= TotalSol
    BY <1>1, WithinTotal, SolidoAssumption
  <2>2. SumLamports(old, Seeds) + SumLamports(other, Seeds) <= TotalSol
    BY <1>1, HeldFits DEF Fits, old, other
  <2>3. found <= SumLamports(old, Seeds)
    BY <1>3, <1>4, LamportsNat DEF found
  <2>. QED
    BY <1>2, <1>4, <1>11, <2>1, <2>2, <2>3, SolidoAssumption
<1>18. B!StakeDeposit(v, amount, found, TRUE)
  BY <1>2, <1>5, <1>16 DEF B!StakeDeposit, Overwrites, b, val, range
<1>19. BookStep
  BY <1>17, <1>18 DEF BookStep, B!Step
<1>20. reserve' + Tracked(validators') = reserve + Tracked(validators)
  <2>1. Tracked(validators) \in Nat /\ val.stake_accounts_balance \in Nat
    BY <1>1, <1>3, FieldTypes, TrackedNat DEF AccountsInv, TypeOK
  <2>2. Tracked(validators') = Tracked(validators) - val.stake_accounts_balance
                                                   + (val.stake_accounts_balance + amount)
    BY <1>6, <1>14 DEF TotalsFollow, val
  <2>. QED
    BY <1>2, <2>1, <2>2
<1>. QED
  BY <1>14, <1>19, <1>20

\* An account in use, and writing one.
Usable(a) == /\ a \in StakeAccounts
             /\ a.phase \in {"activating", "active"}
             /\ a.stake + Rent <= a.lamports

LEMMA AccountInRange ==
    ASSUME NEW range \in SeedRanges, NEW row \in Rows, StakesOrderly(range, row),
           NEW s \in SeedsOf(range)
    PROVE  s \in Seeds /\ Usable(row[s])
<1>1. s \in Seeds
  BY RangeIsPart DEF StakesOrderly
<1>. QED
  BY <1>1 DEF StakesOrderly, Rows, Usable

LEMMA WriteInRange ==
    ASSUME NEW range \in SeedRanges, NEW row \in Rows, StakesOrderly(range, row),
           NEW s \in SeedsOf(range), NEW a, Usable(a), NEW new, Overwrites(row, s, a, new)
    PROVE  StakesOrderly(range, new)
<1>1. s \in Seeds /\ range.begin \in Nat /\ range.end \in Nat
  BY AccountInRange DEF SeedRanges
<1>2. new[s] = a /\ \A t \in Seeds : t # s => new[t] = row[t]
  BY <1>1 DEF Overwrites, Rows
<1>3. ~(s < range.begin) /\ ~(s >= range.end)
  BY <1>1, SolidoAssumption DEF SeedsOf, Seeds
<1>4. ASSUME NEW t \in Seeds
      PROVE  /\ t < range.begin => new[t] = EmptyAccount
             /\ t \in SeedsOf(range) => /\ new[t].phase \in {"activating", "active"}
                                        /\ new[t].stake + Rent <= new[t].lamports
             /\ t >= range.end => new[t].phase = "none"
  <2>1. CASE t = s
    BY <1>2, <1>3, <2>1 DEF Usable
  <2>2. CASE t # s
    BY <1>2, <2>2 DEF StakesOrderly
  <2>. QED
    BY <2>1, <2>2
<1>. QED
  BY <1>4 DEF StakesOrderly

LEMMA StakeDepositMergeKeeps ==
    ASSUME SolidoInv, NEW v \in Votes, NEW amount \in StakeAmounts,
           NEW prefund \in DonationAmounts \cup {0}, StakeDepositMerge(v, amount, prefund)
    PROVE  /\ AccountsInv' /\ BookStep
           /\ reserve' + Tracked(validators') = reserve + Tracked(validators)
<1>. DEFINE val == validators[v]
            range == val.stake_seeds
            seed == range.end - 1
            old == stake_accounts[v]
            into == old[seed]
            a == MergeUndelegated(into, amount + prefund)
            row == [old EXCEPT ![seed] = a]
            other == unstake_accounts[v]
            b == B!Entry(val.status, range, val.unstake_seeds,
                         val.stake_accounts_balance + amount, val.unstake_accounts_balance)
<1>1. /\ AccountsInv /\ B!BooksInv
  BY DEF SolidoInv
<1>2. /\ amount \in Nat /\ prefund \in Nat
      /\ reserve \in Nat /\ outside \in Nat /\ supply \in Nat
      /\ amount <= reserve /\ prefund <= outside
      /\ val.status = "AcceptingStakes" /\ range.end > range.begin
      /\ into.phase = "activating"
      /\ reserve' = reserve - amount /\ outside' = outside - prefund
      /\ stake_accounts' = [stake_accounts EXCEPT ![v][seed] = a]
      /\ UNCHANGED <<epoch, supply, exchange_rate, reward_distribution, unstake_accounts>>
  <2>1. /\ amount \in Nat /\ prefund \in Nat
        /\ reserve \in Nat /\ outside \in Nat /\ supply \in Nat
    BY <1>1, SolidoAssumption DEF AccountsInv, TypeOK
  <2>2. /\ amount <= reserve /\ val.status = "AcceptingStakes"
    BY DEF StakeDepositMerge, CanStake, is_active
  <2>3. /\ prefund <= outside /\ range.end > range.begin
        /\ into.phase = "activating"
        /\ reserve' = reserve - amount /\ outside' = outside - prefund
        /\ UNCHANGED <<epoch, supply, exchange_rate, reward_distribution, unstake_accounts>>
    BY DEF StakeDepositMerge, CanMergeUndelegated
  <2>4. stake_accounts' = [stake_accounts EXCEPT ![v][seed] = a]
    BY DEF StakeDepositMerge
  <2>. QED
    BY <2>1, <2>2, <2>3, <2>4
<1>3. /\ val \in Validators /\ old \in Rows /\ other \in Rows
      /\ StakesOrderly(range, old) /\ UnstakesOrderly(val.unstake_seeds, other)
      /\ SeedsOf(range) \in SUBSET Seeds
      /\ range \in SeedRanges /\ range.begin \in Nat /\ range.end \in Nat
  BY <1>1, OfValidator, FieldTypes
<1>4. Overwrites(validators, v, b, validators')
  <2>1. WithStake(val, amount) = b
    BY <1>1, <1>2, StakeEntry
  <2>. HIDE DEF b
  <2>. QED
    BY <2>1 DEF StakeDepositMerge, Overwrites
<1>5. /\ b \in Validators /\ b.stake_seeds = range /\ b.unstake_seeds = val.unstake_seeds
      /\ b.stake_accounts_balance = val.stake_accounts_balance + amount
  <2>1. val.unstake_accounts_balance <= val.stake_accounts_balance + amount
    BY <1>1, <1>2, StakeEntry
  <2>2. /\ val.status \in ValidatorStatus \cup {"NotListed"} /\ val.unstake_seeds \in SeedRanges
        /\ val.stake_accounts_balance + amount \in Nat /\ val.unstake_accounts_balance \in Nat
    BY <1>2, <1>3, FieldTypes
  <2>. DEFINE t == val.stake_accounts_balance + amount
  <2>3. IsEntry(b, val.status, range, val.unstake_seeds, t, val.unstake_accounts_balance)
    BY DEF IsEntry
  <2>. HIDE DEF val, range, t, b
  <2>4. /\ b \in Validators /\ b.stake_seeds = range /\ b.unstake_seeds = val.unstake_seeds
        /\ b.stake_accounts_balance = t
    <3>1. t \in Nat /\ val.unstake_accounts_balance <= t
      BY <2>1, <2>2 DEF t
    <3>. QED
      BY <1>3, <2>2, <2>3, <3>1, FieldsOfEntry
  <2>. QED
    BY <2>4 DEF t
<1>. HIDE DEF val, old, other, b, a, row, range, seed, into
<1>6. seed \in SeedsOf(range) /\ seed \in Seeds /\ Usable(into)
  <2>1. seed \in SeedsOf(range)
    BY <1>2, <1>3 DEF SeedsOf, seed
  <2>. QED
    BY <1>3, <2>1, AccountInRange DEF into
<1>7. Usable(a) /\ a.lamports = into.lamports + (amount + prefund)
  <2>1. into \in StakeAccounts /\ into.lamports \in Nat /\ into.stake \in Nat
        /\ into.stake + Rent <= into.lamports
    BY <1>6 DEF Usable, StakeAccounts
  <2>2. into.lamports + (amount + prefund) \in Nat /\ into.stake + (amount + prefund) \in Nat
    BY <1>2, <2>1
  <2>3. /\ a \in StakeAccounts /\ a.lamports = into.lamports + (amount + prefund)
        /\ a.stake = into.stake + (amount + prefund) /\ a.phase = into.phase
    BY <2>1, <2>2 DEF StakeAccounts, MergeUndelegated, a
  <2>4. a.stake + Rent <= a.lamports
    BY <1>2, <2>1, <2>3, RentAssumption
  <2>. QED
    BY <1>2, <2>3, <2>4 DEF Usable
<1>8. Overwrites(old, seed, a, row) /\ a \in StakeAccounts
  BY <1>7 DEF Overwrites, row, Usable
<1>9. /\ row \in Rows
      /\ \A R \in SUBSET Seeds :
            SumLamports(row, R) = IF seed \in R
                                  THEN SumLamports(old, R) - old[seed].lamports + a.lamports
                                  ELSE SumLamports(old, R)
  BY <1>3, <1>6, <1>8, RowWithAccount
<1>10. StakesOrderly(b.stake_seeds, row) /\ UnstakesOrderly(b.unstake_seeds, other)
  BY <1>3, <1>5, <1>6, <1>7, <1>8, WriteInRange
<1>11. /\ Overwrites(stake_accounts, v, row, stake_accounts')
       /\ Overwrites(unstake_accounts, v, other, unstake_accounts')
  <2>1. stake_accounts \in Grids /\ Overwrites(stake_accounts[v], seed, a, row)
    BY <1>1, <1>8, TypesOfGrids DEF AccountsInv, old
  <2>. QED
    BY <1>1, <1>2, <1>6, <2>1, WriteRow, WriteNothing DEF other
<1>12. /\ SumLamports(row, Seeds) = SumLamports(old, Seeds) + amount + prefund
       /\ SumLamports(row, SeedsOf(range)) = SumLamports(old, SeedsOf(range)) + amount + prefund
       /\ SumLamports(old, Seeds) \in Nat /\ SumLamports(other, Seeds) \in Nat
       /\ SumLamports(old, SeedsOf(range)) \in Nat
  <2>1. SumLamports(old, Seeds) \in Nat /\ SumLamports(other, Seeds) \in Nat
        /\ SumLamports(old, SeedsOf(range)) \in Nat /\ into.lamports \in Nat
    BY <1>3, <1>6, LamportsNat DEF Usable, StakeAccounts
  <2>2. /\ SumLamports(row, Seeds)
             = SumLamports(old, Seeds) - into.lamports + (into.lamports + (amount + prefund))
        /\ SumLamports(row, SeedsOf(range))
             = SumLamports(old, SeedsOf(range)) - into.lamports
                                                + (into.lamports + (amount + prefund))
    BY <1>3, <1>6, <1>7, <1>9 DEF into
  <2>. QED
    BY <1>2, <2>1, <2>2
<1>13. Rewrites(v, b, row, other)
  <2>1. reserve' \in Nat /\ outside' \in Nat /\ supply' \in Nat
    BY <1>2
  <2>2. reserve' + outside' + SumLamports(row, Seeds) + SumLamports(other, Seeds)
          = reserve + outside + SumLamports(old, Seeds) + SumLamports(other, Seeds)
    BY <1>2, <1>12
  <2>. QED
    BY <1>2, <1>3, <1>4, <1>5, <1>9, <1>10, <1>11, <2>1, <2>2 DEF Rewrites, old, other
<1>14. AccountsInv' /\ TotalsFollow(v, b, row, other)
  BY <1>1, <1>13, OneValidator
<1>15. /\ Staked[v] = SumLamports(old, SeedsOf(range))
       /\ Unstaking[v] = SumLamports(other, SeedsOf(val.unstake_seeds))
       /\ [Unstaking EXCEPT ![v] = Unstaking[v]] = Unstaking
  BY TotalsOf DEF old, other, val, range
<1>16. Staked' = [Staked EXCEPT ![v] = Staked[v] + amount + prefund] /\ UNCHANGED Unstaking
  BY <1>5, <1>12, <1>14, <1>15 DEF TotalsFollow
<1>17. amount \in 0..TotalSol /\ prefund \in 0..TotalSol
  BY <1>1, <1>2, WithinTotal, SolidoAssumption
<1>18. B!StakeDeposit(v, amount, prefund, FALSE)
  <2>1. B!Extend(range, 0) = range
    BY <1>3 DEF B!Extend, SeedRanges
  <2>2. range.end - range.begin > 0
    BY <1>2, <1>3
  <2>3. validators' = [validators EXCEPT ![v] =
           B!Entry(val.status, B!Extend(range, 0), val.unstake_seeds,
                   val.stake_accounts_balance + amount, val.unstake_accounts_balance)]
    BY <1>4, <2>1 DEF Overwrites, b
  <2>. QED
    BY <1>2, <1>16, <2>2, <2>3 DEF B!StakeDeposit, B!Width, val, range
<1>19. BookStep
  BY <1>17, <1>18 DEF BookStep, B!Step
<1>20. reserve' + Tracked(validators') = reserve + Tracked(validators)
  <2>1. Tracked(validators) \in Nat /\ val.stake_accounts_balance \in Nat
    BY <1>1, <1>3, FieldTypes, TrackedNat DEF AccountsInv, TypeOK
  <2>2. Tracked(validators') = Tracked(validators) - val.stake_accounts_balance
                                                   + (val.stake_accounts_balance + amount)
    BY <1>5, <1>14 DEF TotalsFollow, val
  <2>. QED
    BY <1>2, <2>1, <2>2
<1>. QED
  BY <1>14, <1>19, <1>20

-----------------------------------------------------------------------------
(* Unstake *)

LEMMA SkipRange ==
    ASSUME NEW st \in SeedRanges, NEW n \in Nat
    PROVE  /\ B!Skip(st, n) \in SeedRanges
           /\ B!Skip(st, n).begin = st.begin + n /\ B!Skip(st, n).end = st.end
BY DEF B!Skip, SeedRanges

\* The ranges of an entry from which stake is taken.
SkippedBy(val) == B!Skip(val.stake_seeds, IF is_active(val) THEN 0 ELSE 1)

LEMMA UnstakeEntry ==
    ASSUME NEW val \in Validators, NEW amount \in Nat,
           val.unstake_accounts_balance + amount <= val.stake_accounts_balance
    PROVE  IsEntry(WithEffective(WithUnstake(val, amount)), val.status, SkippedBy(val),
                   B!Extend(val.unstake_seeds, 1), val.stake_accounts_balance,
                   val.unstake_accounts_balance + amount)
<1>. DEFINE new == WithUnstake(val, amount)
            n == IF is_active(val) THEN 0 ELSE 1
            st == [begin |-> val.stake_seeds.begin + n, end |-> val.stake_seeds.end]
            un == [begin |-> val.unstake_seeds.begin, end |-> val.unstake_seeds.end + 1]
            total == val.stake_accounts_balance
            unstake == val.unstake_accounts_balance + amount
<1>1. /\ total \in Nat /\ unstake \in Nat /\ unstake <= total
      /\ val.stake_seeds \in SeedRanges /\ val.unstake_seeds \in SeedRanges /\ n \in Nat
  BY FieldTypes
<1>2. st = SkippedBy(val) /\ un = B!Extend(val.unstake_seeds, 1)
  BY DEF SkippedBy, B!Skip, B!Extend
<1>3. st \in SeedRanges /\ un \in SeedRanges
  BY <1>1 DEF SeedRanges
<1>4. new = [val EXCEPT !.unstake_accounts_balance = unstake,
                        !.unstake_seeds = un, !.stake_seeds = st]
  <2>1. /\ [val.unstake_seeds EXCEPT !.end = @ + 1] = un
        /\ [val.stake_seeds EXCEPT !.begin = IF is_active(val) THEN @ ELSE @ + 1] = st
    BY <1>1 DEF SeedRanges
  <2>. QED
    BY <2>1 DEF WithUnstake, Validators
<1>. HIDE DEF st, un
<1>5. /\ new \in Validators /\ new.status = val.status
      /\ new.stake_seeds = st /\ new.unstake_seeds = un
      /\ new.stake_accounts_balance = total /\ new.unstake_accounts_balance = unstake
  BY <1>1, <1>3, <1>4 DEF Validators
<1>. HIDE DEF new, total, unstake
<1>6. WithEffective(new) = B!Entry(new.status, new.stake_seeds, new.unstake_seeds, total, unstake)
  BY <1>1, <1>5, EntryOfBalances
<1>7. IsEntry(WithEffective(new), val.status, st, un, total, unstake)
  BY <1>5, <1>6 DEF IsEntry
<1>. QED
  BY <1>2, <1>7 DEF new, total, unstake

\* Splitting an account in use.
LEMMA SplitAccounts ==
    ASSUME NEW src, Usable(src), NEW dst \in StakeAccounts, NEW amount \in Nat,
           CanSplit(src, dst, amount)
    PROVE  /\ amount <= src.lamports /\ src.lamports \in Nat
           /\ SplitSource(src, amount) \in StakeAccounts
           /\ SplitSource(src, amount).lamports = src.lamports - amount
           /\ amount = src.lamports => SplitSource(src, amount) = EmptyAccount
           /\ amount # src.lamports => Usable(SplitSource(src, amount))
<1>1. /\ src \in StakeAccounts /\ src.lamports \in Nat /\ src.stake \in Nat
      /\ src.phase \in {"activating", "active"} /\ src.stake + Rent <= src.lamports
      /\ Rent \in Nat
  BY RentAssumption DEF Usable, StakeAccounts
<1>2. amount <= src.lamports
  BY DEF CanSplit
<1>3. CASE amount = src.lamports
  <2>1. SplitSource(src, amount) = EmptyAccount
    BY <1>3 DEF SplitSource, IsFullSplit
  <2>2. EmptyAccount \in StakeAccounts /\ EmptyAccount.lamports = 0
    BY DEF EmptyAccount, Undelegated, StakeAccounts, Phases
  <2>. QED
    BY <1>1, <1>2, <1>3, <2>1, <2>2
<1>4. CASE amount # src.lamports
  <2>. DEFINE a == SplitSource(src, amount)
  <2>1. a = [src EXCEPT !.lamports = @ - amount, !.stake = @ - amount]
    BY <1>4 DEF SplitSource, IsFullSplit
  <2>2. amount <= src.stake
    BY <1>4 DEF CanSplit, IsFullSplit
  <2>3. src.lamports - amount \in Nat /\ src.stake - amount \in Nat
    BY <1>1, <1>2, <2>2
  <2>4. /\ a \in StakeAccounts /\ a.lamports = src.lamports - amount
        /\ a.stake = src.stake - amount /\ a.phase = src.phase
    BY <1>1, <2>1, <2>3 DEF StakeAccounts
  <2>. HIDE DEF a
  <2>5. a.stake + Rent <= a.lamports
    BY <1>1, <2>4
  <2>6. Usable(a)
    BY <1>1, <2>4, <2>5 DEF Usable
  <2>. QED
    BY <1>1, <1>2, <1>4, <2>4, <2>6 DEF a
<1>. QED
  BY <1>3, <1>4

LEMMA SplitOff ==
    ASSUME NEW src, Usable(src), NEW dst \in StakeAccounts, NEW amount \in Nat,
           CanSplit(src, dst, amount)
    PROVE  LET d == Deactivate(SplitDestination(src, dst, amount))
           IN  /\ d \in StakeAccounts
               /\ d.lamports = dst.lamports + amount
               /\ d.phase \in {"deactivating", "inactive"}
<1>. DEFINE p == SplitDestination(src, dst, amount)
            d == Deactivate(p)
            x == IF IsFullSplit(src, amount) THEN amount - Rent ELSE amount - RentMissing(dst)
<1>1. /\ src.lamports \in Nat /\ src.stake \in Nat /\ dst.lamports \in Nat
      /\ src.phase \in {"activating", "active"} /\ src.stake + Rent <= src.lamports
      /\ Rent \in Nat
  BY RentAssumption DEF Usable, StakeAccounts
<1>2. x \in Nat
  <2>1. amount >= RentMissing(dst) + 1 /\ RentMissing(dst) \in Nat
    BY <1>1 DEF CanSplit, RentMissing
  <2>2. IsFullSplit(src, amount) => amount - Rent \in Nat
    BY <1>1 DEF IsFullSplit
  <2>. QED
    BY <2>1, <2>2
<1>3. p = [lamports |-> dst.lamports + amount, stake |-> x, phase |-> src.phase]
  BY DEF SplitDestination
<1>. HIDE DEF x, p
<1>4. /\ p.lamports = dst.lamports + amount /\ p.stake \in Nat /\ p.phase = src.phase
      /\ p \in StakeAccounts
  BY <1>1, <1>2, <1>3 DEF StakeAccounts, Phases
<1>5. d = [p EXCEPT !.phase = IF p.phase = "activating" THEN "inactive" ELSE "deactivating"]
  BY DEF Deactivate
<1>. HIDE DEF d
<1>6. /\ d \in StakeAccounts /\ d.lamports = p.lamports
      /\ d.phase \in {"deactivating", "inactive"}
  BY <1>4, <1>5 DEF StakeAccounts, Phases
<1>. QED
  BY <1>4, <1>6 DEF d, p

\* The first account of a range is emptied and skipped.
LEMMA SkipFirst ==
    ASSUME NEW range \in SeedRanges, NEW row \in Rows, StakesOrderly(range, row),
           range.begin < range.end, NEW new, Overwrites(row, range.begin, EmptyAccount, new),
           NEW next \in SeedRanges, next.begin = range.begin + 1, next.end = range.end
    PROVE  StakesOrderly(next, new)
<1>1. range.begin \in Nat /\ range.end \in Nat /\ range.end <= MaxSeed /\ range.begin \in Seeds
  BY SolidoAssumption DEF SeedRanges, StakesOrderly, Seeds
<1>2. new[range.begin] = EmptyAccount /\ \A t \in Seeds : t # range.begin => new[t] = row[t]
  BY <1>1 DEF Overwrites, Rows
<1>3. ASSUME NEW t \in Seeds
      PROVE  /\ t < next.begin => new[t] = EmptyAccount
             /\ t \in SeedsOf(next) => /\ new[t].phase \in {"activating", "active"}
                                       /\ new[t].stake + Rent <= new[t].lamports
             /\ t >= next.end => new[t].phase = "none"
  <2>1. t \in Nat
    BY SolidoAssumption DEF Seeds
  <2>2. CASE t = range.begin
    <3>1. t \notin SeedsOf(next) /\ ~(t >= next.end)
      BY <1>1, <2>2 DEF SeedsOf
    <3>. QED
      BY <1>2, <2>2, <3>1
  <2>3. CASE t # range.begin
    <3>1. /\ t < next.begin => t < range.begin
          /\ t \in SeedsOf(next) => t \in SeedsOf(range)
      BY <1>1, <2>1, <2>3 DEF SeedsOf
    <3>. QED
      BY <1>2, <2>3, <3>1 DEF StakesOrderly
  <2>. QED
    BY <2>2, <2>3
<1>. QED
  BY <1>1, <1>3 DEF StakesOrderly

\* An unstake account is created at the end of a range.
LEMMA AppendUnstake ==
    ASSUME NEW range \in SeedRanges, NEW row \in Rows, UnstakesOrderly(range, row),
           range.end < MaxSeed, NEW a, a.phase \in {"deactivating", "inactive"},
           NEW new, Overwrites(row, range.end, a, new),
           NEW next \in SeedRanges, next.begin = range.begin, next.end = range.end + 1
    PROVE  UnstakesOrderly(next, new)
<1>1. /\ range.begin \in Nat /\ range.end \in Nat /\ range.begin <= range.end
      /\ range.end \in Seeds
  BY SolidoAssumption DEF SeedRanges, UnstakesOrderly, Seeds
<1>2. new[range.end] = a /\ \A t \in Seeds : t # range.end => new[t] = row[t]
  BY <1>1 DEF Overwrites, Rows
<1>3. ASSUME NEW t \in Seeds
      PROVE  /\ t < next.begin => new[t] = EmptyAccount
             /\ t \in SeedsOf(next) => new[t].phase \in {"deactivating", "inactive"}
             /\ t >= next.end => new[t].phase = "none"
  <2>1. t \in Nat
    BY SolidoAssumption DEF Seeds
  <2>2. CASE t = range.end
    <3>1. ~(t < next.begin) /\ ~(t >= next.end)
      BY <1>1, <2>2
    <3>. QED
      BY <1>2, <2>2, <3>1
  <2>3. CASE t # range.end
    <3>1. /\ t >= next.end => t >= range.end
          /\ t \in SeedsOf(next) => t \in SeedsOf(range)
      BY <1>1, <2>1, <2>3 DEF SeedsOf
    <3>. QED
      BY <1>2, <2>3, <3>1 DEF UnstakesOrderly
  <2>. QED
    BY <2>2, <2>3
<1>. QED
  BY <1>1, <1>3, SolidoAssumption DEF UnstakesOrderly

LEMMA UnstakeKeeps ==
    ASSUME SolidoInv, NEW v \in Votes, NEW amount \in StakeAmounts, Unstake(v, amount)
    PROVE  /\ AccountsInv' /\ BookStep /\ UNCHANGED reserve
           /\ Tracked(validators') = Tracked(validators)
<1>. DEFINE val == validators[v]
            range == val.stake_seeds
            un == val.unstake_seeds
            from == range.begin
            to == un.end
            old == stake_accounts[v]
            oldUn == unstake_accounts[v]
            source == old[from]
            dest == oldUn[to]
            found == dest.lamports
            a == SplitSource(source, amount)
            d == Deactivate(SplitDestination(source, dest, amount))
            row == [old EXCEPT ![from] = a]
            other == [oldUn EXCEPT ![to] = d]
            b == WithEffective(WithUnstake(val, amount))
            st == SkippedBy(val)
            next == B!Extend(un, 1)
            unstake == val.unstake_accounts_balance + amount
<1>1. AccountsInv /\ B!BooksInv
  BY DEF SolidoInv
<1>2. /\ amount \in Nat /\ reserve \in Nat /\ outside \in Nat /\ supply \in Nat
      /\ val.status # "NotListed" /\ range.begin # range.end
      /\ un.end - un.begin < MAXIMUM_UNSTAKE_ACCOUNTS
      /\ CanSplit(source, dest, amount) /\ to < MaxSeed
      /\ is_active(val) => source.lamports - amount >= MINIMUM_STAKE_ACCOUNT_BALANCE
      /\ ~is_active(val) => amount = source.lamports
  BY <1>1, SolidoAssumption DEF Unstake, CanUnstake, Listed, has_stake_accounts,
                                AccountsInv, TypeOK
<1>3. /\ val.unstake_accounts_balance + amount <= val.stake_accounts_balance
  <2>1. val \in Validators
    BY <1>1, OfValidator
  <2>2. CanComputeEffective(WithUnstake(val, amount))
    BY DEF Unstake
  <2>. HIDE DEF val
  <2>. QED
    BY <2>1, <2>2 DEF CanComputeEffective, WithUnstake, Validators
<1>4. /\ Overwrites(validators, v, b, validators')
      /\ stake_accounts' = [stake_accounts EXCEPT ![v][from] = a]
      /\ unstake_accounts' = [unstake_accounts EXCEPT ![v][to] = d]
      /\ UNCHANGED <<epoch, reserve, supply, exchange_rate, reward_distribution, outside>>
  BY DEF Unstake, Overwrites
<1>5. /\ val \in Validators /\ old \in Rows /\ oldUn \in Rows
      /\ StakesOrderly(range, old) /\ UnstakesOrderly(un, oldUn)
      /\ SeedsOf(range) \in SUBSET Seeds /\ SeedsOf(un) \in SUBSET Seeds
      /\ range \in SeedRanges /\ range.begin \in Nat /\ range.end \in Nat
      /\ un \in SeedRanges /\ un.begin \in Nat /\ un.end \in Nat
  BY <1>1, OfValidator, FieldTypes
<1>6. range.begin < range.end /\ un.begin <= un.end
  BY <1>2, <1>5 DEF StakesOrderly, UnstakesOrderly
<1>7. IsEntry(b, val.status, st, next, val.stake_accounts_balance, unstake)
  <2>. HIDE DEF val
  <2>. QED
    BY <1>2, <1>3, <1>5, UnstakeEntry
<1>8. /\ st \in SeedRanges /\ st.begin = IF is_active(val) THEN range.begin ELSE range.begin + 1
      /\ st.end = range.end
      /\ next \in SeedRanges /\ next.begin = un.begin /\ next.end = un.end + 1
  <2>. HIDE DEF val
  <2>1. next \in SeedRanges /\ next.begin = un.begin /\ next.end = un.end + 1
    BY <1>5, ExtendRange
  <2>2. /\ st \in SeedRanges /\ st.begin = IF is_active(val) THEN range.begin ELSE range.begin + 1
        /\ st.end = range.end
    <3>. HIDE DEF range
    <3>1. st = B!Skip(range, IF is_active(val) THEN 0 ELSE 1)
      BY DEF SkippedBy, range
    <3>. QED
      BY <1>5, <3>1 DEF B!Skip, SeedRanges
  <2>. QED
    BY <2>1, <2>2
<1>9. /\ val.status \in ValidatorStatus \cup {"NotListed"}
      /\ val.stake_accounts_balance \in Nat /\ val.unstake_accounts_balance \in Nat
      /\ unstake \in Nat /\ unstake <= val.stake_accounts_balance
  BY <1>2, <1>3, <1>5, FieldTypes
<1>. HIDE DEF val, range, un, from, to, old, oldUn, source, dest, found, a, d, row, other, b, st,
              next, unstake
<1>10. /\ b \in Validators /\ b.stake_seeds = st /\ b.unstake_seeds = next
       /\ b.stake_accounts_balance = val.stake_accounts_balance
  BY <1>7, <1>8, <1>9, FieldsOfEntry
<1>11. from \in SeedsOf(range) /\ from \in Seeds /\ Usable(source)
  <2>1. from \in SeedsOf(range)
    BY <1>5, <1>6 DEF SeedsOf, from
  <2>. QED
    BY <1>5, <2>1, AccountInRange DEF source
<1>12. to \in Seeds /\ to \notin SeedsOf(un) /\ dest \in StakeAccounts /\ found \in Nat
  <2>1. to \in Seeds /\ to \notin SeedsOf(un)
    BY <1>2, <1>5, SolidoAssumption DEF Seeds, SeedsOf, to
  <2>. QED
    BY <1>5, <2>1 DEF Rows, StakeAccounts, dest, found
<1>13. /\ amount <= source.lamports /\ source.lamports \in Nat
       /\ a \in StakeAccounts /\ a.lamports = source.lamports - amount
       /\ amount = source.lamports => a = EmptyAccount
       /\ amount # source.lamports => Usable(a)
  BY <1>2, <1>11, <1>12, SplitAccounts DEF a
<1>14. /\ d \in StakeAccounts /\ d.lamports = found + amount
       /\ d.phase \in {"deactivating", "inactive"}
  BY <1>2, <1>11, <1>12, SplitOff DEF d, found
<1>15. Overwrites(old, from, a, row) /\ Overwrites(oldUn, to, d, other)
  BY DEF Overwrites, row, other
<1>16. /\ row \in Rows /\ row[from] = a
       /\ \A R \in SUBSET Seeds :
            SumLamports(row, R) = IF from \in R
                                  THEN SumLamports(old, R) - old[from].lamports + a.lamports
                                  ELSE SumLamports(old, R)
  BY <1>5, <1>11, <1>13, <1>15, RowWithAccount
<1>17. /\ other \in Rows /\ other[to] = d
       /\ \A R \in SUBSET Seeds :
            SumLamports(other, R) = IF to \in R
                                    THEN SumLamports(oldUn, R) - oldUn[to].lamports + d.lamports
                                    ELSE SumLamports(oldUn, R)
  BY <1>5, <1>12, <1>14, <1>15, RowWithAccount
<1>18. UnstakesOrderly(next, other)
  <2>1. Overwrites(oldUn, un.end, d, other) /\ un.end < MaxSeed
    BY <1>2, <1>15 DEF to
  <2>. QED
    BY <1>5, <1>8, <1>14, <2>1, AppendUnstake
<1>19. StakesOrderly(st, row)
  <2>1. CASE is_active(val)
    <3>1. amount # source.lamports
      BY <1>2, <1>13, <2>1, SolidoAssumption, RentAssumption
    <3>2. StakesOrderly(range, row)
      BY <1>5, <1>11, <1>13, <1>15, <3>1, WriteInRange
    <3>. QED
      BY <1>8, <2>1, <3>2 DEF StakesOrderly, SeedsOf
  <2>2. CASE ~is_active(val)
    <3>1. Overwrites(old, range.begin, EmptyAccount, row)
      BY <1>2, <1>13, <1>15, <2>2 DEF from
    <3>2. st.begin = range.begin + 1
      BY <1>8, <2>2
    <3>. QED
      BY <1>5, <1>6, <1>8, <3>1, <3>2, SkipFirst
  <2>. QED
    BY <2>1, <2>2
<1>20. /\ SumLamports(old, Seeds) \in Nat /\ SumLamports(oldUn, Seeds) \in Nat
       /\ SumLamports(old, SeedsOf(range)) \in Nat /\ SumLamports(oldUn, SeedsOf(un)) \in Nat
       /\ source.lamports <= SumLamports(old, SeedsOf(range))
       /\ found <= SumLamports(oldUn, Seeds)
  BY <1>5, <1>11, <1>12, LamportsNat DEF source, found, dest
<1>21. /\ SumLamports(row, Seeds) = SumLamports(old, Seeds) - amount
       /\ SumLamports(row, SeedsOf(range)) = SumLamports(old, SeedsOf(range)) - amount
       /\ SumLamports(other, Seeds) = SumLamports(oldUn, Seeds) + amount
  <2>1. /\ SumLamports(row, Seeds)
             = SumLamports(old, Seeds) - source.lamports + (source.lamports - amount)
        /\ SumLamports(row, SeedsOf(range))
             = SumLamports(old, SeedsOf(range)) - source.lamports + (source.lamports - amount)
    BY <1>5, <1>11, <1>13, <1>16 DEF source
  <2>2. SumLamports(other, Seeds) = SumLamports(oldUn, Seeds) - found + (found + amount)
    BY <1>12, <1>14, <1>17 DEF found, dest
  <2>. QED
    BY <1>2, <1>12, <1>13, <1>20, <2>1, <2>2
<1>22. SumLamports(row, SeedsOf(st)) = SumLamports(old, SeedsOf(range)) - amount
  <2>1. CASE is_active(val)
    BY <1>8, <1>21, <2>1 DEF SeedsOf
  <2>2. CASE ~is_active(val)
    <3>1. SeedsOf(st) = SeedsOf(range) \ {from}
      BY <1>5, <1>8, <2>2 DEF SeedsOf, from
    <3>2. SumLamports(row, SeedsOf(range)) = SumLamports(row, SeedsOf(st)) + row[from].lamports
      BY <1>5, <1>11, <1>16, <3>1, LamportsOneMore
    <3>3. row[from].lamports = 0
      BY <1>2, <1>13, <1>16, <2>2
    <3>4. SumLamports(row, SeedsOf(st)) \in Nat
      <4>1. SeedsOf(st) \in SUBSET Seeds
        BY <1>5, <3>1
      <4>. QED
        BY <1>16, <4>1, LamportsNat
    <3>. QED
      BY <1>21, <3>2, <3>3, <3>4
  <2>. QED
    BY <2>1, <2>2
<1>23. SumLamports(other, SeedsOf(next)) = SumLamports(oldUn, SeedsOf(un)) + amount + found
  <2>1. SumLamports(other, SeedsOf(un)) = SumLamports(oldUn, SeedsOf(un))
    BY <1>5, <1>12, <1>17
  <2>2. /\ SeedsOf(next) \in SUBSET Seeds /\ to \in SeedsOf(next)
        /\ SeedsOf(un) = SeedsOf(next) \ {to}
    BY <1>2, <1>5, <1>6, <1>8, SolidoAssumption DEF SeedsOf, Seeds, to
  <2>3. SumLamports(other, SeedsOf(next)) = SumLamports(other, SeedsOf(un)) + other[to].lamports
    BY <1>17, <2>2, LamportsOneMore
  <2>. QED
    BY <1>2, <1>12, <1>14, <1>17, <1>20, <2>1, <2>3
<1>24. /\ Overwrites(stake_accounts, v, row, stake_accounts')
       /\ Overwrites(unstake_accounts, v, other, unstake_accounts')
  <2>1. /\ stake_accounts \in Grids /\ Overwrites(stake_accounts[v], from, a, row)
        /\ unstake_accounts \in Grids /\ Overwrites(unstake_accounts[v], to, d, other)
    BY <1>1, <1>15, TypesOfGrids DEF AccountsInv, old, oldUn
  <2>. QED
    BY <1>4, <1>11, <1>12, <2>1, WriteRow
<1>25. Rewrites(v, b, row, other)
  <2>1. reserve' \in Nat /\ outside' \in Nat /\ supply' \in Nat
    BY <1>2, <1>4
  <2>2. reserve' + outside' + SumLamports(row, Seeds) + SumLamports(other, Seeds)
          = reserve + outside + SumLamports(old, Seeds) + SumLamports(oldUn, Seeds)
    BY <1>2, <1>4, <1>20, <1>21
  <2>3. StakesOrderly(b.stake_seeds, row) /\ UnstakesOrderly(b.unstake_seeds, other)
    BY <1>10, <1>18, <1>19
  <2>. QED
    BY <1>4, <1>10, <1>16, <1>17, <1>24, <2>1, <2>2, <2>3 DEF Rewrites, old, oldUn
<1>26. AccountsInv' /\ TotalsFollow(v, b, row, other)
  BY <1>1, <1>25, OneValidator
<1>27. /\ Staked[v] = SumLamports(old, SeedsOf(range))
       /\ Unstaking[v] = SumLamports(oldUn, SeedsOf(un))
  BY TotalsOf DEF old, oldUn, val, range, un
<1>28. /\ Staked' = [Staked EXCEPT ![v] = Staked[v] - amount]
       /\ Unstaking' = [Unstaking EXCEPT ![v] = Unstaking[v] + amount + found]
  BY <1>10, <1>22, <1>23, <1>26, <1>27 DEF TotalsFollow
<1>29. amount \in 0..TotalSol /\ found \in 0..TotalSol /\ amount <= Staked[v]
  <2>1. Staked[v] \in Nat /\ Unstaking[v] \in Nat /\ Staked[v] + Unstaking[v] <= TotalSol
    BY <1>1, HeldFits DEF Fits
  <2>2. SumLamports(old, Seeds) + SumLamports(oldUn, Seeds) <= TotalSol
    BY <1>1, HeldFits DEF Fits, old, oldUn
  <2>. QED
    BY <1>2, <1>12, <1>13, <1>20, <1>27, <2>1, <2>2, SolidoAssumption
<1>30. ~is_active(val) /\ range.end - range.begin = 1 => amount = Staked[v]
  <2>. SUFFICES ASSUME ~is_active(val), range.end - range.begin = 1
                PROVE  amount = Staked[v]
    OBVIOUS
  <2>. DEFINE none == SeedsOf(range) \ {from}
  <2>1. none = {}
    BY <1>5 DEF SeedsOf, from
  <2>2. SumLamports(old, none) = 0
    BY <2>1, LamportsOfNone
  <2>. HIDE DEF none
  <2>3. SumLamports(old, SeedsOf(range)) = SumLamports(old, none) + old[from].lamports
    BY <1>5, <1>11, LamportsOneMore DEF none
  <2>. QED
    BY <1>2, <1>13, <1>27, <2>2, <2>3 DEF source
<1>31. B!Unstake(v, amount, found)
  <2>1. range.end - range.begin > 0
    BY <1>5, <1>6
  <2>2. /\ val.unstake_accounts_balance + amount <= val.stake_accounts_balance
        /\ validators' = [validators EXCEPT ![v] =
             B!Entry(val.status, B!Skip(range, IF val.status = "AcceptingStakes" THEN 0 ELSE 1),
                     B!Extend(un, 1), val.stake_accounts_balance,
                     val.unstake_accounts_balance + amount)]
    BY <1>3, <1>4, <1>7 DEF IsEntry, Overwrites, st, next, unstake, SkippedBy, is_active, range
  <2>3. val.status # "AcceptingStakes" /\ range.end - range.begin = 1 => amount = Staked[v]
    BY <1>30 DEF is_active
  <2>. QED
    BY <1>2, <1>28, <1>29, <2>1, <2>2, <2>3 DEF B!Unstake, B!Width, B!HasUnstakeRoom, B!IsListed,
                                                 val, range, un
<1>32. BookStep
  BY <1>29, <1>31 DEF BookStep, B!Step
<1>33. Tracked(validators') = Tracked(validators)
  <2>1. Tracked(validators) \in Nat
    BY <1>1, TrackedNat DEF AccountsInv, TypeOK
  <2>2. Tracked(validators') = Tracked(validators) - val.stake_accounts_balance
                                                   + val.stake_accounts_balance
    BY <1>10, <1>26 DEF TotalsFollow, val
  <2>. QED
    BY <1>9, <2>1, <2>2
<1>. QED
  BY <1>4, <1>26, <1>32, <1>33

-----------------------------------------------------------------------------
(* MergeStake *)

LEMMA MergeAccounts ==
    ASSUME NEW dst, Usable(dst), NEW src, Usable(src), CanMerge(dst, src)
    PROVE  /\ Usable(MergeResult(dst, src))
           /\ MergeResult(dst, src).lamports = dst.lamports + src.lamports
           /\ dst.lamports \in Nat /\ src.lamports \in Nat
<1>. DEFINE a == MergeResult(dst, src)
            x == IF dst.phase = "activating" THEN Rent ELSE 0
<1>1. /\ dst \in StakeAccounts /\ dst.lamports \in Nat /\ dst.stake \in Nat
      /\ dst.phase \in {"activating", "active"} /\ dst.stake + Rent <= dst.lamports
      /\ src.lamports \in Nat /\ src.stake \in Nat /\ src.stake + Rent <= src.lamports
      /\ Rent \in Nat /\ x \in Nat /\ x <= Rent
  BY RentAssumption DEF Usable, StakeAccounts
<1>2. a = [dst EXCEPT !.lamports = @ + src.lamports, !.stake = @ + src.stake + x]
  BY DEF MergeResult
<1>. HIDE DEF x
<1>3. dst.lamports + src.lamports \in Nat /\ dst.stake + src.stake + x \in Nat
  BY <1>1
<1>4. /\ a \in StakeAccounts /\ a.lamports = dst.lamports + src.lamports
      /\ a.stake = dst.stake + src.stake + x /\ a.phase = dst.phase
  BY <1>1, <1>2, <1>3 DEF StakeAccounts
<1>. HIDE DEF a
<1>5. a.stake + Rent <= a.lamports
  BY <1>1, <1>4
<1>. QED
  BY <1>1, <1>4, <1>5 DEF Usable, a

LEMMA MergeStakeKeeps ==
    ASSUME SolidoInv, NEW v \in Votes, MergeStake(v)
    PROVE  /\ AccountsInv' /\ BookStep /\ UNCHANGED reserve
           /\ Tracked(validators') = Tracked(validators)
<1>. DEFINE val == validators[v]
            range == val.stake_seeds
            from == range.begin
            to == range.begin + 1
            old == stake_accounts[v]
            a == MergeResult(old[to], old[from])
            mid == [old EXCEPT ![to] = a]
            row == [mid EXCEPT ![from] = EmptyAccount]
            other == unstake_accounts[v]
            st == B!Skip(range, 1)
            b == [val EXCEPT !.stake_seeds = st]
<1>1. AccountsInv /\ B!BooksInv
  BY DEF SolidoInv
<1>2. /\ to < range.end /\ CanMerge(old[to], old[from])
      /\ UNCHANGED <<epoch, reserve, supply, exchange_rate, reward_distribution,
                     unstake_accounts, outside>>
  BY DEF MergeStake
<1>3. /\ val \in Validators /\ old \in Rows /\ other \in Rows
      /\ StakesOrderly(range, old) /\ UnstakesOrderly(val.unstake_seeds, other)
      /\ SeedsOf(range) \in SUBSET Seeds
      /\ range \in SeedRanges /\ range.begin \in Nat /\ range.end \in Nat
  BY <1>1, OfValidator, FieldTypes
<1>4. /\ st \in SeedRanges /\ st.begin = range.begin + 1 /\ st.end = range.end
  <2>. HIDE DEF range
  <2>. QED
    BY <1>3, SkipRange
<1>5. Overwrites(validators, v, b, validators')
  <2>1. [range EXCEPT !.begin = @ + 1] = st
    <3>. HIDE DEF range
    <3>. QED
      BY <1>3 DEF SeedRanges, B!Skip
  <2>2. [val EXCEPT !.stake_seeds.begin = @ + 1] = b
    <3>. HIDE DEF st
    <3>. QED
      BY <1>3, <2>1 DEF Validators
  <2>. HIDE DEF b
  <2>3. validators' = [validators EXCEPT ![v].stake_seeds.begin = @ + 1]
    BY DEF MergeStake
  <2>. QED
    BY <1>1, <2>2, <2>3 DEF Overwrites, AccountsInv, TypeOK
<1>6. /\ b \in Validators /\ b.stake_seeds = st /\ b.unstake_seeds = val.unstake_seeds
      /\ b.stake_accounts_balance = val.stake_accounts_balance
  <2>. HIDE DEF st, val
  <2>. QED
    BY <1>3, <1>4 DEF Validators
<1>7. /\ from \in SeedsOf(range) /\ to \in SeedsOf(range) /\ from # to
      /\ from \in Seeds /\ to \in Seeds
  <2>1. from \in SeedsOf(range) /\ to \in SeedsOf(range) /\ from # to
    BY <1>2, <1>3 DEF SeedsOf
  <2>. QED
    BY <1>3, <2>1
<1>8. Overwrites(stake_accounts, v, row, stake_accounts')
  <2>1. stake_accounts' = [stake_accounts EXCEPT ![v][to] = a, ![v][from] = EmptyAccount]
    BY DEF MergeStake
  <2>2. stake_accounts \in Grids
    BY <1>1, TypesOfGrids DEF AccountsInv
  <2>. HIDE DEF a, to, from
  <2>. QED
    BY <1>7, <2>1, <2>2 DEF Overwrites, Grids, Rows
<1>. HIDE DEF val, range, from, to, old, a, mid, row, other, st, b
<1>9. Usable(old[from]) /\ Usable(old[to])
  BY <1>3, <1>7, AccountInRange
<1>10. /\ Usable(a) /\ a.lamports = old[to].lamports + old[from].lamports
       /\ old[to].lamports \in Nat /\ old[from].lamports \in Nat
  BY <1>2, <1>9, MergeAccounts DEF a
<1>11. /\ Overwrites(old, to, a, mid) /\ Overwrites(mid, from, EmptyAccount, row)
       /\ a \in StakeAccounts /\ EmptyAccount \in StakeAccounts /\ EmptyAccount.lamports = 0
  BY <1>10 DEF Overwrites, mid, row, Usable, EmptyAccount, Undelegated, StakeAccounts, Phases
<1>12. /\ mid \in Rows /\ mid[to] = a
       /\ \A t \in Seeds : t # to => mid[t] = old[t]
       /\ \A R \in SUBSET Seeds :
            SumLamports(mid, R) = IF to \in R
                                  THEN SumLamports(old, R) - old[to].lamports + a.lamports
                                  ELSE SumLamports(old, R)
  BY <1>3, <1>7, <1>11, RowWithAccount
<1>13. /\ row \in Rows /\ row[from] = EmptyAccount
       /\ \A R \in SUBSET Seeds :
            SumLamports(row, R) = IF from \in R
                                  THEN SumLamports(mid, R) - mid[from].lamports + EmptyAccount.lamports
                                  ELSE SumLamports(mid, R)
  BY <1>7, <1>11, <1>12, RowWithAccount
<1>14. StakesOrderly(st, row)
  <2>1. StakesOrderly(range, mid)
    BY <1>3, <1>7, <1>10, <1>11, WriteInRange
  <2>2. Overwrites(mid, range.begin, EmptyAccount, row) /\ range.begin < range.end
    BY <1>2, <1>3, <1>11 DEF from, to
  <2>. QED
    BY <1>3, <1>4, <1>12, <2>1, <2>2, SkipFirst
<1>15. ASSUME NEW R \in SUBSET Seeds, from \in R, to \in R
       PROVE  SumLamports(row, R) = SumLamports(old, R)
  <2>1. SumLamports(old, R) \in Nat
    BY <1>3, LamportsNat
  <2>2. SumLamports(mid, R) = SumLamports(old, R) - old[to].lamports
                                                  + (old[to].lamports + old[from].lamports)
    BY <1>10, <1>12, <1>15
  <2>3. SumLamports(row, R) = SumLamports(mid, R) - old[from].lamports + 0
    BY <1>7, <1>11, <1>12, <1>13, <1>15
  <2>. QED
    BY <1>10, <2>1, <2>2, <2>3
<1>16. /\ SumLamports(row, Seeds) = SumLamports(old, Seeds)
       /\ SumLamports(row, SeedsOf(range)) = SumLamports(old, SeedsOf(range))
  BY <1>3, <1>7, <1>15
<1>17. SumLamports(row, SeedsOf(st)) = SumLamports(old, SeedsOf(range))
  <2>1. SeedsOf(st) = SeedsOf(range) \ {from}
    BY <1>3, <1>4 DEF SeedsOf, from
  <2>2. SumLamports(row, SeedsOf(range)) = SumLamports(row, SeedsOf(st)) + row[from].lamports
    BY <1>3, <1>7, <1>13, <2>1, LamportsOneMore
  <2>3. SumLamports(row, SeedsOf(st)) \in Nat
    <3>1. SeedsOf(st) \in SUBSET Seeds
      BY <1>3, <2>1
    <3>. QED
      BY <1>13, <3>1, LamportsNat
  <2>. QED
    BY <1>11, <1>13, <1>16, <2>2, <2>3
<1>18. Rewrites(v, b, row, other)
  <2>1. reserve' \in Nat /\ outside' \in Nat /\ supply' \in Nat
    BY <1>1, <1>2 DEF AccountsInv, TypeOK
  <2>2. reserve' + outside' + SumLamports(row, Seeds) + SumLamports(other, Seeds)
          = reserve + outside + SumLamports(old, Seeds) + SumLamports(other, Seeds)
    BY <1>2, <1>16
  <2>3. StakesOrderly(b.stake_seeds, row) /\ UnstakesOrderly(b.unstake_seeds, other)
    BY <1>3, <1>6, <1>14
  <2>4. Overwrites(unstake_accounts, v, other, unstake_accounts')
    BY <1>1, <1>2, WriteNothing DEF other
  <2>. QED
    BY <1>2, <1>3, <1>5, <1>6, <1>8, <1>13, <2>1, <2>2, <2>3, <2>4 DEF Rewrites, old, other
<1>19. AccountsInv' /\ TotalsFollow(v, b, row, other)
  BY <1>1, <1>18, OneValidator
<1>20. /\ Staked[v] = SumLamports(old, SeedsOf(range))
       /\ Unstaking[v] = SumLamports(other, SeedsOf(val.unstake_seeds))
       /\ [Staked EXCEPT ![v] = Staked[v]] = Staked
       /\ [Unstaking EXCEPT ![v] = Unstaking[v]] = Unstaking
  BY TotalsOf DEF old, other, val, range
<1>21. UNCHANGED <<Staked, Unstaking>>
  BY <1>6, <1>17, <1>19, <1>20 DEF TotalsFollow
<1>22. B!MergeStake(v)
  <2>1. range.end - range.begin > 1
    BY <1>2, <1>3 DEF to
  <2>2. validators' = [validators EXCEPT ![v].stake_seeds = B!Skip(@, 1)]
    <3>1. b = [validators[v] EXCEPT !.stake_seeds = B!Skip(@, 1)]
      BY DEF b, st, range, val
    <3>. QED
      BY <1>5, <3>1 DEF Overwrites
  <2>. QED
    BY <1>21, <2>1, <2>2 DEF B!MergeStake, B!Width, range, val
<1>23. BookStep
  BY <1>22 DEF BookStep, B!Step
<1>24. Tracked(validators') = Tracked(validators)
  <2>1. Tracked(validators) \in Nat /\ val.stake_accounts_balance \in Nat
    BY <1>1, <1>3, FieldTypes, TrackedNat DEF AccountsInv, TypeOK
  <2>2. Tracked(validators') = Tracked(validators) - val.stake_accounts_balance
                                                   + val.stake_accounts_balance
    BY <1>6, <1>19 DEF TotalsFollow, val
  <2>. QED
    BY <2>1, <2>2
<1>. QED
  BY <1>2, <1>19, <1>23, <1>24

-----------------------------------------------------------------------------
(* Donations *)

Funded(a, amount) == [a EXCEPT !.lamports = @ + amount]

LEMMA FundedAccount ==
    ASSUME NEW a \in StakeAccounts, NEW amount \in Nat
    PROVE  /\ Funded(a, amount) \in StakeAccounts
           /\ Funded(a, amount).lamports = a.lamports + amount
           /\ Funded(a, amount).stake = a.stake
           /\ Funded(a, amount).phase = a.phase
           /\ a.lamports \in Nat /\ a.stake \in Nat
<1>1. a.lamports \in Nat /\ a.stake \in Nat /\ a.lamports + amount \in Nat
  BY DEF StakeAccounts
<1>. QED
  BY <1>1 DEF Funded, StakeAccounts

\* Anybody may fund the accounts of a range and the address at its end.
LEMMA FundStakes ==
    ASSUME NEW range \in SeedRanges, NEW row \in Rows, StakesOrderly(range, row),
           NEW s \in Seeds, s >= range.begin, NEW amount \in Nat,
           NEW new, Overwrites(row, s, Funded(row[s], amount), new)
    PROVE  StakesOrderly(range, new)
<1>1. row[s] \in StakeAccounts /\ range.begin \in Nat /\ s \in Nat /\ Rent \in Nat
  BY SolidoAssumption, RentAssumption DEF Rows, SeedRanges, Seeds
<1>2. /\ new[s].lamports = row[s].lamports + amount /\ new[s].stake = row[s].stake
      /\ new[s].phase = row[s].phase /\ row[s].lamports \in Nat /\ row[s].stake \in Nat
  BY <1>1, FundedAccount DEF Overwrites, Rows
<1>3. \A t \in Seeds : t # s => new[t] = row[t]
  BY DEF Overwrites, Rows
<1>4. ASSUME NEW t \in Seeds
      PROVE  /\ t < range.begin => new[t] = EmptyAccount
             /\ t \in SeedsOf(range) => /\ new[t].phase \in {"activating", "active"}
                                        /\ new[t].stake + Rent <= new[t].lamports
             /\ t >= range.end => new[t].phase = "none"
  <2>1. /\ t < range.begin => row[t] = EmptyAccount
        /\ t \in SeedsOf(range) => /\ row[t].phase \in {"activating", "active"}
                                   /\ row[t].stake + Rent <= row[t].lamports
        /\ t >= range.end => row[t].phase = "none"
    BY DEF StakesOrderly
  <2>2. CASE t = s
    <3>1. ~(t < range.begin)
      BY <1>1, <2>2
    <3>2. row[s].stake + Rent <= row[s].lamports => new[s].stake + Rent <= new[s].lamports
      BY <1>1, <1>2
    <3>. QED
      BY <1>2, <2>1, <2>2, <3>1, <3>2
  <2>3. CASE t # s
    BY <1>3, <2>1, <2>3
  <2>. QED
    BY <2>2, <2>3
<1>. QED
  BY <1>4 DEF StakesOrderly

LEMMA FundUnstakes ==
    ASSUME NEW range \in SeedRanges, NEW row \in Rows, UnstakesOrderly(range, row),
           NEW s \in Seeds, s >= range.begin, NEW amount \in Nat,
           NEW new, Overwrites(row, s, Funded(row[s], amount), new)
    PROVE  UnstakesOrderly(range, new)
<1>1. row[s] \in StakeAccounts /\ range.begin \in Nat /\ s \in Nat
  BY SolidoAssumption DEF Rows, SeedRanges, Seeds
<1>2. new[s].phase = row[s].phase
  BY <1>1, FundedAccount DEF Overwrites, Rows
<1>3. \A t \in Seeds : t # s => new[t] = row[t]
  BY DEF Overwrites, Rows
<1>4. ASSUME NEW t \in Seeds
      PROVE  /\ t < range.begin => new[t] = EmptyAccount
             /\ t \in SeedsOf(range) => new[t].phase \in {"deactivating", "inactive"}
             /\ t >= range.end => new[t].phase = "none"
  <2>1. /\ t < range.begin => row[t] = EmptyAccount
        /\ t \in SeedsOf(range) => row[t].phase \in {"deactivating", "inactive"}
        /\ t >= range.end => row[t].phase = "none"
    BY DEF UnstakesOrderly
  <2>2. CASE t = s
    <3>1. ~(t < range.begin)
      BY <1>1, <2>2
    <3>. QED
      BY <1>2, <2>1, <2>2, <3>1
  <2>3. CASE t # s
    BY <1>3, <2>1, <2>3
  <2>. QED
    BY <2>2, <2>3
<1>. QED
  BY <1>4 DEF UnstakesOrderly

\* One validator receives something: x in its stake accounts, y in the others.
LEMMA ReceiveOne ==
    ASSUME AccountsInv, NEW v \in Votes, NEW x \in 0..TotalSol, NEW y \in 0..TotalSol,
           validators[v].stake_seeds.begin = validators[v].stake_seeds.end => x = 0,
           validators[v].unstake_seeds.begin = validators[v].unstake_seeds.end => y = 0,
           UNCHANGED validators,
           Overwrites(Staked, v, Staked[v] + x, Staked'),
           Overwrites(Unstaking, v, Unstaking[v] + y, Unstaking')
    PROVE  BookStep
<1>. DEFINE gain == [w \in Votes |-> IF w = v THEN x ELSE 0]
            gainUn == [w \in Votes |-> IF w = v THEN y ELSE 0]
<1>1. gain \in [Votes -> 0..TotalSol] /\ gainUn \in [Votes -> 0..TotalSol]
  BY SolidoAssumption
<1>2. \A w \in Votes : Staked[w] \in Nat /\ Unstaking[w] \in Nat
  BY HeldFits DEF Fits
<1>3. Staked = [w \in Votes |-> Staked[w]] /\ Unstaking = [w \in Votes |-> Unstaking[w]]
  BY DEF Staked, Unstaking
<1>4. Staked' = [w \in Votes |-> Staked[w] + gain[w]]
  BY <1>2, <1>3 DEF Overwrites
<1>5. Unstaking' = [w \in Votes |-> Unstaking[w] + gainUn[w]]
  BY <1>2, <1>3 DEF Overwrites
<1>6. \A w \in Votes :
         /\ validators[w].stake_seeds.end - validators[w].stake_seeds.begin = 0 => gain[w] = 0
         /\ validators[w].unstake_seeds.end - validators[w].unstake_seeds.begin = 0 => gainUn[w] = 0
  <2>1. validators[v] \in Validators
    BY OfValidator
  <2>2. /\ validators[v].stake_seeds.begin \in Nat /\ validators[v].stake_seeds.end \in Nat
        /\ validators[v].unstake_seeds.begin \in Nat /\ validators[v].unstake_seeds.end \in Nat
    BY <2>1, FieldTypes
  <2>3. /\ validators[v].stake_seeds.end - validators[v].stake_seeds.begin = 0 => x = 0
        /\ validators[v].unstake_seeds.end - validators[v].unstake_seeds.begin = 0 => y = 0
    BY <2>2
  <2>. QED
    BY <2>3
<1>. HIDE DEF gain, gainUn
<1>7. B!Receive(gain, gainUn)
  BY <1>4, <1>5, <1>6 DEF B!Receive, B!Width
<1>. QED
  BY <1>1, <1>7 DEF BookStep, B!Step

LEMMA DonateToStakeKeeps ==
    ASSUME SolidoInv, NEW v \in Votes, NEW seed \in Seeds, NEW amount \in DonationAmounts,
           DonateToStake(v, seed, amount)
    PROVE  AccountsInv' /\ BookStep /\ UNCHANGED <<reserve, validators>>
<1>. DEFINE val == validators[v]
            range == val.stake_seeds
            old == stake_accounts[v]
            a == Funded(old[seed], amount)
            row == [old EXCEPT ![seed] = a]
            other == unstake_accounts[v]
<1>1. AccountsInv /\ B!BooksInv
  BY DEF SolidoInv
<1>2. /\ amount \in Nat /\ amount <= outside
      /\ reserve \in Nat /\ outside \in Nat /\ supply \in Nat
      /\ outside' = outside - amount
      /\ seed \in range.begin .. range.end
      /\ UNCHANGED <<epoch, reserve, supply, exchange_rate, reward_distribution,
                     validators, unstake_accounts>>
  BY <1>1, SolidoAssumption DEF DonateToStake, AccountsInv, TypeOK
<1>3. /\ val \in Validators /\ old \in Rows /\ other \in Rows
      /\ StakesOrderly(range, old) /\ UnstakesOrderly(val.unstake_seeds, other)
      /\ SeedsOf(range) \in SUBSET Seeds
      /\ range \in SeedRanges /\ range.begin \in Nat /\ range.end \in Nat
  BY <1>1, OfValidator, FieldTypes
<1>4. stake_accounts \in Grids /\ Overwrites(stake_accounts, v, row, stake_accounts')
  <2>1. stake_accounts \in Grids
    BY <1>1, TypesOfGrids DEF AccountsInv
  <2>2. stake_accounts' = [stake_accounts EXCEPT ![v][seed].lamports = @ + amount]
    BY DEF DonateToStake
  <2>. QED
    BY <2>1, <2>2 DEF Overwrites, Funded, Grids, Rows
<1>. HIDE DEF val, range, old, a, row, other
<1>5. old[seed] \in StakeAccounts
  BY <1>3 DEF Rows
<1>6. a \in StakeAccounts /\ a.lamports = old[seed].lamports + amount /\ old[seed].lamports \in Nat
  BY <1>2, <1>5, FundedAccount DEF a
<1>7. Overwrites(old, seed, a, row)
  BY DEF Overwrites, row
<1>8. /\ row \in Rows
      /\ \A R \in SUBSET Seeds :
            SumLamports(row, R) = IF seed \in R
                                  THEN SumLamports(old, R) - old[seed].lamports + a.lamports
                                  ELSE SumLamports(old, R)
  BY <1>3, <1>6, <1>7, RowWithAccount
<1>9. StakesOrderly(range, row)
  <2>1. Overwrites(old, seed, Funded(old[seed], amount), row) /\ seed >= range.begin
    BY <1>2, <1>3, <1>7 DEF a
  <2>. QED
    BY <1>2, <1>3, <2>1, FundStakes
<1>10. /\ SumLamports(old, Seeds) \in Nat /\ SumLamports(other, Seeds) \in Nat
       /\ SumLamports(old, SeedsOf(range)) \in Nat
  BY <1>3, LamportsNat
<1>11. /\ SumLamports(row, Seeds) = SumLamports(old, Seeds) + amount
       /\ seed \in SeedsOf(range)
            => SumLamports(row, SeedsOf(range)) = SumLamports(old, SeedsOf(range)) + amount
       /\ seed \notin SeedsOf(range)
            => SumLamports(row, SeedsOf(range)) = SumLamports(old, SeedsOf(range))
  <2>1. /\ SumLamports(row, Seeds)
             = SumLamports(old, Seeds) - old[seed].lamports + (old[seed].lamports + amount)
        /\ seed \in SeedsOf(range)
             => SumLamports(row, SeedsOf(range)) = SumLamports(old, SeedsOf(range))
                                - old[seed].lamports + (old[seed].lamports + amount)
        /\ seed \notin SeedsOf(range)
             => SumLamports(row, SeedsOf(range)) = SumLamports(old, SeedsOf(range))
    BY <1>3, <1>6, <1>8
  <2>. QED
    BY <1>2, <1>6, <1>10, <2>1
<1>12. Rewrites(v, val, row, other)
  <2>1. reserve' \in Nat /\ outside' \in Nat /\ supply' \in Nat
    BY <1>2
  <2>2. reserve' + outside' + SumLamports(row, Seeds) + SumLamports(other, Seeds)
          = reserve + outside + SumLamports(old, Seeds) + SumLamports(other, Seeds)
    BY <1>2, <1>10, <1>11
  <2>3. /\ Overwrites(validators, v, val, validators')
        /\ Overwrites(unstake_accounts, v, other, unstake_accounts')
    BY <1>1, <1>2, WriteNothing DEF val, other
  <2>4. StakesOrderly(val.stake_seeds, row)
    BY <1>9 DEF range
  <2>. QED
    BY <1>2, <1>3, <1>4, <1>8, <2>1, <2>2, <2>3, <2>4 DEF Rewrites, old, other
<1>13. AccountsInv' /\ TotalsFollow(v, val, row, other)
  BY <1>1, <1>12, OneValidator
<1>14. /\ Staked[v] = SumLamports(old, SeedsOf(range)) /\ Staked[v] \in Nat
       /\ Unstaking[v] = SumLamports(other, SeedsOf(val.unstake_seeds)) /\ Unstaking[v] \in Nat
       /\ [Staked EXCEPT ![v] = Staked[v]] = Staked
       /\ [Unstaking EXCEPT ![v] = Unstaking[v]] = Unstaking
  BY <1>1, TotalsOf, HeldFits DEF old, other, val, range, Fits
<1>15. UNCHANGED Unstaking
  BY <1>13, <1>14 DEF TotalsFollow
<1>16. CASE seed \in SeedsOf(range)
  <2>1. Overwrites(Staked, v, Staked[v] + amount, Staked')
    BY <1>11, <1>13, <1>14, <1>16 DEF TotalsFollow, Overwrites, range
  <2>2. Overwrites(Unstaking, v, Unstaking[v] + 0, Unstaking')
    BY <1>14, <1>15 DEF Overwrites
  <2>3. range.begin # range.end
    BY <1>3, <1>16 DEF SeedsOf
  <2>4. amount \in 0..TotalSol /\ 0 \in 0..TotalSol
    BY <1>1, <1>2, WithinTotal, SolidoAssumption
  <2>5. BookStep
    BY <1>1, <1>2, <2>1, <2>2, <2>3, <2>4, ReceiveOne DEF range, val
  <2>. QED
    BY <1>2, <1>13, <2>5
<1>17. CASE seed \notin SeedsOf(range)
  <2>1. UNCHANGED Staked
    BY <1>11, <1>13, <1>14, <1>17 DEF TotalsFollow, range
  <2>. QED
    BY <1>2, <1>13, <1>15, <2>1 DEF BookStep
<1>. QED
  BY <1>16, <1>17

LEMMA DonateToUnstakeKeeps ==
    ASSUME SolidoInv, NEW v \in Votes, NEW seed \in Seeds, NEW amount \in DonationAmounts,
           DonateToUnstake(v, seed, amount)
    PROVE  AccountsInv' /\ BookStep /\ UNCHANGED <<reserve, validators>>
<1>. DEFINE val == validators[v]
            range == val.unstake_seeds
            old == unstake_accounts[v]
            a == Funded(old[seed], amount)
            row == [old EXCEPT ![seed] = a]
            other == stake_accounts[v]
<1>1. AccountsInv /\ B!BooksInv
  BY DEF SolidoInv
<1>2. /\ amount \in Nat /\ amount <= outside
      /\ reserve \in Nat /\ outside \in Nat /\ supply \in Nat
      /\ outside' = outside - amount
      /\ seed \in range.begin .. range.end
      /\ UNCHANGED <<epoch, reserve, supply, exchange_rate, reward_distribution,
                     validators, stake_accounts>>
  BY <1>1, SolidoAssumption DEF DonateToUnstake, AccountsInv, TypeOK
<1>3. /\ val \in Validators /\ old \in Rows /\ other \in Rows
      /\ UnstakesOrderly(range, old) /\ StakesOrderly(val.stake_seeds, other)
      /\ SeedsOf(range) \in SUBSET Seeds
      /\ range \in SeedRanges /\ range.begin \in Nat /\ range.end \in Nat
  BY <1>1, OfValidator, FieldTypes
<1>4. unstake_accounts \in Grids /\ Overwrites(unstake_accounts, v, row, unstake_accounts')
  <2>1. unstake_accounts \in Grids
    BY <1>1, TypesOfGrids DEF AccountsInv
  <2>2. unstake_accounts' = [unstake_accounts EXCEPT ![v][seed].lamports = @ + amount]
    BY DEF DonateToUnstake
  <2>. QED
    BY <2>1, <2>2 DEF Overwrites, Funded, Grids, Rows
<1>. HIDE DEF val, range, old, a, row, other
<1>5. old[seed] \in StakeAccounts
  BY <1>3 DEF Rows
<1>6. a \in StakeAccounts /\ a.lamports = old[seed].lamports + amount /\ old[seed].lamports \in Nat
  BY <1>2, <1>5, FundedAccount DEF a
<1>7. Overwrites(old, seed, a, row)
  BY DEF Overwrites, row
<1>8. /\ row \in Rows
      /\ \A R \in SUBSET Seeds :
            SumLamports(row, R) = IF seed \in R
                                  THEN SumLamports(old, R) - old[seed].lamports + a.lamports
                                  ELSE SumLamports(old, R)
  BY <1>3, <1>6, <1>7, RowWithAccount
<1>9. UnstakesOrderly(range, row)
  <2>1. Overwrites(old, seed, Funded(old[seed], amount), row) /\ seed >= range.begin
    BY <1>2, <1>3, <1>7 DEF a
  <2>. QED
    BY <1>2, <1>3, <2>1, FundUnstakes
<1>10. /\ SumLamports(old, Seeds) \in Nat /\ SumLamports(other, Seeds) \in Nat
       /\ SumLamports(old, SeedsOf(range)) \in Nat
  BY <1>3, LamportsNat
<1>11. /\ SumLamports(row, Seeds) = SumLamports(old, Seeds) + amount
       /\ seed \in SeedsOf(range)
            => SumLamports(row, SeedsOf(range)) = SumLamports(old, SeedsOf(range)) + amount
       /\ seed \notin SeedsOf(range)
            => SumLamports(row, SeedsOf(range)) = SumLamports(old, SeedsOf(range))
  <2>1. /\ SumLamports(row, Seeds)
             = SumLamports(old, Seeds) - old[seed].lamports + (old[seed].lamports + amount)
        /\ seed \in SeedsOf(range)
             => SumLamports(row, SeedsOf(range)) = SumLamports(old, SeedsOf(range))
                                - old[seed].lamports + (old[seed].lamports + amount)
        /\ seed \notin SeedsOf(range)
             => SumLamports(row, SeedsOf(range)) = SumLamports(old, SeedsOf(range))
    BY <1>3, <1>6, <1>8
  <2>. QED
    BY <1>2, <1>6, <1>10, <2>1
<1>12. Rewrites(v, val, other, row)
  <2>1. reserve' \in Nat /\ outside' \in Nat /\ supply' \in Nat
    BY <1>2
  <2>2. reserve' + outside' + SumLamports(other, Seeds) + SumLamports(row, Seeds)
          = reserve + outside + SumLamports(other, Seeds) + SumLamports(old, Seeds)
    BY <1>2, <1>10, <1>11
  <2>3. /\ Overwrites(validators, v, val, validators')
        /\ Overwrites(stake_accounts, v, other, stake_accounts')
    BY <1>1, <1>2, WriteNothing DEF val, other
  <2>4. UnstakesOrderly(val.unstake_seeds, row)
    BY <1>9 DEF range
  <2>. QED
    BY <1>2, <1>3, <1>4, <1>8, <2>1, <2>2, <2>3, <2>4 DEF Rewrites, old, other
<1>13. AccountsInv' /\ TotalsFollow(v, val, other, row)
  BY <1>1, <1>12, OneValidator
<1>14. /\ Unstaking[v] = SumLamports(old, SeedsOf(range)) /\ Staked[v] \in Nat
       /\ Staked[v] = SumLamports(other, SeedsOf(val.stake_seeds)) /\ Unstaking[v] \in Nat
       /\ [Staked EXCEPT ![v] = Staked[v]] = Staked
       /\ [Unstaking EXCEPT ![v] = Unstaking[v]] = Unstaking
  BY <1>1, TotalsOf, HeldFits DEF old, other, val, range, Fits
<1>15. UNCHANGED Staked
  BY <1>13, <1>14 DEF TotalsFollow
<1>16. CASE seed \in SeedsOf(range)
  <2>1. Overwrites(Unstaking, v, Unstaking[v] + amount, Unstaking')
    BY <1>11, <1>13, <1>14, <1>16 DEF TotalsFollow, Overwrites, range
  <2>2. Overwrites(Staked, v, Staked[v] + 0, Staked')
    BY <1>14, <1>15 DEF Overwrites
  <2>3. range.begin # range.end
    BY <1>3, <1>16 DEF SeedsOf
  <2>4. amount \in 0..TotalSol /\ 0 \in 0..TotalSol
    BY <1>1, <1>2, WithinTotal, SolidoAssumption
  <2>5. BookStep
    BY <1>1, <1>2, <2>1, <2>2, <2>3, <2>4, ReceiveOne DEF range, val
  <2>. QED
    BY <1>2, <1>13, <2>5
<1>17. CASE seed \notin SeedsOf(range)
  <2>1. UNCHANGED Unstaking
    BY <1>11, <1>13, <1>14, <1>17 DEF TotalsFollow, range
  <2>. QED
    BY <1>2, <1>13, <1>15, <2>1 DEF BookStep
<1>. QED
  BY <1>16, <1>17

-----------------------------------------------------------------------------
(* NextEpoch *)

\* What an epoch does to an account.
LEMMA AgedAccount ==
    ASSUME NEW a \in StakeAccounts, NEW r \in Nat, NEW late \in BOOLEAN
    PROVE  LET n == AgePhase(Reward(a, r), late)
           IN  /\ n \in StakeAccounts
               /\ n.lamports = a.lamports + IF IsEffective(a) THEN r ELSE 0
               /\ a.phase = "none" => n = a
               /\ a.phase \in {"activating", "active"} => n.phase \in {"activating", "active"}
               /\ a.phase \in {"deactivating", "inactive"} => n.phase \in {"deactivating", "inactive"}
               /\ a.stake + Rent <= a.lamports => n.stake + Rent <= n.lamports
<1>. DEFINE p == Reward(a, r)
            n == AgePhase(p, late)
            gain == IF IsEffective(a) THEN r ELSE 0
            ph == CASE p.phase = "activating" -> "active"
                    [] p.phase = "deactivating" /\ ~late -> "inactive"
                    [] OTHER -> p.phase
<1>1. /\ a.lamports \in Nat /\ a.stake \in Nat /\ a.phase \in Phases /\ gain \in Nat /\ Rent \in Nat
      /\ a.lamports + gain \in Nat /\ a.stake + gain \in Nat
  BY RentAssumption DEF StakeAccounts
<1>2. /\ p \in StakeAccounts /\ p.lamports = a.lamports + gain /\ p.stake = a.stake + gain
      /\ p.phase = a.phase /\ (a.phase = "none" => p = a)
  <2>1. CASE IsEffective(a)
    <3>1. p = [a EXCEPT !.lamports = @ + r, !.stake = @ + r] /\ gain = r /\ a.phase # "none"
      BY <2>1 DEF Reward, IsEffective
    <3>. QED
      BY <1>1, <3>1 DEF StakeAccounts
  <2>2. CASE ~IsEffective(a)
    <3>1. p = a /\ gain = 0
      BY <2>2 DEF Reward
    <3>. QED
      BY <1>1, <3>1
  <2>. QED
    BY <2>1, <2>2
<1>3. n = [p EXCEPT !.phase = ph]
  BY DEF AgePhase
<1>. HIDE DEF p, gain
<1>4. /\ ph \in Phases
      /\ p.phase = "none" => ph = "none"
      /\ p.phase \in {"activating", "active"} => ph \in {"activating", "active"}
      /\ p.phase \in {"deactivating", "inactive"} => ph \in {"deactivating", "inactive"}
  BY <1>1, <1>2 DEF Phases
<1>. HIDE DEF ph, n
<1>5. /\ n \in StakeAccounts /\ n.lamports = p.lamports /\ n.stake = p.stake /\ n.phase = ph
  BY <1>2, <1>3, <1>4 DEF StakeAccounts
<1>6. a.phase = "none" => n = a
  <2>. SUFFICES ASSUME a.phase = "none"
                PROVE  n = a
    OBVIOUS
  <2>1. p = a /\ ph = "none"
    BY <1>2, <1>4
  <2>. QED
    BY <1>5, <2>1 DEF StakeAccounts
<1>7. a.stake + Rent <= a.lamports => n.stake + Rent <= n.lamports
  BY <1>1, <1>2, <1>5
<1>. QED
  BY <1>2, <1>4, <1>5, <1>6, <1>7 DEF n, p, gain

\* What an epoch does to the accounts of a validator.
Ages(row, r, new) ==
    /\ new = [s \in Seeds |-> new[s]]
    /\ \A s \in Seeds : \E late \in BOOLEAN : new[s] = AgePhase(Reward(row[s], r), late)

Gains(row, r) == [s \in Seeds |-> IF IsEffective(row[s]) THEN r ELSE 0]

LEMMA AgedRow ==
    ASSUME NEW row \in Rows, NEW r \in Nat, NEW new, Ages(row, r, new)
    PROVE  /\ new \in Rows
           /\ \A range \in SeedRanges : StakesOrderly(range, row) => StakesOrderly(range, new)
           /\ \A range \in SeedRanges : UnstakesOrderly(range, row) => UnstakesOrderly(range, new)
           /\ \A R \in SUBSET Seeds :
                 /\ SumFunctionOnSet(Gains(row, r), R) \in Nat
                 /\ SumLamports(new, R) = SumLamports(row, R) + SumFunctionOnSet(Gains(row, r), R)
           /\ Earned(row, r) \in Nat
           /\ SumLamports(new, Seeds) = SumLamports(row, Seeds) + Earned(row, r)
<1>1. ASSUME NEW s \in Seeds
      PROVE  /\ new[s] \in StakeAccounts
             /\ new[s].lamports = row[s].lamports + IF IsEffective(row[s]) THEN r ELSE 0
             /\ row[s].phase = "none" => new[s] = row[s]
             /\ row[s].phase \in {"activating", "active"} => new[s].phase \in {"activating", "active"}
             /\ row[s].phase \in {"deactivating", "inactive"}
                  => new[s].phase \in {"deactivating", "inactive"}
             /\ row[s].stake + Rent <= row[s].lamports => new[s].stake + Rent <= new[s].lamports
  <2>1. PICK late \in BOOLEAN : new[s] = AgePhase(Reward(row[s], r), late)
    BY DEF Ages
  <2>2. row[s] \in StakeAccounts
    BY DEF Rows
  <2>. QED
    BY <2>1, <2>2, AgedAccount
<1>2. new \in Rows
  <2>1. new = [s \in Seeds |-> new[s]]
    BY DEF Ages
  <2>. QED
    BY <1>1, <2>1 DEF Rows
<1>3. EmptyAccount.phase = "none"
  BY DEF EmptyAccount, Undelegated
<1>4. ASSUME NEW range \in SeedRanges, StakesOrderly(range, row)
      PROVE  StakesOrderly(range, new)
  BY <1>1, <1>3, <1>4 DEF StakesOrderly
<1>5. ASSUME NEW range \in SeedRanges, UnstakesOrderly(range, row)
      PROVE  UnstakesOrderly(range, new)
  BY <1>1, <1>3, <1>5 DEF UnstakesOrderly
<1>. DEFINE gain == Gains(row, r)
<1>6. ASSUME NEW R \in SUBSET Seeds
      PROVE  /\ SumFunctionOnSet(gain, R) \in Nat
             /\ SumLamports(new, R) = SumLamports(row, R) + SumFunctionOnSet(gain, R)
  <2>1. \A s \in R : /\ gain[s] \in Nat /\ gain[s] \in Int
                     /\ new[s].lamports = row[s].lamports + gain[s]
    BY <1>1 DEF Gains
  <2>2. IsFiniteSet(R)
    BY SeedsFinite
  <2>. HIDE DEF gain
  <2>3. SumFunctionOnSet(gain, R) \in Nat
    BY <2>1, <2>2, SumIsNat
  <2>4. SumLamports(new, R) = SumLamports(row, R) + SumFunctionOnSet(gain, R)
    BY <1>2, <2>1, LamportsWithGains
  <2>. QED
    BY <2>3, <2>4
<1>7. Earned(row, r) = SumFunctionOnSet(gain, Seeds)
  BY DEF Earned, Gains
<1>. HIDE DEF gain
<1>8. Earned(row, r) \in Nat /\ SumLamports(new, Seeds) = SumLamports(row, Seeds) + Earned(row, r)
  BY <1>6, <1>7
<1>. QED
  BY <1>2, <1>4, <1>5, <1>6, <1>8 DEF gain

LEMMA NextEpochKeeps ==
    ASSUME SolidoInv, NEW reward \in [Votes -> Rewards], NEW late \in LateSets,
           NextEpoch(reward, late)
    PROVE  AccountsInv' /\ BookStep /\ UNCHANGED <<reserve, validators>>
<1>. DEFINE f == [v \in Votes |-> Earned(stake_accounts[v], reward[v])]
            g == [v \in Votes |-> Earned(unstake_accounts[v], reward[v])]
            h == [v \in Votes |-> Earned(stake_accounts[v], reward[v])
                                    + Earned(unstake_accounts[v], reward[v])]
            total == SumFunctionOnSet(h, Votes)
<1>1. AccountsInv /\ B!BooksInv
  BY DEF SolidoInv
<1>2. /\ total <= outside /\ epoch' = epoch + 1 /\ outside' = outside - total
      /\ UNCHANGED <<reserve, supply, exchange_rate, reward_distribution, validators>>
  BY DEF NextEpoch
<1>3. \A v \in Votes : reward[v] \in Nat
  BY SolidoAssumption
<1>4. stake_accounts \in Grids /\ unstake_accounts \in Grids
  BY <1>1, TypesOfGrids DEF AccountsInv
<1>5. /\ stake_accounts' = [v \in Votes |-> [s \in Seeds |->
            AgePhase(Reward(stake_accounts[v][s], reward[v]), FALSE)]]
      /\ unstake_accounts' = [v \in Votes |-> [s \in Seeds |->
            AgePhase(Reward(unstake_accounts[v][s], reward[v]), <<v, s>> \in late)]]
  BY DEF NextEpoch
<1>6. ASSUME NEW v \in Votes
      PROVE  /\ Ages(stake_accounts[v], reward[v], stake_accounts'[v])
             /\ Ages(unstake_accounts[v], reward[v], unstake_accounts'[v])
  <2>1. /\ stake_accounts'[v] = [s \in Seeds |->
              AgePhase(Reward(stake_accounts[v][s], reward[v]), FALSE)]
        /\ unstake_accounts'[v] = [s \in Seeds |->
              AgePhase(Reward(unstake_accounts[v][s], reward[v]), <<v, s>> \in late)]
    BY <1>5
  <2>2. Ages(stake_accounts[v], reward[v], stake_accounts'[v])
    BY <2>1 DEF Ages
  <2>3. Ages(unstake_accounts[v], reward[v], unstake_accounts'[v])
    <3>1. \A s \in Seeds : (<<v, s>> \in late) \in BOOLEAN
      OBVIOUS
    <3>. QED
      BY <2>1, <3>1 DEF Ages
  <2>. QED
    BY <2>2, <2>3
<1>7. ASSUME NEW v \in Votes
      PROVE  /\ stake_accounts[v] \in Rows /\ stake_accounts'[v] \in Rows
             /\ Earned(stake_accounts[v], reward[v]) \in Nat
             /\ SumLamports(stake_accounts'[v], Seeds)
                  = SumLamports(stake_accounts[v], Seeds) + Earned(stake_accounts[v], reward[v])
             /\ StakesOrderly(validators[v].stake_seeds, stake_accounts'[v])
             /\ \A R \in SUBSET Seeds :
                   \E x \in Nat : SumLamports(stake_accounts'[v], R) = SumLamports(stake_accounts[v], R) + x
  <2>. DEFINE row == stake_accounts[v]
              new == stake_accounts'[v]
              r == reward[v]
  <2>1. /\ row \in Rows /\ r \in Nat /\ Ages(row, r, new)
        /\ StakesOrderly(validators[v].stake_seeds, row)
        /\ validators[v].stake_seeds \in SeedRanges
    BY <1>1, <1>3, <1>6, OfValidator
  <2>. HIDE DEF row, new, r
  <2>2. /\ new \in Rows
        /\ \A range \in SeedRanges : StakesOrderly(range, row) => StakesOrderly(range, new)
        /\ \A R \in SUBSET Seeds :
              /\ SumFunctionOnSet(Gains(row, r), R) \in Nat
              /\ SumLamports(new, R) = SumLamports(row, R) + SumFunctionOnSet(Gains(row, r), R)
        /\ Earned(row, r) \in Nat
        /\ SumLamports(new, Seeds) = SumLamports(row, Seeds) + Earned(row, r)
    BY <2>1, AgedRow
  <2>. QED
    BY <2>1, <2>2 DEF row, new, r
<1>8. ASSUME NEW v \in Votes
      PROVE  /\ unstake_accounts[v] \in Rows /\ unstake_accounts'[v] \in Rows
             /\ Earned(unstake_accounts[v], reward[v]) \in Nat
             /\ SumLamports(unstake_accounts'[v], Seeds)
                  = SumLamports(unstake_accounts[v], Seeds) + Earned(unstake_accounts[v], reward[v])
             /\ UnstakesOrderly(validators[v].unstake_seeds, unstake_accounts'[v])
             /\ \A R \in SUBSET Seeds :
                   \E x \in Nat : SumLamports(unstake_accounts'[v], R)
                                    = SumLamports(unstake_accounts[v], R) + x
  <2>. DEFINE row == unstake_accounts[v]
              new == unstake_accounts'[v]
              r == reward[v]
  <2>1. /\ row \in Rows /\ r \in Nat /\ Ages(row, r, new)
        /\ UnstakesOrderly(validators[v].unstake_seeds, row)
        /\ validators[v].unstake_seeds \in SeedRanges
    BY <1>1, <1>3, <1>6, OfValidator
  <2>. HIDE DEF row, new, r
  <2>2. /\ new \in Rows
        /\ \A range \in SeedRanges : UnstakesOrderly(range, row) => UnstakesOrderly(range, new)
        /\ \A R \in SUBSET Seeds :
              /\ SumFunctionOnSet(Gains(row, r), R) \in Nat
              /\ SumLamports(new, R) = SumLamports(row, R) + SumFunctionOnSet(Gains(row, r), R)
        /\ Earned(row, r) \in Nat
        /\ SumLamports(new, Seeds) = SumLamports(row, Seeds) + Earned(row, r)
    BY <2>1, AgedRow
  <2>. QED
    BY <2>1, <2>2 DEF row, new, r
<1>9. /\ stake_accounts' \in Grids /\ unstake_accounts' \in Grids
  <2>1. /\ stake_accounts' = [v \in Votes |-> stake_accounts'[v]]
        /\ unstake_accounts' = [v \in Votes |-> unstake_accounts'[v]]
    BY <1>5
  <2>. QED
    BY <1>7, <1>8, <2>1 DEF Grids
<1>10. /\ \A v \in Votes : f[v] \in Nat /\ g[v] \in Nat /\ h[v] = f[v] + g[v]
       /\ \A v \in Votes :
            /\ SumLamports(stake_accounts'[v], Seeds) = SumLamports(stake_accounts[v], Seeds) + f[v]
            /\ SumLamports(unstake_accounts'[v], Seeds) = SumLamports(unstake_accounts[v], Seeds) + g[v]
  BY <1>7, <1>8
<1>. HIDE DEF f, g, h
<1>11. /\ Total(stake_accounts') = Total(stake_accounts) + SumFunctionOnSet(f, Votes)
       /\ Total(unstake_accounts') = Total(unstake_accounts) + SumFunctionOnSet(g, Votes)
       /\ SumFunctionOnSet(f, Votes) \in Nat /\ SumFunctionOnSet(g, Votes) \in Nat
       /\ SumFunctionOnSet(h, Votes) = SumFunctionOnSet(f, Votes) + SumFunctionOnSet(g, Votes)
  <2>1. \A v \in Votes : f[v] \in Int /\ g[v] \in Int /\ h[v] = f[v] + g[v]
    BY <1>10
  <2>2. IsFiniteSet(Votes)
    BY SolidoAssumption
  <2>3. SumFunctionOnSet(f, Votes) \in Nat /\ SumFunctionOnSet(g, Votes) \in Nat
    BY <1>10, <2>2, SumIsNat
  <2>4. SumFunctionOnSet(h, Votes) = SumFunctionOnSet(f, Votes) + SumFunctionOnSet(g, Votes)
    BY <2>1, <2>2, SumAdds
  <2>5. Total(stake_accounts') = Total(stake_accounts) + SumFunctionOnSet(f, Votes)
    BY <1>4, <1>9, <1>10, <2>1, TotalWithGains
  <2>6. Total(unstake_accounts') = Total(unstake_accounts) + SumFunctionOnSet(g, Votes)
    BY <1>4, <1>9, <1>10, <2>1, TotalWithGains
  <2>. QED
    BY <2>3, <2>4, <2>5, <2>6
<1>12. /\ reserve \in Nat /\ outside \in Nat /\ outside' \in Nat /\ epoch' \in Nat
  BY <1>1, <1>2, <1>11 DEF AccountsInv, TypeOK
<1>13. TypeOK'
  BY <1>1, <1>2, <1>9, <1>12 DEF AccountsInv, TypeOK, Grids, Rows
<1>14. AccountsAreOrderly'
  <2>. SUFFICES ASSUME NEW v \in Votes
                PROVE  /\ StakesOrderly(validators'[v].stake_seeds, stake_accounts'[v])
                       /\ UnstakesOrderly(validators'[v].unstake_seeds, unstake_accounts'[v])
    BY DEF AccountsAreOrderly, StakesOrderly, UnstakesOrderly
  <2>. QED
    BY <1>2, <1>7, <1>8
<1>15. SolIsConserved'
  <2>. DEFINE A == Total(stake_accounts)
              C == Total(unstake_accounts)
              x == SumFunctionOnSet(f, Votes)
              y == SumFunctionOnSet(g, Votes)
              o == outside'
  <2>1. A \in Nat /\ C \in Nat /\ x \in Nat /\ y \in Nat /\ o = outside - (x + y)
    BY <1>2, <1>4, <1>11, TotalNat
  <2>2. reserve + outside + A + C = TotalSol
    BY <1>1 DEF AccountsInv, SolIsConserved
  <2>3. Total(stake_accounts') = A + x /\ Total(unstake_accounts') = C + y
    BY <1>11
  <2>. HIDE DEF A, C, x, y, o
  <2>4. reserve + o + (A + x) + (C + y) = TotalSol
    BY <1>12, <2>1, <2>2
  <2>5. reserve' + outside' + Total(stake_accounts') + Total(unstake_accounts') = TotalSol
    BY <1>2, <2>3, <2>4 DEF o
  <2>. QED
    BY <2>5 DEF SolIsConserved, Total, SumLamports, Seeds
<1>16. AccountsInv'
  BY <1>13, <1>14, <1>15 DEF AccountsInv
<1>. DEFINE gain == [v \in Votes |-> Staked'[v] - Staked[v]]
            gainUn == [v \in Votes |-> Unstaking'[v] - Unstaking[v]]
<1>17. ASSUME NEW v \in Votes
       PROVE  /\ gain[v] \in 0..TotalSol /\ gainUn[v] \in 0..TotalSol
              /\ Staked'[v] = Staked[v] + gain[v] /\ Unstaking'[v] = Unstaking[v] + gainUn[v]
  <2>1. /\ Staked[v] \in Nat /\ Unstaking[v] \in Nat
        /\ Staked'[v] \in Nat /\ Unstaking'[v] \in Nat
        /\ Staked'[v] + Unstaking'[v] <= TotalSol
    BY <1>1, <1>16, HeldFits, HeldFitsNext DEF Fits
  <2>. DEFINE R == SeedsOf(validators[v].stake_seeds)
              U == SeedsOf(validators[v].unstake_seeds)
  <2>2. R \in SUBSET Seeds /\ U \in SUBSET Seeds
    BY <1>1, OfValidator
  <2>3. /\ Staked[v] = SumLamports(stake_accounts[v], R)
        /\ Unstaking[v] = SumLamports(unstake_accounts[v], U)
    BY TotalsOf
  <2>4. /\ Staked'[v] = SumLamports(stake_accounts'[v], R)
        /\ Unstaking'[v] = SumLamports(unstake_accounts'[v], U)
    BY <1>2 DEF Staked, Unstaking, SumLamports, SeedsOf
  <2>. HIDE DEF R, U
  <2>5. PICK x \in Nat : Staked'[v] = Staked[v] + x
    BY <1>7, <2>2, <2>3, <2>4
  <2>6. PICK y \in Nat : Unstaking'[v] = Unstaking[v] + y
    BY <1>8, <2>2, <2>3, <2>4
  <2>. DEFINE p == Staked[v]
              q == Unstaking[v]
              p1 == Staked'[v]
              q1 == Unstaking'[v]
  <2>7. p1 - p \in 0..TotalSol /\ q1 - q \in 0..TotalSol /\ p1 = p + (p1 - p) /\ q1 = q + (q1 - q)
    <3>1. p \in Nat /\ q \in Nat /\ p1 = p + x /\ q1 = q + y /\ p1 + q1 <= TotalSol
      BY <2>1, <2>5, <2>6
    <3>. HIDE DEF p, q, p1, q1
    <3>. QED
      BY <3>1, SolidoAssumption
  <2>. QED
    BY <2>7
<1>18. ASSUME NEW v \in Votes
       PROVE  /\ B!Width(validators[v].stake_seeds) = 0 => gain[v] = 0
              /\ B!Width(validators[v].unstake_seeds) = 0 => gainUn[v] = 0
  <2>1. /\ validators[v].stake_seeds.begin \in Nat /\ validators[v].stake_seeds.end \in Nat
        /\ validators[v].unstake_seeds.begin \in Nat /\ validators[v].unstake_seeds.end \in Nat
    BY <1>1, OfValidator, FieldTypes
  <2>2. /\ B!Width(validators[v].stake_seeds) = 0 => SeedsOf(validators[v].stake_seeds) = {}
        /\ B!Width(validators[v].unstake_seeds) = 0 => SeedsOf(validators[v].unstake_seeds) = {}
    BY <2>1 DEF B!Width, SeedsOf
  <2>3. SeedsOf(validators[v].stake_seeds) = {} => Staked[v] = 0
    BY TotalsOf, LamportsOfNone
  <2>4. SeedsOf(validators[v].unstake_seeds) = {} => Unstaking[v] = 0
    BY TotalsOf, LamportsOfNone
  <2>5. SeedsOf(validators[v].stake_seeds) = {} => Staked'[v] = 0
    <3>1. Staked'[v] = SumLamports(stake_accounts'[v], SeedsOf(validators[v].stake_seeds))
      BY <1>2 DEF Staked, SumLamports, SeedsOf
    <3>. QED
      BY <3>1, LamportsOfNone
  <2>6. SeedsOf(validators[v].unstake_seeds) = {} => Unstaking'[v] = 0
    <3>1. Unstaking'[v] = SumLamports(unstake_accounts'[v], SeedsOf(validators[v].unstake_seeds))
      BY <1>2 DEF Unstaking, SumLamports, SeedsOf
    <3>. QED
      BY <3>1, LamportsOfNone
  <2>. QED
    BY <2>2, <2>3, <2>4, <2>5, <2>6
<1>19. gain \in [Votes -> 0..TotalSol] /\ gainUn \in [Votes -> 0..TotalSol]
  BY <1>17
<1>20. /\ Staked' = [v \in Votes |-> Staked'[v]] /\ Unstaking' = [v \in Votes |-> Unstaking'[v]]
  BY DEF Staked, Unstaking
<1>. HIDE DEF gain, gainUn
<1>21. /\ Staked' = [v \in Votes |-> Staked[v] + gain[v]]
       /\ Unstaking' = [v \in Votes |-> Unstaking[v] + gainUn[v]]
  BY <1>17, <1>20
<1>22. B!Receive(gain, gainUn)
  BY <1>2, <1>18, <1>21 DEF B!Receive
<1>23. BookStep
  BY <1>19, <1>22 DEF BookStep, B!Step
<1>. QED
  BY <1>2, <1>16, <1>23

-----------------------------------------------------------------------------
(* UpdateStakeAccountBalance *)

\* The unstake accounts that can be withdrawn are the first ones of the range.
LEMMA LeadingAccounts ==
    ASSUME AccountsInv, NEW v \in Votes, NEW un, un = validators[v].unstake_seeds,
           NEW W, W = WithdrawableUnstake(v), NEW n, n = Cardinality(W)
    PROVE  /\ n \in Nat /\ un.begin + n <= un.end
           /\ W = un.begin .. (un.begin + n - 1)
<1>1. un \in SeedRanges /\ un.begin \in Nat /\ un.end \in Nat /\ un.begin <= un.end
  BY OfValidator, FieldTypes DEF UnstakesOrderly
<1>. DEFINE U == SeedsOf(un)
            Ok(t) == IsFullyInactive(unstake_accounts[v][t])
<1>2. W = {s \in U : \A t \in un.begin .. s : Ok(t)}
  BY DEF WithdrawableUnstake
<1>. HIDE DEF Ok
<1>. DEFINE Upto(j) == un.begin .. (j - 1)
            F == {T \in SUBSET U : \E j \in un.begin .. un.end : j \notin W /\ T = Upto(j)}
<1>3. \E m \in F : \A u \in F : u \subseteq m => u = m
  <2>1. IsFiniteSet(U)
    BY OfValidator, SeedsFinite
  <2>2. F \subseteq SUBSET U
    OBVIOUS
  <2>3. F # {}
    <3>1. un.end \in un.begin .. un.end /\ un.end \notin W /\ U = Upto(un.end)
      BY <1>1, <1>2 DEF SeedsOf
    <3>2. U \in SUBSET U
      OBVIOUS
    <3>3. U \in F
      BY <3>1, <3>2
    <3>. QED
      BY <3>3
  <2>. HIDE DEF F, U
  <2>. QED
    BY <2>1, <2>2, <2>3, SetMin
<1>4. PICK m \in F : \A u \in F : u \subseteq m => u = m
  BY <1>3
<1>5. PICK k \in un.begin .. un.end : k \notin W /\ m = Upto(k)
  BY <1>4
<1>6. k \in Nat
  BY <1>1
<1>7. \A j \in Upto(k) : j \in W
  <2>. SUFFICES ASSUME NEW j \in Upto(k), j \notin W
                PROVE  FALSE
    OBVIOUS
  <2>1. j \in Nat /\ un.begin <= j /\ j < k /\ j \in un.begin .. un.end
    BY <1>1, <1>6
  <2>2. Upto(j) \subseteq m /\ Upto(j) \in SUBSET U
    BY <1>1, <1>5, <1>6, <2>1 DEF SeedsOf
  <2>3. Upto(j) \in F
    BY <2>1, <2>2
  <2>4. Upto(j) = m
    BY <1>4, <2>2, <2>3
  <2>5. j \in m /\ j \notin Upto(j)
    BY <1>1, <1>5, <2>1
  <2>. QED
    BY <2>4, <2>5
<1>8. ASSUME NEW s \in W
      PROVE  s \in Upto(k)
  <2>1. s \in Nat /\ un.begin <= s /\ s < un.end /\ \A t \in un.begin .. s : Ok(t)
    BY <1>1, <1>2 DEF SeedsOf
  <2>. SUFFICES ASSUME k <= s
                PROVE  FALSE
    BY <1>1, <1>6, <2>1
  <2>2. k \in U /\ \A t \in un.begin .. k : t \in un.begin .. s
    BY <1>1, <1>6, <2>1 DEF SeedsOf
  <2>3. k \in W
    BY <1>2, <2>1, <2>2
  <2>. QED
    BY <1>5, <2>3
<1>9. W = un.begin .. (k - 1)
  BY <1>7, <1>8
<1>10. n = k - un.begin
  <2>. DEFINE lo == un.begin
              hi == k - 1
  <2>1. lo \in Int /\ hi \in Int /\ lo <= hi + 1 /\ W = lo..hi
    BY <1>1, <1>6, <1>9
  <2>. HIDE DEF lo, hi, U
  <2>2. Cardinality(lo..hi) = IF lo > hi THEN 0 ELSE hi - lo + 1
    BY <2>1, FS_Interval
  <2>3. n = hi - lo + 1
    BY <2>1, <2>2
  <2>4. n = (k - 1) - un.begin + 1
    BY <2>3 DEF lo, hi
  <2>. QED
    BY <1>1, <1>6, <2>4
<1>11. n \in Nat /\ un.begin + n <= un.end /\ un.begin + n - 1 = k - 1
  <2>1. un.begin <= k /\ k <= un.end
    BY <1>1, <1>6
  <2>. HIDE DEF U, F, Upto
  <2>. QED
    BY <1>1, <1>6, <1>10, <2>1
<1>. QED
  BY <1>9, <1>11

\* What is recorded.
LEMMA ObservedEntry ==
    ASSUME NEW val \in Validators, NEW n \in Nat, NEW left \in Nat, NEW unstaking \in Nat,
           NEW removed \in Nat, removed <= unstaking
    PROVE  IsEntry(WithEffective(WithObserved([val EXCEPT !.unstake_seeds.begin = @ + n],
                                              left, unstaking, removed)),
                   val.status, val.stake_seeds, B!Skip(val.unstake_seeds, n),
                   left + (unstaking - removed), unstaking - removed)
<1>. DEFINE mid == [val EXCEPT !.unstake_seeds.begin = @ + n]
            new == WithObserved(mid, left, unstaking, removed)
            un == [begin |-> val.unstake_seeds.begin + n, end |-> val.unstake_seeds.end]
            total == left + (unstaking - removed)
            unstake == unstaking - removed
<1>1. /\ total \in Nat /\ unstake \in Nat /\ unstake <= total
      /\ val.unstake_seeds \in SeedRanges
  BY FieldTypes
<1>2. un = B!Skip(val.unstake_seeds, n) /\ un \in SeedRanges
  BY <1>1 DEF B!Skip, SeedRanges
<1>3. mid = [val EXCEPT !.unstake_seeds = un]
  <2>1. [val.unstake_seeds EXCEPT !.begin = @ + n] = un
    BY <1>1 DEF SeedRanges
  <2>. QED
    BY <2>1 DEF Validators
<1>. HIDE DEF mid, un
<1>4. /\ mid \in Validators /\ mid.status = val.status /\ mid.stake_seeds = val.stake_seeds
      /\ mid.unstake_seeds = un
  BY <1>2, <1>3 DEF Validators
<1>5. new = [mid EXCEPT !.unstake_accounts_balance = unstake, !.stake_accounts_balance = total]
  BY DEF WithObserved
<1>. HIDE DEF new, total, unstake
<1>6. /\ new \in Validators /\ new.status = val.status /\ new.stake_seeds = val.stake_seeds
      /\ new.unstake_seeds = un
      /\ new.stake_accounts_balance = total /\ new.unstake_accounts_balance = unstake
  BY <1>1, <1>4, <1>5 DEF Validators
<1>7. WithEffective(new) = B!Entry(new.status, new.stake_seeds, new.unstake_seeds, total, unstake)
  BY <1>1, <1>6, EntryOfBalances
<1>8. IsEntry(WithEffective(new), val.status, val.stake_seeds, un, total, unstake)
  BY <1>6, <1>7 DEF IsEntry
<1>. QED
  BY <1>2, <1>8 DEF new, mid, total, unstake

\* What is withdrawn from the stake accounts.
ExcessOf(row, R) == SumFunctionOnSet([s \in R |-> Excess(row[s])], R)

LEMMA DrainAccount ==
    ASSUME NEW a, Usable(a)
    PROVE  /\ Excess(a) \in Nat /\ Excess(a) <= a.lamports /\ a.lamports \in Nat
           /\ Usable(WithdrawFrom(a, Excess(a)))
           /\ a.lamports = WithdrawFrom(a, Excess(a)).lamports + Excess(a)
<1>. DEFINE x == Excess(a)
            d == WithdrawFrom(a, x)
<1>1. /\ a \in StakeAccounts /\ a.lamports \in Nat /\ a.stake \in Nat
      /\ a.phase \in {"activating", "active"} /\ a.stake + Rent <= a.lamports /\ Rent \in Nat
  BY RentAssumption DEF Usable, StakeAccounts
<1>2. x = a.lamports - a.stake - Rent
  BY <1>1 DEF Excess, InactiveLamports
<1>3. d = [a EXCEPT !.lamports = @ - x]
  BY DEF WithdrawFrom
<1>. HIDE DEF x, d
<1>4. x \in Nat /\ x <= a.lamports /\ a.lamports - x \in Nat
  BY <1>1, <1>2
<1>5. d \in StakeAccounts /\ d.lamports = a.lamports - x /\ d.stake = a.stake /\ d.phase = a.phase
  BY <1>1, <1>3, <1>4 DEF StakeAccounts
<1>6. d.stake + Rent <= d.lamports
  BY <1>1, <1>2, <1>5
<1>7. a.lamports = d.lamports + x
  BY <1>1, <1>4, <1>5
<1>. QED
  BY <1>1, <1>4, <1>5, <1>6, <1>7 DEF Usable, x, d

Drains(row, R, new) ==
    new = [s \in Seeds |-> IF s \in R THEN WithdrawFrom(row[s], Excess(row[s])) ELSE row[s]]

LEMMA DrainStakes ==
    ASSUME NEW range \in SeedRanges, NEW row \in Rows, StakesOrderly(range, row),
           NEW R, R = SeedsOf(range), NEW new, Drains(row, R, new)
    PROVE  /\ new \in Rows
           /\ StakesOrderly(range, new)
           /\ ExcessOf(row, R) \in Nat
           /\ SumLamports(row, R) = SumLamports(new, R) + ExcessOf(row, R)
           /\ SumLamports(row, Seeds) = SumLamports(new, Seeds) + ExcessOf(row, R)
<1>1. R \in SUBSET Seeds
  BY RangeIsPart DEF StakesOrderly
<1>2. ASSUME NEW s \in R
      PROVE  /\ Excess(row[s]) \in Nat /\ Usable(new[s])
             /\ row[s].lamports = new[s].lamports + Excess(row[s])
  <2>1. Usable(row[s])
    BY AccountInRange
  <2>2. new[s] = WithdrawFrom(row[s], Excess(row[s]))
    BY <1>1 DEF Drains
  <2>. QED
    BY <2>1, <2>2, DrainAccount
<1>3. \A s \in Seeds : s \notin R => new[s] = row[s]
  BY DEF Drains
<1>4. new \in Rows
  <2>1. ASSUME NEW s \in Seeds
        PROVE  new[s] \in StakeAccounts
    <3>1. s \in R => new[s] \in StakeAccounts
      BY <1>2 DEF Usable
    <3>2. s \notin R => new[s] \in StakeAccounts
      BY <1>3 DEF Rows
    <3>. QED
      BY <3>1, <3>2
  <2>2. new = [s \in Seeds |-> new[s]]
    BY DEF Drains
  <2>. QED
    BY <2>1, <2>2 DEF Rows
<1>5. StakesOrderly(range, new)
  <2>1. range.begin \in Nat /\ range.end \in Nat
    BY DEF SeedRanges
  <2>2. ASSUME NEW t \in Seeds
        PROVE  /\ t < range.begin => new[t] = EmptyAccount
               /\ t \in SeedsOf(range) => /\ new[t].phase \in {"activating", "active"}
                                          /\ new[t].stake + Rent <= new[t].lamports
               /\ t >= range.end => new[t].phase = "none"
    <3>1. t \in R => Usable(new[t])
      BY <1>2
    <3>2. t < range.begin \/ t >= range.end => t \notin R
      BY <2>1, SolidoAssumption DEF SeedsOf, Seeds
    <3>. QED
      BY <1>3, <3>1, <3>2 DEF Usable, StakesOrderly
  <2>. QED
    BY <2>2 DEF StakesOrderly
<1>. DEFINE gain == [s \in R |-> Excess(row[s])]
<1>6. \A s \in R : gain[s] \in Nat /\ gain[s] \in Int /\ row[s].lamports = new[s].lamports + gain[s]
  BY <1>2
<1>7. ExcessOf(row, R) = SumFunctionOnSet(gain, R)
  BY DEF ExcessOf
<1>. HIDE DEF gain
<1>8. ExcessOf(row, R) \in Nat
  <2>1. IsFiniteSet(R)
    BY <1>1, SeedsFinite
  <2>. QED
    BY <1>6, <1>7, <2>1, SumIsNat
<1>9. SumLamports(row, R) = SumLamports(new, R) + ExcessOf(row, R)
  BY <1>1, <1>4, <1>6, <1>7, LamportsWithGains
<1>10. SumLamports(row, Seeds) = SumLamports(new, Seeds) + ExcessOf(row, R)
  <2>. DEFINE Q == Seeds \ R
  <2>1. R \subseteq Seeds /\ Seeds \in SUBSET Seeds /\ Q \in SUBSET Seeds
    BY <1>1
  <2>2. SumLamports(new, Q) = SumLamports(row, Q)
    BY <1>3, <1>4, <2>1, LamportsSame
  <2>3. SumLamports(row, Seeds) = SumLamports(row, R) + SumLamports(row, Q)
    BY <2>1, LamportsSplit
  <2>4. SumLamports(new, Seeds) = SumLamports(new, R) + SumLamports(new, Q)
    BY <1>4, <2>1, LamportsSplit
  <2>5. SumLamports(new, R) \in Nat /\ SumLamports(row, Q) \in Nat
    BY <1>1, <1>4, <2>1, LamportsNat
  <2>. HIDE DEF Q
  <2>. QED
    BY <1>8, <1>9, <2>2, <2>3, <2>4, <2>5
<1>. QED
  BY <1>4, <1>5, <1>8, <1>9, <1>10

\* The unstake accounts that are withdrawn are emptied, and skipped.
Empties(row, W, new) == new = [s \in Seeds |-> IF s \in W THEN EmptyAccount ELSE row[s]]

LEMMA EmptyUnstakes ==
    ASSUME NEW range \in SeedRanges, NEW row \in Rows, UnstakesOrderly(range, row),
           NEW n \in Nat, range.begin + n <= range.end,
           NEW W, W = range.begin .. (range.begin + n - 1), NEW new, Empties(row, W, new),
           NEW next \in SeedRanges, next.begin = range.begin + n, next.end = range.end
    PROVE  /\ new \in Rows
           /\ UnstakesOrderly(next, new)
           /\ SumLamports(row, W) \in Nat
           /\ SumLamports(row, SeedsOf(range)) = SumLamports(new, SeedsOf(next)) + SumLamports(row, W)
           /\ SumLamports(row, Seeds) = SumLamports(new, Seeds) + SumLamports(row, W)
           /\ n = 0 => SumLamports(row, W) = 0
           /\ range.begin + n = range.end => SumLamports(row, W) = SumLamports(row, SeedsOf(range))
<1>1. range.begin \in Nat /\ range.end \in Nat /\ range.end <= MaxSeed
  BY DEF SeedRanges, UnstakesOrderly
<1>2. /\ SeedsOf(range) \in SUBSET Seeds /\ W \in SUBSET Seeds /\ W \subseteq SeedsOf(range)
      /\ SeedsOf(next) = SeedsOf(range) \ W /\ SeedsOf(next) \in SUBSET Seeds
  <2>1. SeedsOf(range) \in SUBSET Seeds
    BY <1>1, RangeIsPart
  <2>2. W \subseteq SeedsOf(range)
    BY <1>1 DEF SeedsOf
  <2>3. SeedsOf(next) = SeedsOf(range) \ W
    BY <1>1 DEF SeedsOf
  <2>. QED
    BY <2>1, <2>2, <2>3
<1>3. EmptyAccount \in StakeAccounts /\ EmptyAccount.lamports = 0 /\ EmptyAccount.phase = "none"
  BY DEF EmptyAccount, Undelegated, StakeAccounts, Phases
<1>4. /\ \A s \in Seeds : s \in W => new[s] = EmptyAccount
      /\ \A s \in Seeds : s \notin W => new[s] = row[s]
      /\ new = [s \in Seeds |-> new[s]]
  BY DEF Empties
<1>5. new \in Rows
  BY <1>3, <1>4 DEF Rows
<1>6. UnstakesOrderly(next, new)
  <2>1. ASSUME NEW t \in Seeds
        PROVE  /\ t < next.begin => new[t] = EmptyAccount
               /\ t \in SeedsOf(next) => new[t].phase \in {"deactivating", "inactive"}
               /\ t >= next.end => new[t].phase = "none"
    <3>1. /\ t < range.begin => row[t] = EmptyAccount
          /\ t \in SeedsOf(range) => row[t].phase \in {"deactivating", "inactive"}
          /\ t >= range.end => row[t].phase = "none"
      BY DEF UnstakesOrderly
    <3>2. t \in Nat
      BY SolidoAssumption DEF Seeds
    <3>3. /\ t < next.begin => t < range.begin \/ t \in W
          /\ t >= next.end => t \notin W
      BY <1>1, <3>2
    <3>. QED
      BY <1>2, <1>4, <3>1, <3>3
  <2>. QED
    BY <1>1, <2>1 DEF UnstakesOrderly
<1>. DEFINE R == SeedsOf(range)
            N == SeedsOf(next)
            Q == Seeds \ W
<1>7. /\ SumLamports(row, W) \in Nat /\ SumLamports(row, N) \in Nat /\ SumLamports(row, Q) \in Nat
  <2>1. Q \in SUBSET Seeds
    OBVIOUS
  <2>. QED
    BY <1>2, <2>1, LamportsNat
<1>8. SumLamports(new, W) = 0
  <2>. DEFINE f == [s \in W |-> new[s].lamports]
  <2>1. \A s \in W : f[s] = 0
    BY <1>2, <1>3, <1>4
  <2>2. IsFiniteSet(W)
    BY <1>2, SeedsFinite
  <2>3. SumLamports(new, W) = SumFunctionOnSet(f, W)
    BY DEF SumLamports
  <2>. HIDE DEF f
  <2>. QED
    BY <2>1, <2>2, <2>3, SumOfZeros
<1>9. SumLamports(row, R) = SumLamports(row, W) + SumLamports(row, N)
  <2>1. R \in SUBSET Seeds /\ W \subseteq R /\ N = R \ W
    BY <1>2
  <2>. HIDE DEF R, N
  <2>2. SumLamports(row, R) = SumLamports(row, W) + SumLamports(row, R \ W)
    BY <2>1, LamportsSplit
  <2>. QED
    BY <2>1, <2>2
<1>10. SumLamports(new, N) = SumLamports(row, N) /\ SumLamports(new, Q) = SumLamports(row, Q)
  <2>1. N \in SUBSET Seeds /\ Q \in SUBSET Seeds
    BY <1>2
  <2>2. \A s \in N : new[s].lamports = row[s].lamports
    BY <1>2, <1>4
  <2>3. \A s \in Q : new[s].lamports = row[s].lamports
    BY <1>4
  <2>. HIDE DEF N, Q
  <2>. QED
    BY <1>5, <2>1, <2>2, <2>3, LamportsSame
<1>11. /\ SumLamports(row, Seeds) = SumLamports(row, W) + SumLamports(row, Q)
       /\ SumLamports(new, Seeds) = SumLamports(new, W) + SumLamports(new, Q)
  <2>1. Seeds \in SUBSET Seeds /\ W \subseteq Seeds
    BY <1>2
  <2>. QED
    BY <1>5, <2>1, LamportsSplit
<1>12. n = 0 => SumLamports(row, W) = 0
  <2>. SUFFICES ASSUME n = 0
                PROVE  SumLamports(row, W) = 0
    OBVIOUS
  <2>1. W = {}
    BY <1>1
  <2>. QED
    BY <2>1, LamportsOfNone
<1>13. range.begin + n = range.end => SumLamports(row, W) = SumLamports(row, R)
  <2>. SUFFICES ASSUME range.begin + n = range.end
                PROVE  SumLamports(row, W) = SumLamports(row, R)
    OBVIOUS
  <2>1. W = R
    BY <1>1 DEF SeedsOf
  <2>. QED
    BY <2>1
<1>. HIDE DEF R, N, Q
<1>14. /\ SumLamports(row, R) = SumLamports(new, N) + SumLamports(row, W)
       /\ SumLamports(row, Seeds) = SumLamports(new, Seeds) + SumLamports(row, W)
  BY <1>7, <1>8, <1>9, <1>10, <1>11
<1>. QED
  BY <1>5, <1>6, <1>7, <1>12, <1>13, <1>14 DEF R, N

\* What UpdateStakeAccountBalance observes beyond the books.
RewardsOf(v) == Staked[v] + Unstaking[v] - validators[v].stake_accounts_balance

FeesFor(rewards) == IF rewards = 0 THEN 0
                    ELSE FeesMinted(exchange_rate, reward_distribution, rewards)

LEMMA FeesAreNat ==
    ASSUME AccountsInv, NEW rewards \in Nat,
           rewards = 0 \/ DistributionSum(reward_distribution) # 0
    PROVE  FeesFor(rewards) \in Nat
<1>1. CASE rewards = 0
  BY <1>1 DEF FeesFor
<1>2. CASE rewards # 0
  <2>1. exchange_rate \in P!Rates
    BY DEF AccountsInv, TypeOK, P!Rates
  <2>2. reward_distribution \in [treasury : Nat, developer : Nat, appreciation : Nat]
    BY SolidoAssumption DEF AccountsInv, TypeOK
  <2>3. P!DistributionSum(reward_distribution) # 0
    BY <1>2, SameExchange
  <2>4. P!FeesMinted(exchange_rate, reward_distribution, rewards) \in Nat
    BY <2>1, <2>2, <2>3, PoolConstants, P!FeesMintedFair
  <2>. QED
    BY <1>2, <2>4, SameFees DEF FeesFor
<1>. QED
  BY <1>1, <1>2

\* What UpdateStakeAccountBalance writes to the accounts.
LEMMA ObservedAccounts ==
    ASSUME AccountsInv, NEW v \in Votes, UpdateStakeAccountBalance(v)
    PROVE  /\ Overwrites(stake_accounts, v, stake_accounts'[v], stake_accounts')
           /\ Overwrites(unstake_accounts, v, unstake_accounts'[v], unstake_accounts')
           /\ Drains(stake_accounts[v], SeedsOf(validators[v].stake_seeds), stake_accounts'[v])
           /\ Empties(unstake_accounts[v], WithdrawableUnstake(v), unstake_accounts'[v])
<1>. DEFINE old == stake_accounts[v]
            oldUn == unstake_accounts[v]
            R == SeedsOf(validators[v].stake_seeds)
            W == WithdrawableUnstake(v)
            row == [s \in Seeds |-> IF s \in R THEN WithdrawFrom(old[s], Excess(old[s])) ELSE old[s]]
            other == [s \in Seeds |-> IF s \in W THEN EmptyAccount ELSE oldUn[s]]
<1>1. /\ stake_accounts' = [stake_accounts EXCEPT ![v] = row]
      /\ unstake_accounts' = [unstake_accounts EXCEPT ![v] = other]
  BY DEF UpdateStakeAccountBalance
<1>2. /\ stake_accounts \in [Votes -> Rows] /\ unstake_accounts \in [Votes -> Rows]
  BY TypesOfGrids DEF AccountsInv, Grids
<1>3. Drains(old, R, row) /\ Empties(oldUn, W, other)
  BY DEF Drains, Empties
<1>. HIDE DEF row, other
<1>4. stake_accounts'[v] = row /\ unstake_accounts'[v] = other
  BY <1>1, <1>2
<1>. QED
  BY <1>1, <1>3, <1>4 DEF Overwrites

LEMMA UpdateStakeAccountBalanceKeeps ==
    ASSUME SolidoInv, NEW v \in Votes, UpdateStakeAccountBalance(v)
    PROVE  /\ AccountsInv' /\ BookStep
           /\ RewardsOf(v) \in Nat
           /\ RewardsOf(v) = 0 \/ ( /\ exchange_rate.computed_in_epoch >= epoch
                                    /\ DistributionSum(reward_distribution) # 0 )
           /\ supply' = supply + FeesFor(RewardsOf(v))
           /\ reserve' + Tracked(validators') = reserve + Tracked(validators) + RewardsOf(v)
<1>. DEFINE val == validators[v]
            range == val.stake_seeds
            un == val.unstake_seeds
            old == stake_accounts[v]
            oldUn == unstake_accounts[v]
            R == SeedsOf(range)
            U == SeedsOf(un)
            W == WithdrawableUnstake(v)
            n == Cardinality(W)
            excess == ExcessOf(old, R)
            removed == SumLamports(oldUn, W)
            st == SumLamports(old, R)
            us == SumLamports(oldUn, U)
            row == stake_accounts'[v]
            other == unstake_accounts'[v]
            b == WithEffective(WithObserved([val EXCEPT !.unstake_seeds.begin = @ + n],
                                            st - excess, us, removed))
            next == B!Skip(un, n)
            left == st - excess
            unstake == us - removed
            total == left + unstake
            rewards == RewardsOf(v)
            fees == FeesFor(rewards)
<1>1. AccountsInv /\ B!BooksInv
  BY DEF SolidoInv
<1>2. st = Staked[v] /\ us = Unstaking[v]
  BY TotalsOf
<1>3. rewards = st + us - val.stake_accounts_balance
  BY <1>2 DEF RewardsOf
<1>4. /\ v \in Listed /\ rewards >= 0
      /\ rewards = 0 \/ ( /\ exchange_rate.computed_in_epoch >= epoch
                          /\ DistributionSum(reward_distribution) # 0 )
      /\ supply' = IF rewards = 0 THEN supply
                   ELSE supply + FeesMinted(exchange_rate, reward_distribution, rewards)
  <2>. HIDE DEF rewards
  <2>. QED
    BY <1>3 DEF UpdateStakeAccountBalance
<1>5. /\ Overwrites(validators, v, b, validators')
      /\ reserve' = reserve + excess + removed
      /\ UNCHANGED <<epoch, exchange_rate, reward_distribution, outside>>
  BY DEF UpdateStakeAccountBalance, Overwrites, ExcessOf
<1>6. /\ Overwrites(stake_accounts, v, row, stake_accounts')
      /\ Overwrites(unstake_accounts, v, other, unstake_accounts')
      /\ Drains(old, R, row) /\ Empties(oldUn, W, other)
  BY <1>1, ObservedAccounts
<1>7. /\ val \in Validators /\ old \in Rows /\ oldUn \in Rows
      /\ StakesOrderly(range, old) /\ UnstakesOrderly(un, oldUn)
      /\ range \in SeedRanges /\ un \in SeedRanges /\ un.begin \in Nat /\ un.end \in Nat
      /\ R \in SUBSET Seeds /\ U \in SUBSET Seeds
  BY <1>1, OfValidator, FieldTypes
<1>8. n \in Nat /\ un.begin + n <= un.end /\ W = un.begin .. (un.begin + n - 1)
  <2>. HIDE DEF W, n
  <2>1. W = WithdrawableUnstake(v) /\ n = Cardinality(W)
    BY DEF W, n
  <2>. HIDE DEF un
  <2>2. un = validators[v].unstake_seeds
    BY DEF un
  <2>. QED
    BY <1>1, <2>1, <2>2, LeadingAccounts
<1>9. /\ reserve \in Nat /\ outside \in Nat /\ supply \in Nat
      /\ val.stake_accounts_balance \in Nat
      /\ val.status \in ValidatorStatus \cup {"NotListed"}
  BY <1>1, <1>7, FieldTypes DEF AccountsInv, TypeOK
<1>10. /\ st \in Nat /\ us \in Nat /\ st + us <= TotalSol
  BY <1>1, <1>2, HeldFits DEF Fits
<1>. HIDE DEF W, n, removed, row, other, excess, st, us, R, U
<1>11. next \in SeedRanges /\ next.begin = un.begin + n /\ next.end = un.end
  <2>. HIDE DEF un
  <2>. QED
    BY <1>7, <1>8 DEF B!Skip, SeedRanges
<1>. HIDE DEF next, un, range, old, oldUn
<1>12. /\ row \in Rows /\ StakesOrderly(range, row) /\ excess \in Nat
       /\ st = SumLamports(row, R) + excess
       /\ SumLamports(old, Seeds) = SumLamports(row, Seeds) + excess
  BY <1>6, <1>7, DrainStakes DEF excess, st, R
<1>13. /\ other \in Rows /\ UnstakesOrderly(next, other) /\ removed \in Nat
       /\ us = SumLamports(other, SeedsOf(next)) + removed
       /\ SumLamports(oldUn, Seeds) = SumLamports(other, Seeds) + removed
       /\ n = 0 => removed = 0
       /\ un.begin + n = un.end => removed = us
  BY <1>6, <1>7, <1>8, <1>11, EmptyUnstakes DEF removed, us, U
<1>14. /\ SumLamports(row, R) \in Nat /\ SumLamports(other, SeedsOf(next)) \in Nat
       /\ SumLamports(row, Seeds) \in Nat /\ SumLamports(other, Seeds) \in Nat
  <2>1. SeedsOf(next) \in SUBSET Seeds
    BY <1>11, <1>13, RangeIsPart DEF UnstakesOrderly
  <2>. QED
    BY <1>7, <1>12, <1>13, <2>1, LamportsNat
<1>15. /\ left = SumLamports(row, R) /\ unstake = SumLamports(other, SeedsOf(next))
       /\ left \in Nat /\ unstake \in Nat /\ total \in Nat /\ unstake <= total
       /\ excess <= st /\ removed <= us
  BY <1>10, <1>12, <1>13, <1>14
<1>16. IsEntry(b, val.status, range, next, total, unstake)
  <2>. HIDE DEF val
  <2>1. IsEntry(WithEffective(WithObserved([val EXCEPT !.unstake_seeds.begin = @ + n],
                                           left, us, removed)),
                val.status, val.stake_seeds, B!Skip(val.unstake_seeds, n),
                left + (us - removed), us - removed)
    <3>. HIDE DEF left
    <3>. QED
      BY <1>7, <1>8, <1>10, <1>13, <1>15, ObservedEntry
  <2>. QED
    BY <2>1 DEF next, range, un
<1>. HIDE DEF val, b, left, unstake, total, rewards, fees
<1>17. /\ b \in Validators /\ b.stake_seeds = range /\ b.unstake_seeds = next
       /\ b.stake_accounts_balance = total
  BY <1>7, <1>9, <1>11, <1>15, <1>16, FieldsOfEntry
<1>18. rewards \in Nat
  BY <1>3, <1>4, <1>9, <1>10
<1>19. fees \in Nat /\ supply' = supply + fees
  <2>1. fees \in Nat
    BY <1>1, <1>4, <1>18, FeesAreNat DEF fees
  <2>. QED
    BY <1>4, <1>9, <2>1 DEF fees, FeesFor
<1>20. Rewrites(v, b, row, other)
  <2>1. reserve' \in Nat /\ outside' \in Nat /\ supply' \in Nat
    BY <1>5, <1>9, <1>12, <1>13, <1>19
  <2>2. reserve' + outside' + SumLamports(row, Seeds) + SumLamports(other, Seeds)
          = reserve + outside + SumLamports(old, Seeds) + SumLamports(oldUn, Seeds)
    BY <1>5, <1>9, <1>12, <1>13, <1>14
  <2>3. StakesOrderly(b.stake_seeds, row) /\ UnstakesOrderly(b.unstake_seeds, other)
    BY <1>12, <1>13, <1>17
  <2>. QED
    BY <1>5, <1>6, <1>12, <1>13, <1>17, <2>1, <2>2, <2>3 DEF Rewrites, old, oldUn
<1>21. AccountsInv' /\ TotalsFollow(v, b, row, other)
  BY <1>1, <1>20, OneValidator
<1>22. /\ Staked' = [Staked EXCEPT ![v] = Staked[v] - excess]
       /\ Unstaking' = [Unstaking EXCEPT ![v] = Unstaking[v] - removed]
  <2>1. /\ Staked' = [Staked EXCEPT ![v] = left]
        /\ Unstaking' = [Unstaking EXCEPT ![v] = unstake]
    BY <1>15, <1>17, <1>21 DEF TotalsFollow, R
  <2>. QED
    BY <1>2, <2>1 DEF left, unstake
<1>23. /\ excess \in 0..TotalSol /\ removed \in 0..TotalSol
       /\ n \in 0..MAXIMUM_UNSTAKE_ACCOUNTS
  <2>1. un.end - un.begin <= MAXIMUM_UNSTAKE_ACCOUNTS
    BY <1>1, BookOf DEF un, val
  <2>2. excess \in 0..TotalSol /\ removed \in 0..TotalSol
    BY <1>10, <1>12, <1>13, <1>15, SolidoAssumption
  <2>. DEFINE p == un.begin
              q == un.end
  <2>3. /\ p \in Nat /\ q \in Nat /\ n \in Nat /\ p + n <= q
        /\ q - p <= MAXIMUM_UNSTAKE_ACCOUNTS
    BY <1>7, <1>8, <2>1
  <2>. HIDE DEF p, q
  <2>4. n \in 0..MAXIMUM_UNSTAKE_ACCOUNTS
    BY <2>3, SolidoAssumption
  <2>. QED
    BY <2>2, <2>4
<1>24. B!UpdateStakeAccountBalance(v, excess, n, removed)
  <2>1. B!SkipEmptied(v, n, removed)
    <3>1. /\ n <= un.end - un.begin
          /\ n = un.end - un.begin => removed = us
      BY <1>7, <1>8, <1>13
    <3>. QED
      BY <1>2, <1>13, <1>15, <3>1 DEF B!SkipEmptied, B!Width, un, val
  <2>2. B!ObserveBalance(v)
    BY <1>1 DEF B!BooksInv, B!BooksAreBacked
  <2>3. B!IsListed(v)
    BY <1>4 DEF Listed, B!IsListed
  <2>4. validators' = [validators EXCEPT ![v] =
          B!Entry(val.status, range, B!Skip(un, n),
                  Staked[v] - excess + (Unstaking[v] - removed), Unstaking[v] - removed)]
    BY <1>2, <1>5, <1>16 DEF IsEntry, Overwrites, next, total, left, unstake
  <2>. QED
    BY <1>2, <1>15, <1>22, <2>1, <2>2, <2>3, <2>4 DEF B!UpdateStakeAccountBalance, val, range, un
<1>25. BookStep
  BY <1>23, <1>24 DEF BookStep, B!Step
<1>26. reserve' + Tracked(validators') = reserve + Tracked(validators) + rewards
  <2>1. Tracked(validators) \in Nat
    BY <1>1, TrackedNat DEF AccountsInv, TypeOK
  <2>2. Tracked(validators') = Tracked(validators) - val.stake_accounts_balance + total
    BY <1>17, <1>21 DEF TotalsFollow, val
  <2>. DEFINE t == Tracked(validators)
              c == val.stake_accounts_balance
  <2>3. t \in Nat /\ c \in Nat /\ rewards = st + us - c /\ total = (st - excess) + (us - removed)
    BY <1>3, <1>9, <2>1 DEF total, left, unstake
  <2>. HIDE DEF t, c
  <2>4. reserve + excess + removed + (t - c + total) = reserve + t + rewards
    BY <1>9, <1>10, <1>12, <1>13, <2>3
  <2>. QED
    BY <1>5, <2>2, <2>4 DEF t, c
<1>. QED
  BY <1>4, <1>18, <1>19, <1>21, <1>25, <1>26 DEF rewards, fees

-----------------------------------------------------------------------------
(* The value of stSOL *)

\* The managed SOL before and after a step that keeps the accounts and books.
LEMMA ManagedInStep ==
    ASSUME SolidoInv, AccountsInv', BookStep
    PROVE  /\ [B!Next]_(B!vars) /\ B!BooksInv'
           /\ get_sol_balance = reserve + Tracked(validators)
           /\ get_sol_balance' = reserve' + Tracked(validators')
           /\ get_sol_balance \in Nat /\ get_sol_balance <= TotalSol
           /\ get_sol_balance' \in Nat /\ get_sol_balance' <= TotalSol
<1>1. AccountsInv /\ B!BooksInv
  BY DEF SolidoInv
<1>2. [B!Next]_(B!vars) /\ B!BooksInv'
  BY <1>1, BooksFollow
<1>3. ManagedIsSum /\ ManagedIsSum'
  BY <1>1, <1>2, ManagedFits, ManagedFitsNext
<1>4. /\ get_sol_balance = reserve + Tracked(validators)
      /\ get_sol_balance \in Nat /\ get_sol_balance <= TotalSol
  BY <1>3, SolidoAssumption DEF ManagedIsSum
<1>5. /\ get_sol_balance' \in Nat /\ get_sol_balance' <= TotalSol
  BY <1>3, SolidoAssumption DEF ManagedIsSum
<1>6. get_sol_balance' = reserve' + Tracked(validators')
  BY <1>3 DEF ManagedIsSum, Tracked
<1>. QED
  BY <1>2, <1>4, <1>5, <1>6

PoolStep == [P!Next]_(P!vars)

\* No more is owed than is there, at a price of one SOL at least.
LEMMA CoverBoundsSupply ==
    ASSUME NEW s \in Nat, NEW m \in Nat, NEW n \in Nat \ {0}, NEW d \in Nat, d <= n,
           s * n <= m * d
    PROVE  s <= m
<1>. SUFFICES ASSUME m + 1 <= s
              PROVE  FALSE
  OBVIOUS
<1>1. (m + 1) * n <= s * n
  <2>1. \A x, y, z \in Nat : x <= y => x * z <= y * z
    OBVIOUS
  <2>2. m + 1 \in Nat /\ n \in Nat
    OBVIOUS
  <2>. QED
    BY <2>1, <2>2
<1>2. (m + 1) * n = m * n + n
  OBVIOUS
<1>3. m * d <= m * n
  OBVIOUS
<1>4. m * d \in Nat /\ m * n \in Nat /\ s * n \in Nat
  OBVIOUS
<1>. QED
  BY <1>1, <1>2, <1>3, <1>4

LEMMA SupplyIsBounded ==
    ASSUME SolidoInv
    PROVE  supply \in Nat /\ supply <= get_sol_balance
<1>. DEFINE n == P!PriceNum(exchange_rate)
            d == P!PriceDen(exchange_rate)
<1>1. /\ supply \in Nat /\ get_sol_balance \in Nat /\ exchange_rate \in P!Rates
  BY DEF SolidoInv, P!TypeOK
<1>2. n \in Nat \ {0} /\ d \in Nat \ {0}
  BY <1>1, PoolConstants, P!PricePositive
<1>3. d <= n
  BY <1>1 DEF SolidoInv, RateIsAtLeastPar, P!PriceNum, P!PriceDen, P!Rates
<1>4. supply * n <= get_sol_balance * d
  BY DEF SolidoInv, P!SupplyIsCovered
<1>. HIDE DEF n, d
<1>. QED
  BY <1>1, <1>2, <1>3, <1>4, CoverBoundsSupply

\* A step of the abstract pool keeps what is said of the value of stSOL.
LEMMA PoolFollows ==
    ASSUME SolidoInv, AccountsInv', BookStep, PoolStep, RateIsAtLeastPar'
    PROVE  SolidoInv' /\ [B!Next]_(B!vars) /\ PoolStep
<1>1. [B!Next]_(B!vars) /\ B!BooksInv'
  BY ManagedInStep
<1>2. P!TypeOK'
  <2>1. P!TypeOK /\ [P!Next]_(P!vars) => P!TypeOK'
    BY PoolConstants, P!NextTypeOK
  <2>. QED
    BY <2>1 DEF SolidoInv, PoolStep
<1>3. P!SupplyIsCovered'
  <2>1. P!TypeOK /\ P!SupplyIsCovered /\ [P!Next]_(P!vars) => P!SupplyIsCovered'
    BY PoolConstants, P!NextCovered
  <2>. QED
    BY <2>1 DEF SolidoInv, PoolStep
<1>. QED
  BY <1>1, <1>2, <1>3 DEF SolidoInv

\* Steps that only move SOL within the pool.
LEMMA PoolStays ==
    ASSUME SolidoInv, AccountsInv', BookStep,
           reserve' + Tracked(validators') = reserve + Tracked(validators),
           UNCHANGED <<epoch, supply, exchange_rate>>
    PROVE  SolidoInv' /\ [B!Next]_(B!vars) /\ PoolStep
<1>1. get_sol_balance' = get_sol_balance
  BY ManagedInStep
<1>2. PoolStep
  BY <1>1 DEF PoolStep, P!vars
<1>3. RateIsAtLeastPar'
  BY DEF SolidoInv, RateIsAtLeastPar
<1>. QED
  BY <1>2, <1>3, PoolFollows

\* What a step does to the invariant and to the abstract specifications.
Sound == SolidoInv' /\ [B!Next]_(B!vars) /\ PoolStep

LEMMA DepositSound ==
    ASSUME SolidoInv, NEW amount \in DepositAmounts, Deposit(amount)
    PROVE  Sound
<1>1. /\ AccountsInv' /\ BookStep /\ amount \in Nat
      /\ reserve' + Tracked(validators') = reserve + Tracked(validators) + amount
  BY DepositKeeps
<1>2. /\ get_sol_balance' = get_sol_balance + amount
      /\ get_sol_balance \in Nat /\ get_sol_balance' <= TotalSol
  BY <1>1, ManagedInStep
<1>3. amount \in 0..TotalSol /\ get_sol_balance + amount <= TotalSol
  BY <1>1, <1>2, SolidoAssumption
<1>4. P!Deposit(amount)
  <2>1. /\ amount # 0 /\ supply' = supply + exchange_sol(exchange_rate, amount)
        /\ UNCHANGED <<exchange_rate, epoch>>
    BY DEF Deposit
  <2>2. P!exchange_sol(exchange_rate, amount) = exchange_sol(exchange_rate, amount)
    BY SameExchange
  <2>. QED
    BY <1>2, <1>3, <2>1, <2>2 DEF P!Deposit
<1>5. PoolStep
  BY <1>3, <1>4 DEF PoolStep, P!Next
<1>6. RateIsAtLeastPar'
  BY DEF SolidoInv, RateIsAtLeastPar, Deposit
<1>. QED
  BY <1>1, <1>5, <1>6, PoolFollows DEF Sound

LEMMA DonateToReserveSound ==
    ASSUME SolidoInv, NEW amount \in DonationAmounts, DonateToReserve(amount)
    PROVE  Sound
<1>1. /\ AccountsInv' /\ BookStep /\ amount \in Nat
      /\ reserve' + Tracked(validators') = reserve + Tracked(validators) + amount
  BY DonateToReserveKeeps
<1>2. /\ get_sol_balance' = get_sol_balance + amount
      /\ get_sol_balance \in Nat /\ get_sol_balance' <= TotalSol
  BY <1>1, ManagedInStep
<1>3. amount \in 0..TotalSol /\ get_sol_balance + amount <= TotalSol
  BY <1>1, <1>2, SolidoAssumption
<1>4. UNCHANGED <<supply, exchange_rate, epoch>>
  BY DEF DonateToReserve
<1>5. P!Donate(amount)
  BY <1>2, <1>3, <1>4 DEF P!Donate
<1>6. PoolStep
  BY <1>3, <1>5 DEF PoolStep, P!Next
<1>7. RateIsAtLeastPar'
  BY <1>4 DEF SolidoInv, RateIsAtLeastPar
<1>. QED
  BY <1>1, <1>6, <1>7, PoolFollows DEF Sound

LEMMA HolderBurnsSound ==
    ASSUME SolidoInv, NEW amount \in StSolAmounts, HolderBurns(amount)
    PROVE  Sound
<1>1. AccountsInv' /\ BookStep /\ UNCHANGED <<reserve, validators>>
  BY HolderBurnsKeeps
<1>2. get_sol_balance' = get_sol_balance /\ get_sol_balance <= TotalSol /\ get_sol_balance \in Nat
  BY <1>1, ManagedInStep
<1>3. supply \in Nat /\ supply <= get_sol_balance
  BY SupplyIsBounded
<1>4. /\ amount \in 1..supply /\ supply' = supply - amount
      /\ UNCHANGED <<exchange_rate, epoch>>
  BY DEF HolderBurns
<1>5. amount \in 0..TotalSol /\ amount <= supply
  BY <1>2, <1>3, <1>4, SolidoAssumption
<1>6. P!Burn(amount)
  BY <1>2, <1>4, <1>5 DEF P!Burn
<1>7. PoolStep
  BY <1>5, <1>6 DEF PoolStep, P!Next
<1>8. RateIsAtLeastPar'
  BY <1>4 DEF SolidoInv, RateIsAtLeastPar
<1>. QED
  BY <1>1, <1>7, <1>8, PoolFollows DEF Sound

LEMMA WithdrawSound ==
    ASSUME SolidoInv, NEW v \in Votes, NEW amount \in StSolAmounts, Withdraw(v, amount)
    PROVE  Sound
<1>. DEFINE sol == exchange_st_sol(exchange_rate, amount)
<1>1. /\ AccountsInv' /\ BookStep /\ sol \in Nat
      /\ Tracked(validators') = Tracked(validators) - sol
  BY WithdrawKeeps
<1>2. /\ UNCHANGED <<reserve, exchange_rate, epoch>>
      /\ exchange_rate.computed_in_epoch >= epoch
      /\ CanExchangeStSol(exchange_rate)
      /\ amount <= supply /\ supply' = supply - amount
  BY DEF Withdraw
<1>3. Tracked(validators) \in Nat /\ reserve \in Nat /\ amount \in Nat
  BY TrackedNat, SolidoAssumption DEF SolidoInv, AccountsInv, TypeOK
<1>4. P!exchange_st_sol(exchange_rate, amount) = sol /\ P!CanExchangeStSol(exchange_rate)
  BY <1>2, SameExchange
<1>. HIDE DEF sol
<1>5. /\ get_sol_balance' = get_sol_balance - sol
      /\ get_sol_balance \in Nat /\ get_sol_balance <= TotalSol /\ get_sol_balance' \in Nat
  BY <1>1, <1>2, <1>3, ManagedInStep
<1>6. supply \in Nat /\ supply <= get_sol_balance
  BY SupplyIsBounded
<1>7. amount \in 0..TotalSol /\ sol <= get_sol_balance
  <2>. DEFINE m == get_sol_balance
              m1 == get_sol_balance'
  <2>1. /\ m \in Nat /\ m1 \in Nat /\ m1 = m - sol /\ m <= TotalSol /\ supply <= m
        /\ amount <= supply
    BY <1>2, <1>5, <1>6
  <2>. HIDE DEF m, m1
  <2>2. amount \in 0..TotalSol /\ sol <= m
    BY <1>1, <1>3, <1>6, <2>1, SolidoAssumption
  <2>. QED
    BY <2>2 DEF m
<1>8. P!Withdraw(amount)
  BY <1>2, <1>4, <1>5, <1>7 DEF P!Withdraw
<1>9. PoolStep
  BY <1>7, <1>8 DEF PoolStep, P!Next
<1>10. RateIsAtLeastPar'
  BY <1>2 DEF SolidoInv, RateIsAtLeastPar
<1>. QED
  BY <1>1, <1>9, <1>10, PoolFollows DEF Sound

LEMMA UpdateStakeAccountBalanceSound ==
    ASSUME SolidoInv, NEW v \in Votes, UpdateStakeAccountBalance(v)
    PROVE  Sound
<1>. DEFINE rewards == RewardsOf(v)
<1>1. /\ AccountsInv' /\ BookStep
      /\ rewards \in Nat
      /\ rewards = 0 \/ ( /\ exchange_rate.computed_in_epoch >= epoch
                          /\ DistributionSum(reward_distribution) # 0 )
      /\ supply' = supply + FeesFor(rewards)
      /\ reserve' + Tracked(validators') = reserve + Tracked(validators) + rewards
  BY UpdateStakeAccountBalanceKeeps
<1>. HIDE DEF rewards
<1>2. UNCHANGED <<epoch, exchange_rate>>
  BY DEF UpdateStakeAccountBalance
<1>3. RateIsAtLeastPar'
  BY <1>2 DEF SolidoInv, RateIsAtLeastPar
<1>4. /\ get_sol_balance' = get_sol_balance + rewards
      /\ get_sol_balance \in Nat /\ get_sol_balance' <= TotalSol
  BY <1>1, ManagedInStep
<1>5. supply \in Nat /\ reward_distribution \in Distributions
  BY DEF SolidoInv, AccountsInv, TypeOK
<1>6. CASE rewards = 0
  <2>1. get_sol_balance' = get_sol_balance /\ supply' = supply
    BY <1>1, <1>4, <1>5, <1>6 DEF FeesFor
  <2>2. PoolStep
    BY <1>2, <2>1 DEF PoolStep, P!vars
  <2>. QED
    BY <1>1, <1>3, <2>2, PoolFollows DEF Sound
<1>7. CASE rewards # 0
  <2>1. rewards \in 0..TotalSol /\ get_sol_balance + rewards <= TotalSol
    BY <1>1, <1>4, SolidoAssumption
  <2>2. P!DistributionSum(reward_distribution) # 0
    BY <1>1, <1>7, SameExchange
  <2>3. supply' = supply + P!FeesMinted(exchange_rate, reward_distribution, rewards)
    BY <1>1, <1>7, SameFees DEF FeesFor
  <2>4. P!ObserveReward(rewards, reward_distribution)
    BY <1>1, <1>2, <1>4, <1>7, <2>1, <2>2, <2>3 DEF P!ObserveReward
  <2>5. PoolStep
    BY <1>5, <2>1, <2>4 DEF PoolStep, P!Next
  <2>. QED
    BY <1>1, <1>3, <2>5, PoolFollows DEF Sound
<1>. QED
  BY <1>6, <1>7

LEMMA UpdateExchangeRateSound ==
    ASSUME SolidoInv, UpdateExchangeRate
    PROVE  Sound
<1>1. AccountsInv' /\ BookStep /\ UNCHANGED <<reserve, validators>>
  BY UpdateExchangeRateKeeps
<1>2. get_sol_balance' = get_sol_balance /\ get_sol_balance \in Nat
  BY <1>1, ManagedInStep
<1>3. supply \in Nat /\ supply <= get_sol_balance
  BY SupplyIsBounded
<1>4. /\ exchange_rate.computed_in_epoch < epoch
      /\ exchange_rate' = [computed_in_epoch |-> epoch, st_sol_supply |-> supply,
                           sol_balance |-> get_sol_balance]
      /\ UNCHANGED <<supply, epoch>>
  BY DEF UpdateExchangeRate
<1>5. P!UpdateExchangeRate
  BY <1>2, <1>4 DEF P!UpdateExchangeRate
<1>6. PoolStep
  BY <1>5 DEF PoolStep, P!Next
<1>7. RateIsAtLeastPar'
  BY <1>3, <1>4 DEF RateIsAtLeastPar
<1>. QED
  BY <1>1, <1>6, <1>7, PoolFollows DEF Sound

LEMMA NextEpochSound ==
    ASSUME SolidoInv, NEW reward \in [Votes -> Rewards], NEW late \in LateSets,
           NextEpoch(reward, late)
    PROVE  Sound
<1>1. AccountsInv' /\ BookStep /\ UNCHANGED <<reserve, validators>>
  BY NextEpochKeeps
<1>2. get_sol_balance' = get_sol_balance
  BY <1>1, ManagedInStep
<1>3. epoch < MaxEpoch /\ epoch' = epoch + 1 /\ UNCHANGED <<supply, exchange_rate>>
  BY DEF NextEpoch
<1>4. P!NextEpoch
  BY <1>2, <1>3 DEF P!NextEpoch
<1>5. PoolStep
  BY <1>4 DEF PoolStep, P!Next
<1>6. RateIsAtLeastPar'
  BY <1>3 DEF SolidoInv, RateIsAtLeastPar
<1>. QED
  BY <1>1, <1>5, <1>6, PoolFollows DEF Sound

-----------------------------------------------------------------------------
(* Every step *)

LEMMA UsersSound == SolidoInv /\ Users => Sound
BY DepositSound, HolderBurnsSound, WithdrawSound DEF Users

LEMMA MaintenanceSound == SolidoInv /\ Maintenance => Sound
<1>. SUFFICES ASSUME SolidoInv, NEW v \in Votes,
                     \/ \E amount \in StakeAmounts :
                           \/ StakeDepositAppend(v, amount)
                           \/ \E prefund \in DonationAmounts \cup {0} :
                                 StakeDepositMerge(v, amount, prefund)
                           \/ Unstake(v, amount)
                     \/ UpdateStakeAccountBalance(v)
                     \/ MergeStake(v)
                     \/ RemoveValidator(v)
              PROVE  Sound
  BY DEF Maintenance
<1>1. ASSUME NEW amount \in StakeAmounts, StakeDepositAppend(v, amount)
      PROVE  Sound
  <2>1. UNCHANGED <<epoch, supply, exchange_rate>>
    BY <1>1 DEF StakeDepositAppend
  <2>. QED
    BY <1>1, <2>1, StakeDepositAppendKeeps, PoolStays DEF Sound
<1>2. ASSUME NEW amount \in StakeAmounts, NEW prefund \in DonationAmounts \cup {0},
             StakeDepositMerge(v, amount, prefund)
      PROVE  Sound
  <2>1. UNCHANGED <<epoch, supply, exchange_rate>>
    BY <1>2 DEF StakeDepositMerge
  <2>. QED
    BY <1>2, <2>1, StakeDepositMergeKeeps, PoolStays DEF Sound
<1>3. ASSUME NEW amount \in StakeAmounts, Unstake(v, amount)
      PROVE  Sound
  <2>1. UNCHANGED <<epoch, supply, exchange_rate>>
    BY <1>3 DEF Unstake
  <2>. QED
    BY <1>3, <2>1, UnstakeKeeps, PoolStays DEF Sound
<1>4. ASSUME UpdateStakeAccountBalance(v)
      PROVE  Sound
  BY <1>4, UpdateStakeAccountBalanceSound
<1>5. ASSUME MergeStake(v)
      PROVE  Sound
  <2>1. UNCHANGED <<epoch, supply, exchange_rate>>
    BY <1>5 DEF MergeStake
  <2>. QED
    BY <1>5, <2>1, MergeStakeKeeps, PoolStays DEF Sound
<1>6. ASSUME RemoveValidator(v)
      PROVE  Sound
  <2>1. UNCHANGED <<epoch, supply, exchange_rate>>
    BY <1>6 DEF RemoveValidator
  <2>. QED
    BY <1>6, <2>1, RemoveValidatorKeeps, PoolStays DEF Sound
<1>. QED
  BY <1>1, <1>2, <1>3, <1>4, <1>5, <1>6

LEMMA CurationSound == SolidoInv /\ Curation => Sound
<1>. SUFFICES ASSUME SolidoInv, Curation
              PROVE  Sound
  OBVIOUS
<1>1. ASSUME NEW v \in Votes, AddValidator(v)
      PROVE  Sound
  <2>1. UNCHANGED <<epoch, supply, exchange_rate>>
    BY <1>1 DEF AddValidator
  <2>. QED
    BY <1>1, <2>1, AddValidatorKeeps, PoolStays DEF Sound
<1>2. ASSUME NEW v \in Votes, NEW status \in ValidatorStatus, SetStatus(v, status), v \in Listed,
             validators[v].status = "PendingRemoval" => status = "PendingRemoval"
      PROVE  Sound
  <2>1. UNCHANGED <<epoch, supply, exchange_rate>>
    BY <1>2 DEF SetStatus
  <2>. QED
    BY <1>2, <2>1, SetStatusKeeps, PoolStays DEF Sound
<1>3. ASSUME NEW v \in Votes,
             \/ EnqueueValidatorForRemoval(v) \/ DeactivateValidator(v) \/ ReactivateIfComplies(v)
      PROVE  \E status \in ValidatorStatus :
                /\ SetStatus(v, status) /\ v \in Listed
                /\ validators[v].status = "PendingRemoval" => status = "PendingRemoval"
  <2>1. /\ "PendingRemoval" \in ValidatorStatus /\ "StakesSuspended" \in ValidatorStatus
        /\ "AcceptingStakes" \in ValidatorStatus
    BY DEF ValidatorStatus
  <2>2. CASE EnqueueValidatorForRemoval(v)
    BY <2>1, <2>2 DEF EnqueueValidatorForRemoval
  <2>3. CASE DeactivateValidator(v)
    <3>1. /\ SetStatus(v, "StakesSuspended") /\ v \in Listed
          /\ validators[v].status # "PendingRemoval"
      BY <2>3 DEF DeactivateValidator, Listed
    <3>. QED
      BY <2>1, <3>1
  <2>4. CASE ReactivateIfComplies(v)
    <3>1. /\ SetStatus(v, "AcceptingStakes") /\ v \in Listed
          /\ validators[v].status # "PendingRemoval"
      BY <2>4 DEF ReactivateIfComplies, Listed
    <3>. QED
      BY <2>1, <3>1
  <2>. QED
    BY <1>3, <2>2, <2>3, <2>4
<1>4. ASSUME NEW dist \in Distributions, ChangeRewardDistribution(dist)
      PROVE  Sound
  <2>1. UNCHANGED <<epoch, supply, exchange_rate>>
    BY <1>4 DEF ChangeRewardDistribution
  <2>2. AccountsInv' /\ BookStep /\ UNCHANGED <<reserve, validators>>
    BY <1>4, ChangeRewardDistributionKeeps
  <2>3. reserve' + Tracked(validators') = reserve + Tracked(validators)
    BY <2>2
  <2>. QED
    BY <2>1, <2>2, <2>3, PoolStays DEF Sound
<1>. QED
  BY <1>1, <1>2, <1>3, <1>4 DEF Curation

LEMMA EnvironmentSound == SolidoInv /\ Environment => Sound
<1>. SUFFICES ASSUME SolidoInv, Environment
              PROVE  Sound
  OBVIOUS
<1>1. ASSUME NEW amount \in DonationAmounts, DonateToReserve(amount)
      PROVE  Sound
  BY <1>1, DonateToReserveSound
<1>2. ASSUME NEW amount \in DonationAmounts, NEW v \in Votes, NEW seed \in Seeds,
             DonateToStake(v, seed, amount)
      PROVE  Sound
  <2>1. UNCHANGED <<epoch, supply, exchange_rate>>
    BY <1>2 DEF DonateToStake
  <2>2. AccountsInv' /\ BookStep /\ UNCHANGED <<reserve, validators>>
    BY <1>2, DonateToStakeKeeps
  <2>3. reserve' + Tracked(validators') = reserve + Tracked(validators)
    BY <2>2
  <2>. QED
    BY <2>1, <2>2, <2>3, PoolStays DEF Sound
<1>3. ASSUME NEW amount \in DonationAmounts, NEW v \in Votes, NEW seed \in Seeds,
             DonateToUnstake(v, seed, amount)
      PROVE  Sound
  <2>1. UNCHANGED <<epoch, supply, exchange_rate>>
    BY <1>3 DEF DonateToUnstake
  <2>2. AccountsInv' /\ BookStep /\ UNCHANGED <<reserve, validators>>
    BY <1>3, DonateToUnstakeKeeps
  <2>3. reserve' + Tracked(validators') = reserve + Tracked(validators)
    BY <2>2
  <2>. QED
    BY <2>1, <2>2, <2>3, PoolStays DEF Sound
<1>4. ASSUME NEW reward \in [Votes -> Rewards], NEW late \in LateSets, NextEpoch(reward, late)
      PROVE  Sound
  BY <1>4, NextEpochSound
<1>. QED
  BY <1>1, <1>2, <1>3, <1>4 DEF Environment

LEMMA StutterSound == SolidoInv /\ UNCHANGED vars => Sound
<1>. SUFFICES ASSUME SolidoInv, UNCHANGED vars
              PROVE  Sound
  OBVIOUS
<1>1. /\ reserve \in Nat /\ outside \in Nat /\ supply \in Nat /\ epoch \in Nat
      /\ exchange_rate \in P!Rates /\ reward_distribution \in Distributions
  BY DEF SolidoInv, AccountsInv, TypeOK, P!Rates
<1>2. AccountsInv' /\ BookStep
  BY <1>1, AccountsStay DEF SolidoInv, vars
<1>3. reserve' + Tracked(validators') = reserve + Tracked(validators)
  BY DEF vars
<1>. QED
  BY <1>2, <1>3, PoolStays DEF Sound, vars

LEMMA NextSound == SolidoInv /\ [Next]_vars => Sound
BY UsersSound, MaintenanceSound, UpdateExchangeRateSound, CurationSound, EnvironmentSound,
   StutterSound DEF Next

-----------------------------------------------------------------------------
(* The initial state *)

LEMMA InitAccounts == Init => AccountsInv
<1>. SUFFICES ASSUME Init
              PROVE  AccountsInv
  OBVIOUS
<1>. DEFINE none == [s \in Seeds |-> EmptyAccount]
<1>1. /\ EmptyAccount \in StakeAccounts /\ EmptyAccount.lamports = 0
      /\ EmptyAccount.phase = "none"
  BY DEF EmptyAccount, Undelegated, StakeAccounts, Phases
<1>2. none \in Rows /\ \A s \in Seeds : none[s] = EmptyAccount
  BY <1>1 DEF Rows
<1>3. /\ stake_accounts = [v \in Votes |-> none] /\ unstake_accounts = [v \in Votes |-> none]
      /\ validators = [v \in Votes |-> NewValidator("NotListed")]
      /\ epoch = 0 /\ reserve = 0 /\ supply = 0 /\ outside = TotalSol
      /\ exchange_rate = [computed_in_epoch |-> 0, st_sol_supply |-> 0, sol_balance |-> 0]
      /\ reward_distribution \in Distributions
  BY DEF Init
<1>. HIDE DEF none
<1>4. NewValidator("NotListed") \in Validators
  BY DEF NewValidator, Validators, SeedRanges
<1>5. stake_accounts \in Grids /\ unstake_accounts \in Grids
  BY <1>2, <1>3 DEF Grids
<1>6. TypeOK
  BY <1>3, <1>4, <1>5, SolidoAssumption DEF TypeOK, Grids, Rows
<1>7. AccountsAreOrderly
  <2>. SUFFICES ASSUME NEW v \in Votes
                PROVE  /\ StakesOrderly(validators[v].stake_seeds, stake_accounts[v])
                       /\ UnstakesOrderly(validators[v].unstake_seeds, unstake_accounts[v])
    BY DEF AccountsAreOrderly
  <2>. DEFINE range == [begin |-> 0, end |-> 0]
  <2>1. /\ validators[v].stake_seeds = range /\ validators[v].unstake_seeds = range
        /\ stake_accounts[v] = none /\ unstake_accounts[v] = none
    BY <1>3 DEF NewValidator
  <2>2. range.begin = 0 /\ range.end = 0 /\ \A s : s \notin SeedsOf(range)
    BY DEF SeedsOf
  <2>. HIDE DEF range
  <2>3. \A s \in Seeds : ~(s < range.begin)
    BY <2>2, SolidoAssumption DEF Seeds
  <2>4. StakesOrderly(range, none)
    BY <1>1, <1>2, <2>2, <2>3, SolidoAssumption DEF StakesOrderly
  <2>5. UnstakesOrderly(range, none)
    BY <1>1, <1>2, <2>2, <2>3, SolidoAssumption DEF UnstakesOrderly
  <2>. QED
    BY <2>1, <2>4, <2>5
<1>8. SumLamports(none, Seeds) = 0
  <2>. DEFINE f == [s \in Seeds |-> none[s].lamports]
  <2>1. \A s \in Seeds : f[s] = 0
    BY <1>1, <1>2
  <2>2. SumLamports(none, Seeds) = SumFunctionOnSet(f, Seeds)
    BY DEF SumLamports
  <2>. HIDE DEF f
  <2>. QED
    BY <2>1, <2>2, SeedsFinite, SumOfZeros
<1>9. ASSUME NEW grid, grid = [v \in Votes |-> none]
      PROVE  Total(grid) = 0
  <2>. DEFINE f == [v \in Votes |-> SumLamports(grid[v], Seeds)]
  <2>1. \A v \in Votes : f[v] = 0
    BY <1>8, <1>9
  <2>2. Total(grid) = SumFunctionOnSet(f, Votes)
    BY DEF Total
  <2>. HIDE DEF f
  <2>. QED
    BY <2>1, <2>2, SumOfZeros, SolidoAssumption
<1>10. SolIsConserved
  <2>1. Total(stake_accounts) = 0 /\ Total(unstake_accounts) = 0
    BY <1>3, <1>9
  <2>. QED
    BY <1>3, <2>1, SolidoAssumption DEF SolIsConserved
<1>. QED
  BY <1>6, <1>7, <1>10 DEF AccountsInv

LEMMA InitSound == Init => SolidoInv /\ B!Init /\ P!Init
<1>. SUFFICES ASSUME Init
              PROVE  SolidoInv /\ B!Init /\ P!Init
  OBVIOUS
<1>1. AccountsInv
  BY InitAccounts
<1>2. validators = [v \in Votes |-> NewValidator("NotListed")]
  BY DEF Init
<1>3. \A v \in Votes : Staked[v] = 0 /\ Unstaking[v] = 0
  <2>. SUFFICES ASSUME NEW v \in Votes
                PROVE  Staked[v] = 0 /\ Unstaking[v] = 0
    OBVIOUS
  <2>1. /\ SeedsOf(validators[v].stake_seeds) = {} /\ SeedsOf(validators[v].unstake_seeds) = {}
    BY <1>2 DEF NewValidator, SeedsOf
  <2>. QED
    BY <2>1, TotalsOf, LamportsOfNone
<1>4. B!Init
  <2>1. validators = [v \in Votes |-> B!NewBook("NotListed")]
    BY <1>2 DEF NewValidator, B!NewBook
  <2>2. Staked = [v \in Votes |-> 0] /\ Unstaking = [v \in Votes |-> 0]
    BY <1>3 DEF Staked, Unstaking
  <2>. QED
    BY <2>1, <2>2 DEF B!Init
<1>5. B!BooksInv
  BY <1>4, BookConstants, B!InitInv
<1>6. Tracked(validators) = 0
  <2>. DEFINE f == [v \in Votes |-> validators[v].stake_accounts_balance]
  <2>1. \A v \in Votes : f[v] = 0
    BY <1>2 DEF NewValidator
  <2>2. Tracked(validators) = SumFunctionOnSet(f, Votes)
    BY DEF Tracked
  <2>. HIDE DEF f
  <2>. QED
    BY <2>1, <2>2, SumOfZeros, SolidoAssumption
<1>7. get_sol_balance = 0
  <2>1. ManagedIsSum
    BY <1>1, <1>5, ManagedFits
  <2>2. reserve = 0
    BY DEF Init
  <2>. QED
    BY <1>6, <2>1, <2>2 DEF ManagedIsSum
<1>8. P!Init
  BY <1>7 DEF Init, P!Init
<1>9. P!TypeOK
  BY <1>8, PoolConstants, P!InitTypeOK
<1>10. P!SupplyIsCovered
  BY <1>8 DEF P!Init, P!SupplyIsCovered, P!PriceNum, P!PriceDen, P!IsOneToOne
<1>11. RateIsAtLeastPar
  BY DEF Init, RateIsAtLeastPar
<1>. QED
  BY <1>1, <1>4, <1>5, <1>8, <1>9, <1>10, <1>11 DEF SolidoInv

-----------------------------------------------------------------------------
(* Theorems *)

(***************************************************************************)
(* The inductive invariant: accounts before a seed range are empty and     *)
(* those after it are not created, no lamport is lost, the books are       *)
(* backed, and the stSOL supply is covered.                                *)
(***************************************************************************)
THEOREM SolidoInvariant == Spec => []SolidoInv
<1>1. SolidoInv /\ [Next]_vars => SolidoInv'
  BY NextSound DEF Sound
<1>. QED
  BY <1>1, InitSound, PTL DEF Spec

(***************************************************************************)
(* Every tracked balance is backed by lamports in the accounts of the seed *)
(* ranges, and without accounts none is tracked: observing a balance or    *)
(* removing a validator never aborts.                                      *)
(***************************************************************************)
THEOREM BalancesStaySound == Spec => []BalancesAreSound
<1>1. SolidoInv => BalancesAreSound
  <2>. SUFFICES ASSUME SolidoInv
                PROVE  BalancesAreSound
    OBVIOUS
  <2>1. AccountsInv /\ B!BooksInv
    BY DEF SolidoInv
  <2>2. TrackedIsBacked
    <3>. SUFFICES ASSUME NEW v \in Votes
                  PROVE  /\ validators[v].effective_stake_balance
                              <= SumLamports(stake_accounts[v], SeedsOf(validators[v].stake_seeds))
                         /\ validators[v].unstake_accounts_balance
                              <= SumLamports(unstake_accounts[v], SeedsOf(validators[v].unstake_seeds))
      BY DEF TrackedIsBacked, Listed
    <3>1. /\ validators[v].effective_stake_balance <= Staked[v]
          /\ validators[v].unstake_accounts_balance <= Unstaking[v]
      BY <2>1, BookOf
    <3>. QED
      BY <3>1, TotalsOf
  <2>3. NothingTrackedWithoutAccounts
    <3>. SUFFICES ASSUME NEW v \in Votes, ~has_stake_accounts(validators[v]),
                         ~has_unstake_accounts(validators[v])
                  PROVE  validators[v].stake_accounts_balance = 0
      BY DEF NothingTrackedWithoutAccounts, Listed
    <3>1. /\ validators[v].stake_seeds.begin = validators[v].stake_seeds.end
          /\ validators[v].unstake_seeds.begin = validators[v].unstake_seeds.end
      BY DEF has_stake_accounts, has_unstake_accounts
    <3>2. /\ Staked[v] = 0 /\ Unstaking[v] = 0 /\ validators[v] \in Validators
          /\ validators[v].stake_accounts_balance <= Staked[v] + Unstaking[v]
      BY <2>1, <3>1, BookOf
    <3>3. validators[v].stake_accounts_balance \in Nat
      BY <3>2, FieldTypes
    <3>. QED
      BY <3>2, <3>3
  <2>. QED
    BY <2>1, <2>2, <2>3 DEF BalancesAreSound, AccountsInv
<1>. QED
  BY <1>1, SolidoInvariant, PTL

(***************************************************************************)
(* The accounts of a seed range are in a phase that the range is for, and  *)
(* keep their rent: nothing an instruction withdraws is negative.          *)
(***************************************************************************)
THEOREM AccountsStayUsable == Spec => []AccountsInRangeAreUsable
<1>1. SolidoInv => AccountsInRangeAreUsable
  <2>. SUFFICES ASSUME SolidoInv, NEW v \in Votes
                PROVE  /\ \A s \in SeedsOf(validators[v].stake_seeds) :
                            /\ stake_accounts[v][s].phase \in {"activating", "active"}
                            /\ Excess(stake_accounts[v][s]) >= 0
                       /\ \A s \in SeedsOf(validators[v].unstake_seeds) :
                            unstake_accounts[v][s].phase \in {"deactivating", "inactive"}
    BY DEF AccountsInRangeAreUsable, Listed
  <2>1. /\ stake_accounts[v] \in Rows
        /\ StakesOrderly(validators[v].stake_seeds, stake_accounts[v])
        /\ UnstakesOrderly(validators[v].unstake_seeds, unstake_accounts[v])
        /\ validators[v].stake_seeds \in SeedRanges
        /\ SeedsOf(validators[v].stake_seeds) \in SUBSET Seeds
        /\ SeedsOf(validators[v].unstake_seeds) \in SUBSET Seeds
    BY OfValidator DEF SolidoInv
  <2>2. ASSUME NEW s \in SeedsOf(validators[v].stake_seeds)
        PROVE  /\ stake_accounts[v][s].phase \in {"activating", "active"}
               /\ Excess(stake_accounts[v][s]) >= 0
    <3>1. Usable(stake_accounts[v][s])
      BY <2>1, AccountInRange
    <3>2. Excess(stake_accounts[v][s]) \in Nat
      BY <3>1, DrainAccount
    <3>. QED
      BY <3>1, <3>2 DEF Usable
  <2>3. ASSUME NEW s \in SeedsOf(validators[v].unstake_seeds)
        PROVE  unstake_accounts[v][s].phase \in {"deactivating", "inactive"}
    BY <2>1 DEF UnstakesOrderly
  <2>. QED
    BY <2>2, <2>3
<1>. QED
  BY <1>1, SolidoInvariant, PTL

(***************************************************************************)
(* No SOL is left behind at a seed that the program has moved past, nor    *)
(* delegated to a validator that was removed.                              *)
(***************************************************************************)
THEOREM NothingGetsStranded == Spec => []NothingIsStranded
<1>1. SolidoInv => NothingIsStranded
  <2>. SUFFICES ASSUME SolidoInv, NEW v \in Votes
                PROVE  /\ \A s \in 0 .. (validators[v].stake_seeds.begin - 1) :
                            stake_accounts[v][s] = EmptyAccount
                       /\ \A s \in 0 .. (validators[v].unstake_seeds.begin - 1) :
                            unstake_accounts[v][s] = EmptyAccount
                       /\ v \notin Listed => \A s \in Seeds :
                            ~IsDelegated(stake_accounts[v][s]) /\ ~IsDelegated(unstake_accounts[v][s])
    BY DEF NothingIsStranded
  <2>. DEFINE range == validators[v].stake_seeds
              un == validators[v].unstake_seeds
  <2>1. AccountsInv /\ B!BooksInv
    BY DEF SolidoInv
  <2>2. /\ StakesOrderly(range, stake_accounts[v]) /\ UnstakesOrderly(un, unstake_accounts[v])
        /\ range.begin \in Nat /\ range.end \in Nat /\ un.begin \in Nat /\ un.end \in Nat
    BY <2>1, OfValidator, FieldTypes
  <2>3. v \notin Listed => range.begin = range.end /\ un.begin = un.end
    BY <2>1, BookOf DEF Listed
  <2>. HIDE DEF range, un
  <2>4. ASSUME NEW s \in 0 .. (range.begin - 1)
        PROVE  stake_accounts[v][s] = EmptyAccount
    <3>1. s \in Seeds /\ s < range.begin
      BY <2>2, SolidoAssumption DEF Seeds, StakesOrderly
    <3>. QED
      BY <2>2, <3>1 DEF StakesOrderly
  <2>5. ASSUME NEW s \in 0 .. (un.begin - 1)
        PROVE  unstake_accounts[v][s] = EmptyAccount
    <3>1. s \in Seeds /\ s < un.begin
      BY <2>2, SolidoAssumption DEF Seeds, UnstakesOrderly
    <3>. QED
      BY <2>2, <3>1 DEF UnstakesOrderly
  <2>6. ASSUME v \notin Listed, NEW s \in Seeds
        PROVE  ~IsDelegated(stake_accounts[v][s]) /\ ~IsDelegated(unstake_accounts[v][s])
    <3>1. s \in Nat
      BY SolidoAssumption DEF Seeds
    <3>2. EmptyAccount.phase = "none"
      BY DEF EmptyAccount, Undelegated
    <3>3. (s < range.begin \/ s >= range.end) /\ (s < un.begin \/ s >= un.end)
      BY <2>2, <2>3, <2>6, <3>1
    <3>. QED
      BY <2>2, <3>2, <3>3 DEF StakesOrderly, UnstakesOrderly, IsDelegated
  <2>. QED
    BY <2>4, <2>5, <2>6 DEF range, un
<1>. QED
  BY <1>1, SolidoInvariant, PTL

(***************************************************************************)
(* An unstake that passes every check up to the computation of the         *)
(* effective balance panics there only while a reward or a donation of the *)
(* validator is unrecorded.                                                *)
(***************************************************************************)
THEOREM UnstakeBalanceKeepsFitting == Spec => []UnstakeBalanceFits
<1>1. SolidoInv => UnstakeBalanceFits
  <2>. SUFFICES ASSUME SolidoInv, NEW v \in Votes, NEW amount \in StakeAmounts,
                       CanUnstake(v, amount),
                       ~CanComputeEffective(WithUnstake(validators[v], amount))
                PROVE  SumLamports(stake_accounts[v], SeedsOf(validators[v].stake_seeds))
                         + SumLamports(unstake_accounts[v], SeedsOf(validators[v].unstake_seeds))
                       > validators[v].stake_accounts_balance
    BY DEF UnstakeBalanceFits
  <2>. DEFINE val == validators[v]
              range == val.stake_seeds
              row == stake_accounts[v]
              source == row[range.begin]
              total == val.stake_accounts_balance
              unstake == val.unstake_accounts_balance
              effective == val.effective_stake_balance
  <2>1. AccountsInv /\ B!BooksInv /\ amount \in Nat
    BY SolidoAssumption DEF SolidoInv
  <2>2. /\ val \in Validators /\ row \in Rows /\ range \in SeedRanges
        /\ range.begin \in Nat /\ range.end \in Nat /\ range.begin <= range.end
        /\ SeedsOf(range) \in SUBSET Seeds
        /\ total \in Nat /\ unstake \in Nat /\ effective \in Nat
    BY <2>1, OfValidator, FieldTypes DEF StakesOrderly
  <2>3. ~(unstake + amount <= total)
    <3>. HIDE DEF val
    <3>1. ~CanComputeEffective(WithUnstake(val, amount))
      BY DEF val
    <3>. QED
      BY <2>2, <3>1 DEF CanComputeEffective, WithUnstake, Validators
  <2>4. range.begin # range.end /\ amount <= source.lamports
    BY DEF CanUnstake, has_stake_accounts, CanSplit
  <2>5. /\ Staked[v] \in Nat /\ Unstaking[v] \in Nat
        /\ total = effective + unstake /\ effective <= Staked[v] /\ unstake <= Unstaking[v]
    BY <2>1, BookOf
  <2>6. Staked[v] = SumLamports(row, SeedsOf(range))
        /\ Unstaking[v] = SumLamports(unstake_accounts[v], SeedsOf(val.unstake_seeds))
    BY TotalsOf
  <2>. HIDE DEF val, range, row, total, unstake, effective
  <2>7. source.lamports \in Nat /\ source.lamports <= Staked[v]
    <3>1. range.begin \in SeedsOf(range)
      BY <2>2, <2>4 DEF SeedsOf
    <3>2. source.lamports \in Nat
      BY <2>2, <3>1 DEF Rows, StakeAccounts
    <3>. QED
      BY <2>2, <2>6, <3>1, <3>2, LamportsNat
  <2>. HIDE DEF source
  <2>8. Staked[v] + Unstaking[v] > total
    BY <2>1, <2>2, <2>3, <2>4, <2>5, <2>7
  <2>. QED
    BY <2>6, <2>8 DEF val, range, row, total
<1>. QED
  BY <1>1, SolidoInvariant, PTL

\* StakeBook and Pool as the properties name them, and as they are proved about.
LEMMA SameBooks ==
    /\ B!Init => Books!Init
    /\ [B!Next]_(B!vars) => [Books!Next]_(Books!vars)
<1>1. B!Init => Books!Init
  BY DEF B!Init, Books!Init, B!NewBook, Books!NewBook
<1>2. /\ \A v \in Votes : B!IsListed(v) <=> Books!IsListed(v)
      /\ \A r : B!Width(r) = Books!Width(r)
      /\ \A r, n : B!Skip(r, n) = Books!Skip(r, n) /\ B!Extend(r, n) = Books!Extend(r, n)
      /\ \A st, r, q, t, x : B!Entry(st, r, q, t, x) = Books!Entry(st, r, q, t, x)
      /\ \A st : B!NewBook(st) = Books!NewBook(st)
      /\ \A b : B!HasUnstakeRoom(b) <=> Books!HasUnstakeRoom(b)
      /\ B!Statuses = Books!Statuses
  BY DEF B!IsListed, Books!IsListed, B!Width, Books!Width, B!Skip, Books!Skip, B!Extend, Books!Extend,
         B!Entry, Books!Entry, B!NewBook, Books!NewBook, B!HasUnstakeRoom, Books!HasUnstakeRoom,
         B!Statuses, Books!Statuses
<1>3. ASSUME NEW v \in Votes
      PROVE  /\ B!AddValidator(v) => Books!AddValidator(v)
             /\ B!RemoveValidator(v) => Books!RemoveValidator(v)
             /\ B!MergeStake(v) => Books!MergeStake(v)
             /\ \A status : B!ChangeStatus(v, status) => Books!ChangeStatus(v, status)
  BY <1>2, Zenon DEF B!AddValidator, Books!AddValidator, B!RemoveValidator, Books!RemoveValidator,
              B!MergeStake, Books!MergeStake, B!ChangeStatus, Books!ChangeStatus
<1>4. ASSUME NEW v \in Votes, NEW amount, NEW found
      PROVE  /\ \A append : B!StakeDeposit(v, amount, found, append)
                              => Books!StakeDeposit(v, amount, found, append)
             /\ B!Unstake(v, amount, found) => Books!Unstake(v, amount, found)
             /\ B!Withdraw(v, amount) => Books!Withdraw(v, amount)
  BY <1>2, Zenon DEF B!StakeDeposit, Books!StakeDeposit, B!Unstake, Books!Unstake,
              B!Withdraw, Books!Withdraw
<1>5. ASSUME NEW v \in Votes, NEW excess, NEW n, NEW removed
      PROVE  B!UpdateStakeAccountBalance(v, excess, n, removed)
               => Books!UpdateStakeAccountBalance(v, excess, n, removed)
  BY <1>2, Zenon DEF B!UpdateStakeAccountBalance, Books!UpdateStakeAccountBalance, B!SkipEmptied,
              Books!SkipEmptied, B!ObserveBalance, Books!ObserveBalance
<1>6. ASSUME NEW g, NEW h
      PROVE  B!Receive(g, h) => Books!Receive(g, h)
  BY <1>2, Zenon DEF B!Receive, Books!Receive
<1>7. B!Step => Books!Step
  <2>. SUFFICES ASSUME B!Step
                PROVE  Books!Step
    OBVIOUS
  <2>1. ASSUME NEW v \in Votes, B!AddValidator(v) \/ B!RemoveValidator(v) \/ B!MergeStake(v)
        PROVE  Books!Step
    BY <1>3, <2>1 DEF Books!Step
  <2>2. ASSUME NEW v \in Votes, NEW status \in B!Statuses \ {"NotListed"},
               B!ChangeStatus(v, status)
        PROVE  Books!Step
    BY <1>2, <1>3, <2>2 DEF Books!Step
  <2>3. ASSUME NEW v \in Votes, NEW amount \in 0..TotalSol, NEW found \in 0..TotalSol,
               NEW append \in BOOLEAN,
               \/ B!StakeDeposit(v, amount, found, append)
               \/ B!Unstake(v, amount, found) \/ B!Withdraw(v, amount)
        PROVE  Books!Step
    BY <1>4, <2>3 DEF Books!Step
  <2>4. ASSUME NEW v \in Votes, NEW excess \in 0..TotalSol, NEW removed \in 0..TotalSol,
               NEW n \in 0..MAXIMUM_UNSTAKE_ACCOUNTS,
               B!UpdateStakeAccountBalance(v, excess, n, removed)
        PROVE  Books!Step
    BY <1>5, <2>4 DEF Books!Step
  <2>5. ASSUME NEW g \in [Votes -> 0..TotalSol], NEW h \in [Votes -> 0..TotalSol], B!Receive(g, h)
        PROVE  Books!Step
    BY <1>6, <2>5 DEF Books!Step
  <2>. QED
    BY <2>1, <2>2, <2>3, <2>4, <2>5 DEF B!Step
<1>8. B!WithinBounds => Books!WithinBounds
  BY DEF B!WithinBounds, Books!WithinBounds
<1>9. B!vars = Books!vars /\ (UNCHANGED B!vars => UNCHANGED Books!vars)
  BY DEF B!vars, Books!vars
<1>. QED
  BY <1>1, <1>7, <1>8, <1>9 DEF B!Next, Books!Next

LEMMA SamePool ==
    /\ P!Init => Pool!Init
    /\ [P!Next]_(P!vars) => [Pool!Next]_(Pool!vars)
<1>1. P!Init => Pool!Init
  BY DEF P!Init, Pool!Init
<1>2. /\ \A r, a : P!exchange_sol(r, a) = Pool!exchange_sol(r, a)
      /\ \A r, a : P!exchange_st_sol(r, a) = Pool!exchange_st_sol(r, a)
      /\ \A r : P!CanExchangeStSol(r) <=> Pool!CanExchangeStSol(r)
      /\ \A d : P!DistributionSum(d) = Pool!DistributionSum(d)
  BY DEF P!exchange_sol, Pool!exchange_sol, P!exchange_st_sol, Pool!exchange_st_sol,
         P!MulRational, Pool!MulRational, P!IsOneToOne, Pool!IsOneToOne,
         P!CanExchangeStSol, Pool!CanExchangeStSol, P!DistributionSum, Pool!DistributionSum
<1>3. \A r, d, x : P!FeesMinted(r, d, x) = Pool!FeesMinted(r, d, x)
  BY <1>2 DEF P!FeesMinted, Pool!FeesMinted, P!split_reward, Pool!split_reward,
              P!MulRational, Pool!MulRational
<1>4. ASSUME NEW amount
      PROVE  /\ P!Deposit(amount) => Pool!Deposit(amount)
             /\ P!Donate(amount) => Pool!Donate(amount)
             /\ P!Withdraw(amount) => Pool!Withdraw(amount)
             /\ P!Burn(amount) => Pool!Burn(amount)
  BY <1>2, Zenon DEF P!Deposit, Pool!Deposit, P!Donate, Pool!Donate, P!Withdraw, Pool!Withdraw,
              P!Burn, Pool!Burn
<1>5. \A reward, dist : P!ObserveReward(reward, dist) => Pool!ObserveReward(reward, dist)
  BY <1>2, <1>3, Zenon DEF P!ObserveReward, Pool!ObserveReward
<1>6. /\ P!UpdateExchangeRate => Pool!UpdateExchangeRate
      /\ P!NextEpoch => Pool!NextEpoch
  BY DEF P!UpdateExchangeRate, Pool!UpdateExchangeRate, P!NextEpoch, Pool!NextEpoch
<1>7. P!Next => Pool!Next
  BY <1>4, <1>5, <1>6, Zenon DEF P!Next, Pool!Next
<1>8. P!vars = Pool!vars /\ (UNCHANGED P!vars => UNCHANGED Pool!vars)
  BY DEF P!vars, Pool!vars
<1>. QED
  BY <1>1, <1>7, <1>8

(***************************************************************************)
(* The program keeps its books as StakeBook says: every change of tracked  *)
(* balances and seed ranges goes with the right change of the lamports.    *)
(***************************************************************************)
THEOREM SolidoImplementsBooks == Spec => ImplementsBooks
<1>1. Init => Books!Init
  BY InitSound, SameBooks
<1>2. SolidoInv /\ [Next]_vars => [Books!Next]_(Books!vars)
  BY NextSound, SameBooks DEF Sound
<1>. QED
  BY <1>1, <1>2, SolidoInvariant, PTL DEF Spec, ImplementsBooks, Books!Spec

(***************************************************************************)
(* The program is a Pool: an instruction either leaves the managed SOL and *)
(* the supply alone or is one of the operations of Pool.                   *)
(***************************************************************************)
THEOREM SolidoImplementsPool == Spec => ImplementsPool
<1>1. Init => Pool!Init
  BY InitSound, SamePool
<1>2. SolidoInv /\ [Next]_vars => [Pool!Next]_(Pool!vars)
  BY NextSound, SamePool DEF Sound, PoolStep
<1>. QED
  BY <1>1, <1>2, SolidoInvariant, PTL DEF Spec, ImplementsPool, Pool!Spec

(***************************************************************************)
(* All stSOL in existence is worth no more than the SOL that the program   *)
(* manages, at the recorded rate.                                          *)
(***************************************************************************)
THEOREM SolidoSupplyIsCovered == Spec => []Pool!SupplyIsCovered
<1>1. SolidoInv => Pool!SupplyIsCovered
  BY DEF SolidoInv, P!SupplyIsCovered, Pool!SupplyIsCovered, P!PriceNum, Pool!PriceNum, P!PriceDen,
         Pool!PriceDen, P!IsOneToOne, Pool!IsOneToOne
<1>. QED
  BY <1>1, SolidoInvariant, PTL

(***************************************************************************)
(* UpdateExchangeRate never records fewer SOL per stSOL than before, while *)
(* there is stSOL.                                                         *)
(***************************************************************************)
THEOREM SolidoPriceNeverDrops == Spec => Pool!PriceNeverDrops
<1>1. SolidoInv /\ [Next]_vars
        => [exchange_rate'.st_sol_supply > 0
               => Pool!NotLower(exchange_rate, exchange_rate')]_(Pool!vars)
  <2>. SUFFICES ASSUME SolidoInv, [Next]_vars, exchange_rate'.st_sol_supply > 0
                PROVE  Pool!NotLower(exchange_rate, exchange_rate')
    OBVIOUS
  <2>1. P!TypeOK /\ P!SupplyIsCovered /\ [P!Next]_(P!vars)
    BY NextSound DEF Sound, PoolStep, SolidoInv
  <2>2. P!NotLower(exchange_rate, exchange_rate')
    BY <2>1, PoolConstants, P!NextPrice
  <2>. QED
    BY <2>2 DEF P!NotLower, Pool!NotLower, P!PriceNum, Pool!PriceNum, P!PriceDen,
                Pool!PriceDen, P!IsOneToOne, Pool!IsOneToOne
<1>. QED
  BY <1>1, SolidoInvariant, PTL DEF Spec, Pool!PriceNeverDrops

(***************************************************************************)
(* A validator that is queued for removal stays so until it is removed,    *)
(* and it is removed only when no lamports are left in its accounts.       *)
(***************************************************************************)
THEOREM SolidoPendingRemovalIsIrreversible == Spec => Books!PendingRemovalIsIrreversible
<1>1. SolidoInv /\ [Next]_vars =>
        [\A v \in Votes : validators[v].status = "PendingRemoval" =>
            \/ validators'[v].status = "PendingRemoval"
            \/ validators'[v].status = "NotListed" /\ Staked[v] = 0 /\ Unstaking[v] = 0]_(Books!vars)
  <2>. SUFFICES ASSUME SolidoInv, [Next]_vars, NEW v \in Votes,
                       validators[v].status = "PendingRemoval"
                PROVE  \/ validators'[v].status = "PendingRemoval"
                       \/ validators'[v].status = "NotListed" /\ Staked[v] = 0 /\ Unstaking[v] = 0
    OBVIOUS
  <2>1. B!BooksInv /\ [B!Next]_(B!vars)
    BY NextSound DEF Sound, SolidoInv
  <2>. QED
    BY <2>1, BookConstants, B!NextPendingRemoval
<1>. QED
  BY <1>1, SolidoInvariant, PTL DEF Spec, Books!PendingRemovalIsIrreversible

=============================================================================
