--------------------------- MODULE StakeBookProofs ---------------------------
(***************************************************************************)
(* The books of the validators, for any set of validators, any amounts and *)
(* any limit on the number of unstake accounts.                            *)
(***************************************************************************)
EXTENDS StakeBook, TLAPS

\* What holds for the entry of one validator, given the two totals.
EntryOK(b, s, u) ==
    /\ b \in Books
    /\ s \in Nat
    /\ u \in Nat
    /\ b.stake_seeds.begin <= b.stake_seeds.end
    /\ b.unstake_seeds.begin <= b.unstake_seeds.end
    /\ Width(b.unstake_seeds) <= MAXIMUM_UNSTAKE_ACCOUNTS
    /\ b.stake_accounts_balance = b.effective_stake_balance + b.unstake_accounts_balance
    /\ Width(b.stake_seeds) = 0 => s = 0
    /\ Width(b.unstake_seeds) = 0 => u = 0
    /\ b.status = "NotListed" => Width(b.stake_seeds) = 0 /\ Width(b.unstake_seeds) = 0
    /\ s >= b.effective_stake_balance
    /\ u >= b.unstake_accounts_balance

Functions == /\ book \in [Votes -> Books]
             /\ staked \in [Votes -> Nat]
             /\ unstaking \in [Votes -> Nat]

\* The invariant, validator by validator.
LEMMA BooksInvByEntry ==
    BooksInv <=> /\ Functions
                 /\ \A v \in Votes : EntryOK(book[v], staked[v], unstaking[v])
BY DEF BooksInv, Functions, EntryOK, TypeOK, RangesAreOrdered, EffectiveIsDifference,
       EmptyRangesHoldNothing, BooksAreBacked, ObserveBalance, IsListed

\* A step that writes the entry of one validator.
LEMMA OneEntry ==
    ASSUME BooksInv, NEW v \in Votes, NEW b, NEW s, NEW u, EntryOK(b, s, u),
           book' = [book EXCEPT ![v] = b],
           staked' = [staked EXCEPT ![v] = s],
           unstaking' = [unstaking EXCEPT ![v] = u]
    PROVE  BooksInv'
<1>1. Functions /\ \A w \in Votes : EntryOK(book[w], staked[w], unstaking[w])
  BY BooksInvByEntry
<1>2. b \in Books /\ s \in Nat /\ u \in Nat
  BY DEF EntryOK
<1>3. Functions'
  BY <1>1, <1>2 DEF Functions
<1>4. ASSUME NEW w \in Votes
      PROVE  EntryOK(book[w], staked[w], unstaking[w])'
  <2>1. CASE w = v
    <3>1. book'[w] = b /\ staked'[w] = s /\ unstaking'[w] = u
      BY <1>1, <2>1 DEF Functions
    <3>. QED
      BY <3>1 DEF EntryOK, Width
  <2>2. CASE w # v
    <3>1. book'[w] = book[w] /\ staked'[w] = staked[w] /\ unstaking'[w] = unstaking[w]
      BY <1>1, <2>2 DEF Functions
    <3>. QED
      BY <1>1, <3>1 DEF EntryOK, Width
  <2>. QED
    BY <2>1, <2>2
<1>. QED
  BY <1>3, <1>4 DEF BooksInv, Functions, EntryOK, TypeOK, RangesAreOrdered,
       EffectiveIsDifference, EmptyRangesHoldNothing, BooksAreBacked, ObserveBalance, IsListed

\* What is known of one entry before a step.
LEMMA EntryOf ==
    ASSUME BooksInv, NEW v \in Votes
    PROVE  /\ EntryOK(book[v], staked[v], unstaking[v])
           /\ book \in [Votes -> Books]
           /\ staked \in [Votes -> Nat]
           /\ unstaking \in [Votes -> Nat]
BY BooksInvByEntry DEF Functions

\* The empty books of a validator that is added or was removed.
LEMMA NewBookOK ==
    ASSUME NEW status \in Statuses
    PROVE  EntryOK(NewBook(status), 0, 0)
BY BookAssumption DEF EntryOK, NewBook, Books, Ranges, Width

LEMMA InitInv == Init => BooksInv
<1>. SUFFICES ASSUME Init
              PROVE  BooksInv
  OBVIOUS
<1>1. "NotListed" \in Statuses
  BY DEF Statuses
<1>2. EntryOK(NewBook("NotListed"), 0, 0)
  BY <1>1, NewBookOK
<1>3. Functions
  BY <1>2 DEF Init, Functions, EntryOK
<1>4. \A v \in Votes : EntryOK(book[v], staked[v], unstaking[v])
  BY <1>2 DEF Init
<1>. QED
  BY <1>3, <1>4, BooksInvByEntry

\* The fields of a derived entry.
LEMMA EntryFields ==
    ASSUME NEW status \in Statuses, NEW st \in Ranges, NEW un \in Ranges,
           NEW total \in Nat, NEW unstake \in Nat, unstake <= total
    PROVE  LET e == Entry(status, st, un, total, unstake)
           IN  /\ e \in Books
               /\ e.status = status
               /\ e.stake_seeds = st
               /\ e.unstake_seeds = un
               /\ e.stake_accounts_balance = total
               /\ e.unstake_accounts_balance = unstake
               /\ e.effective_stake_balance = total - unstake
BY DEF Entry, Books

LEMMA RangeFields ==
    ASSUME NEW range \in Ranges, NEW n \in Nat
    PROVE  /\ Skip(range, n) \in Ranges
           /\ Skip(range, n).begin = range.begin + n
           /\ Skip(range, n).end = range.end
           /\ Extend(range, n) \in Ranges
           /\ Extend(range, n).begin = range.begin
           /\ Extend(range, n).end = range.end + n
BY DEF Skip, Extend, Ranges

\* What makes an entry all right, in terms of its fields.
Parts(status, st, un, total, unstake, s, u) ==
    /\ status \in Statuses
    /\ st \in Ranges
    /\ un \in Ranges
    /\ st.begin \in Nat
    /\ st.end \in Nat
    /\ un.begin \in Nat
    /\ un.end \in Nat
    /\ total \in Nat
    /\ unstake \in Nat
    /\ s \in Nat
    /\ u \in Nat
    /\ unstake <= total
    /\ st.begin <= st.end
    /\ un.begin <= un.end
    /\ un.end - un.begin <= MAXIMUM_UNSTAKE_ACCOUNTS
    /\ st.begin = st.end => s = 0
    /\ un.begin = un.end => u = 0
    /\ status = "NotListed" => st.begin = st.end
    /\ status = "NotListed" => un.begin = un.end
    /\ s + unstake >= total
    /\ u >= unstake

LEMMA EntryOKParts ==
    ASSUME NEW status, NEW st, NEW un, NEW total, NEW unstake, NEW s, NEW u,
           Parts(status, st, un, total, unstake, s, u)
    PROVE  EntryOK(Entry(status, st, un, total, unstake), s, u)
<1>. DEFINE e == Entry(status, st, un, total, unstake)
<1>1. /\ e \in Books
      /\ e.status = status
      /\ e.stake_seeds = st
      /\ e.unstake_seeds = un
      /\ e.stake_accounts_balance = total
      /\ e.unstake_accounts_balance = unstake
      /\ e.effective_stake_balance = total - unstake
  BY EntryFields DEF Parts
<1>. HIDE DEF e
<1>2. EntryOK(e, s, u)
  BY <1>1, BookAssumption DEF EntryOK, Width, Parts
<1>. QED
  BY <1>2 DEF e

\* An entry that is all right has such fields.
LEMMA PartsOfEntry ==
    ASSUME BooksInv, NEW v \in Votes
    PROVE  LET b == book[v]
           IN  /\ Parts(b.status, b.stake_seeds, b.unstake_seeds, b.stake_accounts_balance,
                        b.unstake_accounts_balance, staked[v], unstaking[v])
               /\ b.effective_stake_balance
                     = b.stake_accounts_balance - b.unstake_accounts_balance
<1>. DEFINE b == book[v]
            s == staked[v]
            u == unstaking[v]
<1>1. EntryOK(b, s, u)
  BY EntryOf
<1>. HIDE DEF b, s, u
<1>2. /\ b.status \in Statuses
      /\ b.stake_seeds \in Ranges
      /\ b.unstake_seeds \in Ranges
      /\ b.stake_accounts_balance \in Nat
      /\ b.unstake_accounts_balance \in Nat
      /\ b.effective_stake_balance \in Nat
  BY <1>1 DEF EntryOK, Books
<1>. DEFINE st == b.stake_seeds
            un == b.unstake_seeds
<1>3. st.begin \in Nat /\ st.end \in Nat /\ un.begin \in Nat /\ un.end \in Nat
  BY <1>2 DEF Ranges
<1>4. /\ s \in Nat
      /\ u \in Nat
      /\ st.begin <= st.end
      /\ un.begin <= un.end
      /\ un.end - un.begin <= MAXIMUM_UNSTAKE_ACCOUNTS
      /\ st.begin = st.end => s = 0
      /\ un.begin = un.end => u = 0
      /\ b.status = "NotListed" => st.begin = st.end
      /\ b.status = "NotListed" => un.begin = un.end
      /\ s >= b.effective_stake_balance
      /\ u >= b.unstake_accounts_balance
      /\ b.stake_accounts_balance = b.effective_stake_balance + b.unstake_accounts_balance
  BY <1>1, <1>3, BookAssumption DEF EntryOK, Width
<1>5. /\ b.unstake_accounts_balance <= b.stake_accounts_balance
      /\ s + b.unstake_accounts_balance >= b.stake_accounts_balance
      /\ b.effective_stake_balance = b.stake_accounts_balance - b.unstake_accounts_balance
  BY <1>2, <1>4
<1>. QED
  BY <1>2, <1>3, <1>4, <1>5 DEF Parts, b, s, u

\* A step that writes the derived entry of one validator.
LEMMA OneParts ==
    ASSUME BooksInv, NEW v \in Votes, NEW status, NEW st, NEW un, NEW total, NEW unstake,
           NEW s, NEW u, Parts(status, st, un, total, unstake, s, u),
           book' = [book EXCEPT ![v] = Entry(status, st, un, total, unstake)],
           staked' = [staked EXCEPT ![v] = s],
           unstaking' = [unstaking EXCEPT ![v] = u]
    PROVE  BooksInv'
<1>1. EntryOK(Entry(status, st, un, total, unstake), s, u)
  BY EntryOKParts
<1>. QED
  BY <1>1, OneEntry

-----------------------------------------------------------------------------
(* One lemma per action *)

LEMMA StakeDepositInv ==
    ASSUME BooksInv, NEW v \in Votes, NEW amount \in Nat, NEW found \in Nat,
           NEW append \in BOOLEAN, StakeDeposit(v, amount, found, append)
    PROVE  BooksInv'
<1>. DEFINE b == book[v]
            s == staked[v]
            u == unstaking[v]
            un == b.unstake_seeds
            unstake == b.unstake_accounts_balance
            n == IF append THEN 1 ELSE 0
            st == Extend(b.stake_seeds, n)
            total == b.stake_accounts_balance + amount
            sum == s + amount + found
<1>1. /\ book' = [book EXCEPT ![v] = Entry(b.status, st, un, total, unstake)]
      /\ staked' = [staked EXCEPT ![v] = sum]
      /\ unstaking' = [unstaking EXCEPT ![v] = u]
  BY EntryOf DEF StakeDeposit
<1>2. Parts(b.status, b.stake_seeds, un, b.stake_accounts_balance, unstake, s, u)
  BY PartsOfEntry
<1>3. /\ b.status = "AcceptingStakes"
      /\ append \/ b.stake_seeds.end - b.stake_seeds.begin > 0
      /\ n \in Nat
      /\ append => n = 1
      /\ ~append => n = 0
  BY DEF StakeDeposit, Width
<1>. HIDE DEF b, s, u, n, un, unstake
<1>4. /\ st \in Ranges
      /\ st.begin = b.stake_seeds.begin
      /\ st.end = b.stake_seeds.end + n
  BY <1>2, <1>3, RangeFields DEF Parts
<1>. HIDE DEF st
<1>5. Parts(b.status, st, un, total, unstake, sum, u)
  BY <1>2, <1>3, <1>4 DEF Parts
<1>. HIDE DEF total, sum
<1>. QED
  BY <1>1, <1>5, OneParts

LEMMA UnstakeInv ==
    ASSUME BooksInv, NEW v \in Votes, NEW amount \in Nat, NEW found \in Nat,
           Unstake(v, amount, found)
    PROVE  BooksInv'
<1>. DEFINE b == book[v]
            s == staked[v]
            u == unstaking[v]
            active == b.status = "AcceptingStakes"
            n == IF active THEN 0 ELSE 1
            st == Skip(b.stake_seeds, n)
            un == Extend(b.unstake_seeds, 1)
            total == b.stake_accounts_balance
            unstake == b.unstake_accounts_balance + amount
            left == s - amount
            sum == u + amount + found
<1>1. /\ book' = [book EXCEPT ![v] = Entry(b.status, st, un, total, unstake)]
      /\ staked' = [staked EXCEPT ![v] = left]
      /\ unstaking' = [unstaking EXCEPT ![v] = sum]
  BY EntryOf DEF Unstake
<1>2. Parts(b.status, b.stake_seeds, b.unstake_seeds, total, b.unstake_accounts_balance, s, u)
  BY PartsOfEntry
<1>3. /\ b.status # "NotListed"
      /\ b.stake_seeds.end - b.stake_seeds.begin > 0
      /\ b.unstake_seeds.end - b.unstake_seeds.begin < MAXIMUM_UNSTAKE_ACCOUNTS
      /\ amount <= s
      /\ n \in {0, 1}
      /\ n = 1 /\ b.stake_seeds.end - b.stake_seeds.begin = 1 => amount = s
      /\ unstake <= total
  BY DEF Unstake, HasUnstakeRoom, Width, IsListed
<1>. HIDE DEF b, s, u, n, total
<1>4. /\ st \in Ranges
      /\ st.begin = b.stake_seeds.begin + n
      /\ st.end = b.stake_seeds.end
  <2>1. n \in Nat /\ b.stake_seeds \in Ranges
    BY <1>2, <1>3 DEF Parts
  <2>. QED
    BY <2>1, RangeFields
<1>5. /\ un \in Ranges
      /\ un.begin = b.unstake_seeds.begin
      /\ un.end = b.unstake_seeds.end + 1
  <2>1. b.unstake_seeds \in Ranges
    BY <1>2 DEF Parts
  <2>. QED
    BY <2>1, RangeFields
<1>. HIDE DEF st, un
<1>6. Parts(b.status, st, un, total, unstake, left, sum)
  BY <1>2, <1>3, <1>4, <1>5, BookAssumption DEF Parts
<1>. HIDE DEF unstake, left, sum
<1>. QED
  BY <1>1, <1>6, OneParts

LEMMA WithdrawInv ==
    ASSUME BooksInv, NEW v \in Votes, NEW amount \in Nat, Withdraw(v, amount)
    PROVE  BooksInv'
<1>. DEFINE b == book[v]
            s == staked[v]
            u == unstaking[v]
            st == b.stake_seeds
            un == b.unstake_seeds
            unstake == b.unstake_accounts_balance
            total == b.stake_accounts_balance - amount
            left == s - amount
<1>1. /\ book' = [book EXCEPT ![v] = Entry(b.status, st, un, total, unstake)]
      /\ staked' = [staked EXCEPT ![v] = left]
      /\ unstaking' = [unstaking EXCEPT ![v] = u]
  BY EntryOf DEF Withdraw
<1>2. Parts(b.status, st, un, b.stake_accounts_balance, unstake, s, u)
  BY PartsOfEntry
<1>3. /\ st.end - st.begin > 0
      /\ amount <= s
      /\ unstake + amount <= b.stake_accounts_balance
  BY DEF Withdraw, Width
<1>. HIDE DEF b, s, u, st, un, unstake
<1>4. Parts(b.status, st, un, total, unstake, left, u)
  BY <1>2, <1>3 DEF Parts
<1>. HIDE DEF total, left
<1>. QED
  BY <1>1, <1>4, OneParts

LEMMA UpdateStakeAccountBalanceInv ==
    ASSUME BooksInv, NEW v \in Votes, NEW excess \in Nat, NEW n \in Nat, NEW removed \in Nat,
           UpdateStakeAccountBalance(v, excess, n, removed)
    PROVE  BooksInv'
<1>. DEFINE b == book[v]
            s == staked[v]
            u == unstaking[v]
            st == b.stake_seeds
            un == Skip(b.unstake_seeds, n)
            left == s - excess
            rest == u - removed
            total == left + rest
<1>1. /\ book' = [book EXCEPT ![v] = Entry(b.status, st, un, total, rest)]
      /\ staked' = [staked EXCEPT ![v] = left]
      /\ unstaking' = [unstaking EXCEPT ![v] = rest]
  BY EntryOf DEF UpdateStakeAccountBalance
<1>2. Parts(b.status, st, b.unstake_seeds, b.stake_accounts_balance,
            b.unstake_accounts_balance, s, u)
  BY PartsOfEntry
<1>3. /\ b.status # "NotListed"
      /\ excess <= s
      /\ removed <= u
      /\ n <= b.unstake_seeds.end - b.unstake_seeds.begin
      /\ n = b.unstake_seeds.end - b.unstake_seeds.begin => removed = u
  BY DEF UpdateStakeAccountBalance, SkipEmptied, Width, IsListed
<1>. HIDE DEF b, s, u, st
<1>4. /\ un \in Ranges
      /\ un.begin = b.unstake_seeds.begin + n
      /\ un.end = b.unstake_seeds.end
  BY <1>2, RangeFields DEF Parts
<1>. HIDE DEF un
<1>5. Parts(b.status, st, un, total, rest, left, rest)
  BY <1>2, <1>3, <1>4, BookAssumption DEF Parts
<1>. HIDE DEF total, left, rest
<1>. QED
  BY <1>1, <1>5, OneParts

LEMMA MergeStakeInv ==
    ASSUME BooksInv, NEW v \in Votes, MergeStake(v)
    PROVE  BooksInv'
<1>. DEFINE b == book[v]
            s == staked[v]
            u == unstaking[v]
            st == Skip(b.stake_seeds, 1)
            new == [b EXCEPT !.stake_seeds = st]
<1>1. /\ book' = [book EXCEPT ![v] = new]
      /\ staked' = [staked EXCEPT ![v] = s]
      /\ unstaking' = [unstaking EXCEPT ![v] = u]
  BY EntryOf DEF MergeStake
<1>2. Parts(b.status, b.stake_seeds, b.unstake_seeds, b.stake_accounts_balance,
            b.unstake_accounts_balance, s, u)
  BY PartsOfEntry
<1>3. b.stake_seeds.end - b.stake_seeds.begin > 1
  BY DEF MergeStake, Width
<1>4. EntryOK(b, s, u)
  BY EntryOf
<1>. HIDE DEF b, s, u
<1>5. /\ st \in Ranges
      /\ st.begin = b.stake_seeds.begin + 1
      /\ st.end = b.stake_seeds.end
  <2>1. b.stake_seeds \in Ranges
    BY <1>2 DEF Parts
  <2>. QED
    BY <2>1, RangeFields
<1>. HIDE DEF st
<1>6. /\ new \in Books
      /\ new.status = b.status
      /\ new.stake_seeds = st
      /\ new.unstake_seeds = b.unstake_seeds
      /\ new.stake_accounts_balance = b.stake_accounts_balance
      /\ new.unstake_accounts_balance = b.unstake_accounts_balance
      /\ new.effective_stake_balance = b.effective_stake_balance
  BY <1>4, <1>5 DEF EntryOK, Books
<1>7. st.begin < st.end /\ b.status # "NotListed"
  BY <1>2, <1>3, <1>5 DEF Parts
<1>. HIDE DEF new
<1>8. EntryOK(new, s, u)
  BY <1>2, <1>4, <1>5, <1>6, <1>7 DEF EntryOK, Width, Parts
<1>. QED
  BY <1>1, <1>8, OneEntry

LEMMA ChangeStatusInv ==
    ASSUME BooksInv, NEW v \in Votes, NEW status \in Statuses \ {"NotListed"},
           ChangeStatus(v, status)
    PROVE  BooksInv'
<1>. DEFINE b == book[v]
            s == staked[v]
            u == unstaking[v]
            new == [b EXCEPT !.status = status]
<1>1. /\ book' = [book EXCEPT ![v] = new]
      /\ staked' = [staked EXCEPT ![v] = s]
      /\ unstaking' = [unstaking EXCEPT ![v] = u]
  BY EntryOf DEF ChangeStatus
<1>2. EntryOK(b, s, u)
  BY EntryOf
<1>. HIDE DEF b, s, u
<1>3. /\ new \in Books
      /\ new.status = status
      /\ new.stake_seeds = b.stake_seeds
      /\ new.unstake_seeds = b.unstake_seeds
      /\ new.stake_accounts_balance = b.stake_accounts_balance
      /\ new.unstake_accounts_balance = b.unstake_accounts_balance
      /\ new.effective_stake_balance = b.effective_stake_balance
  BY <1>2 DEF EntryOK, Books
<1>. HIDE DEF new
<1>4. EntryOK(new, s, u)
  BY <1>2, <1>3 DEF EntryOK
<1>. QED
  BY <1>1, <1>4, OneEntry

\* Adding and removing a validator writes empty books over empty accounts.
LEMMA NewBookInv ==
    ASSUME BooksInv, NEW v \in Votes, NEW status \in Statuses,
           staked[v] = 0, unstaking[v] = 0,
           book' = [book EXCEPT ![v] = NewBook(status)],
           UNCHANGED <<staked, unstaking>>
    PROVE  BooksInv'
<1>1. EntryOK(NewBook(status), 0, 0)
  BY NewBookOK
<1>2. /\ staked' = [staked EXCEPT ![v] = 0]
      /\ unstaking' = [unstaking EXCEPT ![v] = 0]
  BY EntryOf
<1>. QED
  BY <1>1, <1>2, OneEntry

LEMMA AddValidatorInv ==
    ASSUME BooksInv, NEW v \in Votes, AddValidator(v)
    PROVE  BooksInv'
<1>1. staked[v] = 0 /\ unstaking[v] = 0
  BY DEF BooksInv, EmptyRangesHoldNothing, AddValidator
<1>2. "AcceptingStakes" \in Statuses
  BY DEF Statuses
<1>. QED
  BY <1>1, <1>2, NewBookInv DEF AddValidator

LEMMA RemoveValidatorInv ==
    ASSUME BooksInv, NEW v \in Votes, RemoveValidator(v)
    PROVE  BooksInv'
<1>1. staked[v] = 0 /\ unstaking[v] = 0
  BY DEF BooksInv, EmptyRangesHoldNothing, RemoveValidator
<1>2. "NotListed" \in Statuses
  BY DEF Statuses
<1>. QED
  BY <1>1, <1>2, NewBookInv DEF RemoveValidator

LEMMA ReceiveInv ==
    ASSUME BooksInv, NEW stakeGain \in [Votes -> Nat], NEW unstakeGain \in [Votes -> Nat],
           Receive(stakeGain, unstakeGain)
    PROVE  BooksInv'
<1>1. Functions /\ \A w \in Votes : EntryOK(book[w], staked[w], unstaking[w])
  BY BooksInvByEntry
<1>2. Functions'
  BY <1>1 DEF Functions, Receive
<1>3. ASSUME NEW v \in Votes
      PROVE  EntryOK(book[v], staked[v], unstaking[v])'
  <2>. DEFINE b == book[v]
              s == staked[v]
              u == unstaking[v]
              gain == stakeGain[v]
              unstakeReward == unstakeGain[v]
  <2>1. /\ book'[v] = b
        /\ staked'[v] = s + gain
        /\ unstaking'[v] = u + unstakeReward
        /\ gain \in Nat
        /\ unstakeReward \in Nat
        /\ Width(b.stake_seeds) = 0 => gain = 0
        /\ Width(b.unstake_seeds) = 0 => unstakeReward = 0
    BY DEF Receive
  <2>2. EntryOK(b, s, u)
    BY <1>1
  <2>3. b.effective_stake_balance \in Nat /\ b.unstake_accounts_balance \in Nat
    BY <2>2 DEF EntryOK, Books
  <2>. HIDE DEF b, s, u, gain, unstakeReward
  <2>4. EntryOK(b, s + gain, u + unstakeReward)
    BY <2>1, <2>2, <2>3 DEF EntryOK
  <2>. QED
    BY <2>1, <2>4 DEF EntryOK, Width
<1>. QED
  BY <1>2, <1>3 DEF BooksInv, Functions, EntryOK, TypeOK, RangesAreOrdered,
       EffectiveIsDifference, EmptyRangesHoldNothing, BooksAreBacked, ObserveBalance, IsListed

-----------------------------------------------------------------------------
(* The theorems *)

LEMMA NextInv == BooksInv /\ [Next]_vars => BooksInv'
<1>. SUFFICES ASSUME BooksInv, [Next]_vars
              PROVE  BooksInv'
  OBVIOUS
<1>. USE BookAssumption
<1>1. ASSUME NEW v \in Votes, AddValidator(v) PROVE BooksInv'
  BY <1>1, AddValidatorInv
<1>2. ASSUME NEW v \in Votes, RemoveValidator(v) PROVE BooksInv'
  BY <1>2, RemoveValidatorInv
<1>3. ASSUME NEW v \in Votes, MergeStake(v) PROVE BooksInv'
  BY <1>3, MergeStakeInv
<1>4. ASSUME NEW v \in Votes, NEW status \in Statuses \ {"NotListed"}, ChangeStatus(v, status)
      PROVE  BooksInv'
  BY <1>4, ChangeStatusInv
<1>5. ASSUME NEW v \in Votes, NEW amount \in Amounts, NEW found \in Amounts,
             NEW append \in BOOLEAN, StakeDeposit(v, amount, found, append)
      PROVE  BooksInv'
  BY <1>5, StakeDepositInv
<1>6. ASSUME NEW v \in Votes, NEW amount \in Amounts, NEW found \in Amounts,
             Unstake(v, amount, found)
      PROVE  BooksInv'
  BY <1>6, UnstakeInv
<1>7. ASSUME NEW v \in Votes, NEW amount \in Amounts, Withdraw(v, amount)
      PROVE  BooksInv'
  BY <1>7, WithdrawInv
<1>8. ASSUME NEW v \in Votes, NEW excess \in Amounts, NEW removed \in Amounts,
             NEW n \in 0..MAXIMUM_UNSTAKE_ACCOUNTS,
             UpdateStakeAccountBalance(v, excess, n, removed)
      PROVE  BooksInv'
  <2>1. n \in Nat /\ excess \in Nat /\ removed \in Nat
    OBVIOUS
  <2>. QED
    BY <1>8, <2>1, UpdateStakeAccountBalanceInv
<1>9. ASSUME NEW stakeGain \in [Votes -> Amounts], NEW unstakeGain \in [Votes -> Amounts],
             Receive(stakeGain, unstakeGain)
      PROVE  BooksInv'
  <2>1. stakeGain \in [Votes -> Nat] /\ unstakeGain \in [Votes -> Nat]
    OBVIOUS
  <2>. QED
    BY <1>9, <2>1, ReceiveInv
<1>10. CASE UNCHANGED vars
  BY <1>10 DEF vars, BooksInv, TypeOK, RangesAreOrdered, EffectiveIsDifference,
       EmptyRangesHoldNothing, BooksAreBacked, ObserveBalance, IsListed
<1>. QED
  BY <1>1, <1>2, <1>3, <1>4, <1>5, <1>6, <1>7, <1>8, <1>9, <1>10 DEF Next, Step

(***************************************************************************)
(* The inductive invariant of the books of all validators.                 *)
(***************************************************************************)
THEOREM BookInvariant == Spec => []BooksInv
BY InitInv, NextInv, PTL DEF Spec

(***************************************************************************)
(* UpdateStakeAccountBalance is never rejected because a balance           *)
(* decreased, for any number of validators and accounts and any amounts.   *)
(***************************************************************************)
THEOREM BookIsBacked == Spec => []BooksAreBacked
<1>1. BooksInv => BooksAreBacked
  BY DEF BooksInv
<1>. QED
  BY <1>1, BookInvariant, PTL

(***************************************************************************)
(* A validator without accounts has no balance: the assertion of           *)
(* `check_can_be_removed` cannot fail.                                     *)
(***************************************************************************)
THEOREM BookRemovableHasNoBalance == Spec => []RemovableHasNoBalance
<1>1. BooksInv => RemovableHasNoBalance
  <2>. SUFFICES ASSUME BooksInv, NEW v \in Votes,
                       Width(book[v].stake_seeds) = 0, Width(book[v].unstake_seeds) = 0
                PROVE  book[v].stake_accounts_balance = 0
    BY DEF RemovableHasNoBalance
  <2>. DEFINE b == book[v]
              s == staked[v]
              u == unstaking[v]
  <2>1. /\ b.effective_stake_balance \in Nat
        /\ b.unstake_accounts_balance \in Nat
        /\ s = 0
        /\ u = 0
        /\ s >= b.effective_stake_balance
        /\ u >= b.unstake_accounts_balance
        /\ b.stake_accounts_balance = b.effective_stake_balance + b.unstake_accounts_balance
    BY EntryOf DEF EntryOK, Books
  <2>. HIDE DEF b, s, u
  <2>2. b.stake_accounts_balance = 0
    BY <2>1
  <2>. QED
    BY <2>2 DEF b
<1>. QED
  BY <1>1, BookInvariant, PTL

\* A step takes a validator out of the removal queue only when it is empty.
LEMMA NextPendingRemoval ==
    ASSUME BooksInv, [Next]_vars, NEW v \in Votes, book[v].status = "PendingRemoval"
    PROVE  \/ book'[v].status = "PendingRemoval"
           \/ book'[v].status = "NotListed" /\ staked[v] = 0 /\ unstaking[v] = 0
<1>. DEFINE Stays(x) == \/ book'[x].status = "PendingRemoval"
                        \/ /\ book'[x].status = "NotListed"
                           /\ staked[x] = 0
                           /\ unstaking[x] = 0
<1>0. book \in [Votes -> Books] /\ v \in DOMAIN book
  BY EntryOf
<1>1. CASE UNCHANGED vars
  BY <1>1 DEF vars
<1>2. ASSUME NEW w \in Votes, w # v, NEW b, book' = [book EXCEPT ![w] = b]
      PROVE  Stays(v)
  BY <1>0, <1>2
<1>3. ASSUME NEW w \in Votes, AddValidator(w) PROVE Stays(v)
  BY <1>0, <1>2, <1>3 DEF AddValidator, IsListed
<1>4. ASSUME NEW w \in Votes, RemoveValidator(w) PROVE Stays(v)
  <2>1. CASE w = v
    BY <1>0, <1>4, <2>1 DEF RemoveValidator, NewBook, BooksInv, EmptyRangesHoldNothing
  <2>2. CASE w # v
    BY <1>2, <1>4, <2>2 DEF RemoveValidator
  <2>. QED
    BY <2>1, <2>2
<1>5. ASSUME NEW w \in Votes, MergeStake(w) PROVE Stays(v)
  BY <1>0, <1>5 DEF MergeStake, Books
<1>6. ASSUME NEW w \in Votes, NEW status \in Statuses, ChangeStatus(w, status)
      PROVE  Stays(v)
  BY <1>0, <1>6 DEF ChangeStatus, Books
<1>7. ASSUME NEW w \in Votes, NEW amount, NEW found, NEW append,
             StakeDeposit(w, amount, found, append)
      PROVE  Stays(v)
  BY <1>0, <1>2, <1>7 DEF StakeDeposit
<1>8. ASSUME NEW w \in Votes, NEW amount, NEW found, Unstake(w, amount, found)
      PROVE  Stays(v)
  BY <1>0, <1>8 DEF Unstake, Entry
<1>9. ASSUME NEW w \in Votes, NEW amount, Withdraw(w, amount)
      PROVE  Stays(v)
  BY <1>0, <1>9 DEF Withdraw, Entry
<1>10. ASSUME NEW w \in Votes, NEW excess, NEW n, NEW removed,
              UpdateStakeAccountBalance(w, excess, n, removed)
       PROVE  Stays(v)
  BY <1>0, <1>10 DEF UpdateStakeAccountBalance, Entry
<1>11. ASSUME NEW stakeGain, NEW unstakeGain, Receive(stakeGain, unstakeGain)
       PROVE  Stays(v)
  BY <1>11 DEF Receive
<1>. QED
  BY <1>1, <1>3, <1>4, <1>5, <1>6, <1>7, <1>8, <1>9, <1>10, <1>11 DEF Next, Step

(***************************************************************************)
(* PendingRemoval is irreversible: no instruction leads out of it but the  *)
(* removal, and that only when nothing is left in the accounts.            *)
(***************************************************************************)
THEOREM BookPendingRemovalIsIrreversible == Spec => PendingRemovalIsIrreversible
<1>1. BooksInv /\ [Next]_vars =>
        [\A v \in Votes : book[v].status = "PendingRemoval" =>
            \/ book'[v].status = "PendingRemoval"
            \/ book'[v].status = "NotListed" /\ staked[v] = 0 /\ unstaking[v] = 0]_vars
  BY NextPendingRemoval
<1>. QED
  BY <1>1, BookInvariant, PTL DEF Spec, PendingRemovalIsIrreversible

=============================================================================
