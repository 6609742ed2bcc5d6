----------------------------- MODULE AccountList -----------------------------
(***************************************************************************)
(* The lists that Solido keeps in accounts of their own (`BigVec` behind   *)
(* `BigVecWithHeader`): entries with a `pubkey`, a maximum length, and     *)
(* access by an index that the sender of the transaction supplies and that *)
(* must match the key.  Positions count from 1 here and from 0 in the code.*)
(*                                                                         *)
(* An operator whose name ends in _Bug is a mutation of the operator that  *)
(* follows it; no specification uses it.                                   *)
(***************************************************************************)
EXTENDS Integers, Sequences

Keys(list) == {list[i].pubkey : i \in DOMAIN list}

\* The position of a key that is in the list.
Position(list, key) == CHOOSE i \in DOMAIN list : list[i].pubkey = key

\* Mutation: duplicates are accepted.
CanPush_Bug(list, max, key) == Len(list) # max

\* `push` refuses a full list and a duplicate.
CanPush(list, max, key) == Len(list) # max /\ key \notin Keys(list)

\* Mutation: the index is trusted.
IsAt_Bug(list, index, key) == index \in DOMAIN list

\* `get_mut` and `remove` refuse an index that does not match the key.
IsAt(list, index, key) == index \in DOMAIN list /\ list[index].pubkey = key

\* The last entry takes the place of the one that is removed.
SwapRemove(list, index) ==
    [i \in 1 .. (Len(list) - 1) |-> IF i = index THEN list[Len(list)] ELSE list[i]]

\* No key occurs twice.
HasUniqueKeys(list) ==
    \A i, j \in DOMAIN list : list[i].pubkey = list[j].pubkey => i = j

=============================================================================
