----------------------------- MODULE Measurement -----------------------------
(***************************************************************************)
(* The block production rate that maintainers measure off-chain and send   *)
(* with UpdateOffchainValidatorPerf: a fraction, scaled to the range of u64*)
(* by `per64`.                                                             *)
(***************************************************************************)
EXTENDS Integers

CONSTANTS
    RangeMax,       \* u64::MAX
    SlotsPerEpoch

VARIABLES
    slot,             \* slots of this epoch so far
    leader_slots,     \* slots of this epoch in which the validator was the leader
    blocks_produced   \* blocks that it produced in them

vars == <<slot, leader_slots, blocks_produced>>

-----------------------------------------------------------------------------
\* "Scale the fraction of numerator / denominator to the range [0..u64::MAX]".
per64(numerator, denominator) == (numerator * RangeMax) \div denominator

\* get_all_block_production_rates
block_production_rate ==
    IF blocks_produced > 0 THEN per64(leader_slots, blocks_produced) ELSE 0

-----------------------------------------------------------------------------
\* A slot passes: the validator is the leader or not, and makes a block or not when it is.
Slot(leads, produced) ==
    /\ slot < SlotsPerEpoch
    /\ produced <= leads
    /\ slot' = slot + 1
    /\ leader_slots' = leader_slots + leads
    /\ blocks_produced' = blocks_produced + produced

Init == slot = 0 /\ leader_slots = 0 /\ blocks_produced = 0

Next == \E leads, produced \in {0, 1} : Slot(leads, produced)

Spec == Init /\ [][Next]_vars

-----------------------------------------------------------------------------
(***************************************************************************)
(* `assert!(result <= range_max)` in per64, of the block production rate   *)
(* that get_all_block_production_rates computes for every validator.       *)
(***************************************************************************)
RateIsInRange == block_production_rate <= RangeMax

=============================================================================
