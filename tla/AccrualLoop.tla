---------------------------- MODULE AccrualLoop ----------------------------
(***************************************************************************)
(* The loop over the reward schedule, one iteration a step, as             *)
(* Pool._updateRewardsPerToken and Pool._updateRewardsPerTokenBP run it.   *)
(* The two differ in where the index is kept and in `to': the current      *)
(* block, or the last block of a booster.  PoolMath states what the loop   *)
(* computes in closed form (Accrual, AccrualFits); module Pool uses the    *)
(* closed form, and this module shows that the loop computes it.           *)
(***************************************************************************)
EXTENDS PoolMath

CONSTANTS
    Schedules,   \* bound: schedules the loop is run on
    LoopRates,   \* bound: base rates
    LoopTotals,  \* bound: total amounts
    LoopBlocks   \* bound: blocks the loop starts from and runs to

ASSUME AccrualLoopAssumption ==
    /\ Schedules \subseteq Seq([blockNumber : Nat, multiplier : Nat])
    /\ LoopRates \subseteq Nat /\ LoopTotals \subseteq Nat /\ LoopBlocks \subseteq Nat

VARIABLES
    tiers, rate, total, from, to,   \* what the loop reads
    tier,                           \* the tier of the next iteration
    index,                          \* what the loop has added to the index
    last,                           \* _lastBlockUpdated, or its copy
    accrualStatus                   \* "running", "done" or "reverted"

inputs      == <<tiers, rate, total, from, to>>
accrualVars == <<inputs, tier, index, last, accrualStatus>>

AccrualInit ==
    /\ tiers \in Schedules
    /\ rate \in LoopRates
    /\ total \in LoopTotals
    /\ from \in LoopBlocks
    /\ to \in LoopBlocks
    /\ tier = 1
    /\ index = 0
    /\ last = from
    /\ accrualStatus = "running"

(* Adds the rewards of the blocks from `last' to `until', and leaves the   *)
(* loop in the given status, or reverts on a checked operation.            *)
Credit(until, next) ==
    LET rated   == rate * tiers[tier].multiplier
        product == rated * (until - last) * MULTIPLIER
    IN  IF last <= until /\ rated <= MaxUint128 /\ product <= MaxUint128
        THEN index' = index + product \div total /\ accrualStatus' = next
        ELSE accrualStatus' = "reverted" /\ UNCHANGED index

AccrualRunning == accrualStatus = "running" /\ total # 0 /\ tier <= Len(tiers)

(* The block looked for is in this tier: the last iteration. *)
ReachTarget ==
    /\ AccrualRunning
    /\ to <= tiers[tier].blockNumber
    /\ Credit(to, "done")
    /\ UNCHANGED <<inputs, tier, last>>

(* The tier ends before that block, but not before the walk stands. *)
CrossTier ==
    /\ AccrualRunning
    /\ tiers[tier].blockNumber < to
    /\ last <= tiers[tier].blockNumber
    /\ Credit(tiers[tier].blockNumber, "running")
    /\ last' = tiers[tier].blockNumber + 1
    /\ tier' = tier + 1
    /\ UNCHANGED inputs

SkipTier ==
    /\ AccrualRunning
    /\ tiers[tier].blockNumber < to
    /\ tiers[tier].blockNumber < last
    /\ tier' = tier + 1
    /\ UNCHANGED <<inputs, index, last, accrualStatus>>

LeaveAccrual ==
    /\ accrualStatus = "running"
    /\ total = 0 \/ tier > Len(tiers)
    /\ accrualStatus' = "done"
    /\ UNCHANGED <<inputs, tier, index, last>>

AccrualNext == ReachTarget \/ CrossTier \/ SkipTier \/ LeaveAccrual

-----------------------------------------------------------------------------
(* The loop of _updateRewardsPerToken ends with the closed form in its     *)
(* index, and reverts exactly when the closed form says so, whatever       *)
(* order, gaps and deleted rows the schedule has.                          *)
LoopComputesAccrual ==
    /\ accrualStatus = "done" =>
         /\ index = Accrual(tiers, rate, total, from, to)
         /\ AccrualFits(tiers, rate, total, from, to)
    /\ accrualStatus = "reverted" => ~AccrualFits(tiers, rate, total, from, to)
=============================================================================
