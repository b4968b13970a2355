------------------------------ MODULE PoolMath ------------------------------
(***************************************************************************)
(* The arithmetic of src/Pool.sol as operators without state: fees, token  *)
(* balances, the reward schedule, and what the withdraw loop takes from a  *)
(* user's deposits.  The loops of the source are stated in closed form     *)
(* here; modules AccrualLoop and WithdrawLoop run the same loops step by   *)
(* step and compare.                                                       *)
(*                                                                         *)
(* A schedule is a sequence of tiers [blockNumber, multiplier], a fee      *)
(* table a sequence of [blockNumber, fee], deposits a sequence of          *)
(* [blockNumber, amount].  Sequences are numbered from 1, the source's     *)
(* arrays from 0.                                                          *)
(*                                                                         *)
(* In this and the other modules an operator whose name ends in Mutant is  *)
(* a faulty variant of the operator that follows it.  No definition uses   *)
(* it; the README says which property each of them would break.            *)
(***************************************************************************)
EXTENDS UnitSums, FiniteSetsExt, Sequences

CONSTANTS
    MaxUint64,     \* largest uint64
    MaxUint128     \* largest uint128

ASSUME WidthAssumption ==
    /\ MaxUint64 \in Nat
    /\ MaxUint128 \in Nat
    /\ MaxUint64 <= MaxUint128

Uint64  == 0..MaxUint64
Uint128 == 0..MaxUint128

(* The explicit conversion uint64(n): keeps the low 64 bits. *)
ToUint64(n) == n % (MaxUint64 + 1)

(* Pool.MULTIPLIER: the fixed-point scale of fees and of the reward index. *)
MULTIPLIER == 1000

-----------------------------------------------------------------------------
(* Fees.  A fee is stored in percent and charged in thousandths of an      *)
(* amount, rounded down to a whole unit.                                   *)

Thousandths(percent) == (percent * MULTIPLIER) \div 100

FeeAmount(amount, rate) == (amount * rate) \div MULTIPLIER

(* The fee of the first row whose blockNumber is above the given block. *)
CalcWithdrawFeePerBlock(fees, blockNumber) ==
    LET rows == {i \in DOMAIN fees : blockNumber < fees[i].blockNumber}
    IN  IF rows = {} THEN 0 ELSE fees[Min(rows)].fee

(* What withdraw charges on a deposit made in blockNumber.  A stored fee   *)
(* has 64 bits, its thousandths may have more: the conversion drops them,  *)
(* and a high fee may turn into a low one.                                 *)
WithdrawFeeRate(fees, blockNumber) ==
    ToUint64(Thousandths(CalcWithdrawFeePerBlock(fees, blockNumber)))

-----------------------------------------------------------------------------
(* Token balances. *)

(* ERC20.transferFrom with the allowance in place. *)
CoversMutant(bal, from, amount) == TRUE

Covers(bal, from, amount) == amount <= bal[from]

Transfer(bal, from, to, amount) ==
    LET taken == [bal EXCEPT ![from] = @ - amount]
    IN  [taken EXCEPT ![to] = @ + amount]

-----------------------------------------------------------------------------
(* The reward schedule, walked from block `from' to block `to'. *)

(* The walk stops at the first tier that reaches `to'. *)
TierVisited(tiers, to, i) == \A j \in 1..(i-1) : tiers[j].blockNumber < to

(* The walk does not move on from tier to tier. *)
TierStartMutant(tiers, from, i) == from

(* Where the walk stands when it reaches tier i: each tier behind it moved *)
(* it to the block after that tier.                                        *)
TierStart(tiers, from, i) ==
    Max({from} \cup {tiers[j].blockNumber + 1 : j \in 1..(i-1)})

(* The blocks credited at the multiplier of tier i. *)
TierBlocks(tiers, from, to, i) ==
    IF /\ TierVisited(tiers, to, i)
       /\ TierStart(tiers, from, i) <= tiers[i].blockNumber
    THEN Min({to, tiers[i].blockNumber}) - TierStart(tiers, from, i)
    ELSE 0

(* The numerator of tier i's contribution to the index. *)
TierEmission(tiers, rate, from, to, i) ==
    rate * tiers[i].multiplier * TierBlocks(tiers, from, to, i) * MULTIPLIER

(* The growth of the reward index (scaled rewards per deposited unit). *)
Accrual(tiers, rate, total, from, to) ==
    IF total = 0 THEN 0
    ELSE SumOver([i \in DOMAIN tiers |->
                    TierEmission(tiers, rate, from, to, i) \div total], DOMAIN tiers)

(* The products of tier i fit uint128.  They are formed from left to       *)
(* right, the first one also where the walk has no block left to credit.   *)
TierFits(tiers, rate, from, to, i) ==
    /\ TierVisited(tiers, to, i) /\ TierStart(tiers, from, i) <= tiers[i].blockNumber
         => rate * tiers[i].multiplier <= MaxUint128
    /\ TierEmission(tiers, rate, from, to, i) <= MaxUint128

(* The checked arithmetic of the same loop: no subtraction goes below zero *)
(* at the tier that holds `to', and no product leaves uint128.  When this  *)
(* is false the transaction reverts.                                       *)
AccrualFits(tiers, rate, total, from, to) ==
    total # 0 =>
        \A i \in DOMAIN tiers :
            /\ TierVisited(tiers, to, i) /\ to <= tiers[i].blockNumber
                 => TierStart(tiers, from, i) <= to
            /\ TierFits(tiers, rate, from, to, i)

-----------------------------------------------------------------------------
(* The withdraw loop: deposits are drained in order, starting at `first',  *)
(* until what they pay after fees reaches `amount'.                        *)

DepositFeeAmount(deposit, fees) ==
    FeeAmount(deposit.amount, WithdrawFeeRate(fees, deposit.blockNumber))

NetAmount(deposit, fees) == deposit.amount - DepositFeeAmount(deposit, fees)

NetAmounts(deposits, fees) == [i \in DOMAIN deposits |-> NetAmount(deposits[i], fees)]

(* A deposit that is worth exactly the rest is not emptied. *)
DrainsMutant(nets, first, amount, i) ==
    LET paid == SumOver(nets, first..(i-1))
    IN  paid < amount /\ nets[i] < amount - paid

(* The loop reaches deposit i with something left to pay, and deposit i is *)
(* not worth more than that.                                               *)
Drains(nets, first, amount, i) ==
    LET paid == SumOver(nets, first..(i-1))
    IN  paid < amount /\ nets[i] <= amount - paid

(* The loop empties exactly the deposits first..k. *)
DrainsThrough(deposits, fees, first, amount, k) ==
    LET nets == NetAmounts(deposits, fees)
    IN  /\ \A i \in first..k : Drains(nets, first, amount, i)
        /\ k < Len(deposits) => ~Drains(nets, first, amount, k + 1)

(* What is still to be paid when the loop has emptied first..k; deposit    *)
(* k + 1 pays it in part.                                                  *)
Remainder(deposits, fees, first, amount, k) ==
    IF k < Len(deposits)
    THEN amount - SumOver(NetAmounts(deposits, fees), first..k)
    ELSE 0

(* The fee on what is taken in part is charged on the whole deposit. *)
WithdrawalFeeMutant(deposits, fees, first, k, rest) ==
    SumOver([i \in DOMAIN deposits |-> DepositFeeAmount(deposits[i], fees)],
            first..(IF rest = 0 THEN k ELSE k + 1))

(* The fees of the emptied deposits, and of the rest taken out of the next. *)
WithdrawalFee(deposits, fees, first, k, rest) ==
    SumOver([i \in DOMAIN deposits |-> DepositFeeAmount(deposits[i], fees)], first..k)
    + (IF rest = 0 THEN 0
       ELSE FeeAmount(rest, WithdrawFeeRate(fees, deposits[k+1].blockNumber)))

(* A deposit that pays in part keeps its amount. *)
DepositsLeftMutant(deposits, first, k, rest) ==
    [i \in DOMAIN deposits |->
        [deposits[i] EXCEPT !.amount = IF i \in first..k THEN 0 ELSE @]]

DepositsLeft(deposits, first, k, rest) ==
    [i \in DOMAIN deposits |->
        [deposits[i] EXCEPT !.amount = IF i \in first..k THEN 0
                                       ELSE IF i = k + 1 THEN @ - rest ELSE @]]

(* A deposit that pays in part is left behind as if it were empty. *)
NextToRemoveMutant(deposits, first, k) == Min({k + 2, Len(deposits)})

(* nextDepositIdToRemove: past the emptied deposits, but never past the    *)
(* last one.                                                               *)
NextToRemove(deposits, first, k) ==
    IF k < first THEN first
    ELSE IF k = Len(deposits) THEN k ELSE k + 1

(* What leaves the loop when it has emptied first..k: `paid' to the user,  *)
(* `fee' to the recipient, `drained' the amount of the emptied deposits,   *)
(* `rest' the amount taken out of deposit k + 1.                           *)
Withdrawal(deposits, fees, first, amount, k) ==
    LET rest == Remainder(deposits, fees, first, amount, k)
    IN  [paid    |-> SumOver(NetAmounts(deposits, fees), first..k) + rest,
         fee     |-> WithdrawalFee(deposits, fees, first, k, rest),
         drained |-> SumOver([i \in DOMAIN deposits |-> deposits[i].amount], first..k),
         rest    |-> rest,
         next    |-> NextToRemove(deposits, first, k),
         left    |-> DepositsLeft(deposits, first, k, rest)]

(* The checked arithmetic on a deposit the loop visits: the product fits   *)
(* uint128 and the fee does not exceed the deposit.  (One that is worth    *)
(* less than nothing is drained by the closed form, and reverts here.)     *)
FeeFits(deposit, fees) ==
    /\ deposit.amount * WithdrawFeeRate(fees, deposit.blockNumber) <= MaxUint128
    /\ NetAmount(deposit, fees) >= 0

(* The loop visits the deposits it empties, and the one after them if some *)
(* of the amount is left.  The fee of that rest is a fee on less than the  *)
(* whole deposit, so its own product fits when the deposit's does; and the *)
(* sums the loop forms are at most the sum of the deposits, a uint128.     *)
FeesFit(deposits, fees, first, k, rest) ==
    \A i \in first..(IF rest = 0 THEN k ELSE k + 1) : FeeFits(deposits[i], fees)
=============================================================================
