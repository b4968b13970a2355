---------------------------- MODULE WithdrawLoop ----------------------------
(***************************************************************************)
(* The loop of Pool.withdraw over the deposits of one user, one iteration  *)
(* a step.  PoolMath states what it does in closed form (DrainsThrough,    *)
(* Withdrawal, FeesFit); module Pool uses the closed form, and this module *)
(* shows that the loop does the same.                                      *)
(***************************************************************************)
EXTENDS PoolMath

CONSTANTS
    DepositLists,     \* bound: deposits the loop is run on
    FeeTables,        \* bound: withdraw fees
    WithdrawAmounts   \* bound: amounts asked for

ASSUME WithdrawLoopAssumption ==
    /\ DepositLists \subseteq Seq([blockNumber : Nat, amount : Nat])
    /\ FeeTables \subseteq Seq([blockNumber : Nat, fee : Nat])
    \* A stake is a uint128, and so is what a user asks for.
    /\ \A deposits \in DepositLists :
         SumOver([j \in DOMAIN deposits |-> deposits[j].amount], DOMAIN deposits) <= MaxUint128
    /\ WithdrawAmounts \subseteq Uint128

VARIABLES
    before, fees, first, amount,   \* what the loop starts from
    i,                             \* the deposit of the next iteration
    deposits,                      \* _usersData[msg.sender].deposits
    nextToRemove,                  \* nextDepositIdToRemove
    withdrawAmount, totalFee,
    stakeDebit,                    \* taken from totalAmountDeposited
    totalDebit,                    \* taken from _totalAmount
    withdrawStatus                 \* "running", "done" or "reverted"

given          == <<before, fees, first, amount>>
withdrawalVars == <<given, i, deposits, nextToRemove, withdrawAmount, totalFee,
                    stakeDebit, totalDebit, withdrawStatus>>

WithdrawInit ==
    /\ before \in DepositLists
    /\ fees \in FeeTables
    /\ first \in 1..Max({1, Len(before)})
    /\ amount \in WithdrawAmounts
    /\ i = first
    /\ deposits = before
    /\ nextToRemove = first
    /\ withdrawAmount = 0 /\ totalFee = 0
    /\ stakeDebit = 0 /\ totalDebit = 0
    /\ withdrawStatus = "running"

WithdrawRunning ==
    withdrawStatus = "running" /\ i <= Len(deposits) /\ withdrawAmount < amount

(* amountRem_, withdrawFee_ and depositAmountFeed_. *)
AmountRem   == amount - withdrawAmount
WithdrawFee == ToUint64((CalcWithdrawFeePerBlock(fees, deposits[i].blockNumber)
                            * MULTIPLIER) \div 100)
AmountFeed  == deposits[i].amount - (deposits[i].amount * WithdrawFee) \div MULTIPLIER

(* No checked operation on depositAmount_ reverts: neither the product nor *)
(* the subtraction of the fee. *)
AmountFits ==
    /\ deposits[i].amount * WithdrawFee <= MaxUint128
    /\ AmountFeed >= 0

(* The deposit is worth more than what is left to pay.  The product with   *)
(* amountRem_ fits, because the deposit is more than that.                 *)
TakePart ==
    /\ WithdrawRunning
    /\ AmountFits
    /\ AmountFeed > AmountRem
    /\ deposits' = [deposits EXCEPT ![i].amount = @ - AmountRem]
    /\ stakeDebit' = stakeDebit + AmountRem
    /\ withdrawAmount' = withdrawAmount + AmountRem
    /\ totalFee' = totalFee + (AmountRem * WithdrawFee) \div MULTIPLIER
    /\ i' = i + 1
    /\ UNCHANGED <<given, nextToRemove, totalDebit, withdrawStatus>>

Drain ==
    /\ WithdrawRunning
    /\ AmountFits
    /\ AmountFeed <= AmountRem
    /\ deposits' = [deposits EXCEPT ![i].amount = 0]
    /\ stakeDebit' = stakeDebit + deposits[i].amount
    /\ totalDebit' = totalDebit + deposits[i].amount
    /\ withdrawAmount' = withdrawAmount + AmountFeed
    /\ totalFee' = totalFee + (deposits[i].amount * WithdrawFee) \div MULTIPLIER
    /\ nextToRemove' = IF i = Len(deposits) THEN i ELSE i + 1
    /\ i' = i + 1
    /\ UNCHANGED <<given, withdrawStatus>>

(* The product leaves uint128, or the fee exceeds the deposit. *)
FeeReverts ==
    /\ WithdrawRunning
    /\ ~AmountFits
    /\ withdrawStatus' = "reverted"
    /\ UNCHANGED <<given, i, deposits, nextToRemove, withdrawAmount, totalFee,
                   stakeDebit, totalDebit>>

LeaveWithdraw ==
    /\ withdrawStatus = "running"
    /\ i > Len(deposits) \/ withdrawAmount >= amount
    /\ withdrawStatus' = "done"
    /\ UNCHANGED <<given, i, deposits, nextToRemove, withdrawAmount, totalFee,
                   stakeDebit, totalDebit>>

WithdrawNext == TakePart \/ Drain \/ FeeReverts \/ LeaveWithdraw

-----------------------------------------------------------------------------
Prefixes == {k \in (first - 1)..Len(before) :
                DrainsThrough(before, fees, first, amount, k)}

(* Exactly one prefix of the deposits is drained in the closed form; when  *)
(* the loop is done it has emptied that prefix, taken the rest from the    *)
(* deposit after it and paid what the closed form says, and it reverts     *)
(* exactly when the arithmetic of a deposit it visits does not fit: a      *)
(* product that leaves uint128, or a fee that still exceeds the deposit    *)
(* after its conversion to 64 bits.                                        *)
LoopComputesWithdrawal ==
    withdrawStatus # "running" =>
        \E k \in Prefixes :
            LET w == Withdrawal(before, fees, first, amount, k)
            IN  /\ Prefixes = {k}
                /\ FeesFit(before, fees, first, k, w.rest) <=> withdrawStatus = "done"
                /\ withdrawStatus = "done" =>
                     /\ withdrawAmount = w.paid /\ totalFee = w.fee
                     /\ stakeDebit = w.drained + w.rest
                     /\ totalDebit = w.drained
                     /\ nextToRemove = w.next
                     /\ deposits = w.left
=============================================================================
