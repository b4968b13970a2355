------------------------------- MODULE Loops -------------------------------
(***************************************************************************)
(* The two loops of Pool, each in a transaction of its own: in a behaviour *)
(* one of them runs, on any of its inputs, and the other stays at its end. *)
(***************************************************************************)
EXTENDS AccrualLoop, WithdrawLoop

NotAccruing ==
    /\ tiers = <<>> /\ rate = 0 /\ total = 0 /\ from = 0 /\ to = 0
    /\ tier = 1 /\ index = 0 /\ last = 0
    /\ accrualStatus = "done"

NotWithdrawing ==
    /\ before = <<>> /\ fees = <<>> /\ first = 1 /\ amount = 0
    /\ i = 1 /\ deposits = <<>> /\ nextToRemove = 1
    /\ withdrawAmount = 0 /\ totalFee = 0 /\ stakeDebit = 0 /\ totalDebit = 0
    /\ withdrawStatus = "done"

LoopsInit ==
    \/ AccrualInit /\ NotWithdrawing
    \/ NotAccruing /\ WithdrawInit

Accrue == AccrualNext /\ UNCHANGED withdrawalVars

Withdraw == WithdrawNext /\ UNCHANGED accrualVars

LoopsNext == Accrue \/ Withdraw

LoopsSpec == LoopsInit /\ [][LoopsNext]_<<accrualVars, withdrawalVars>>
=============================================================================
