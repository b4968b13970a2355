----------------------------- MODULE PoolShares -----------------------------
(***************************************************************************)
(* The pool as the ERC-4626 vault it inherits from: besides its own        *)
(* deposit and withdraw, src/Pool.sol exposes deposit, mint, withdraw and  *)
(* redeem of OpenZeppelin's ERC4626, which give out and take back shares   *)
(* of the same asset balance.  None of them settles rewards, writes a      *)
(* stake or asks whether the pool is paused.                               *)
(*                                                                         *)
(* The caller is the owner of the shares it gives up (no allowances), and  *)
(* the products of the conversions stay within 256 bits.                   *)
(***************************************************************************)
EXTENDS Pool

CONSTANTS
    ShareAmounts,           \* bound: amounts passed to the entry points
    MaxShares               \* bound: shares in circulation

ASSUME ShareAssumption == ShareAmounts \subseteq Nat /\ MaxShares \in Nat

VARIABLES
    shares,                 \* ERC20._balances of the pool's own token
    totalSupply             \* ERC20._totalSupply

shareVars == <<shares, totalSupply>>

-----------------------------------------------------------------------------
(* Conversions between shares and assets. *)

TotalAssets == balance[PoolAddr]

(* Math.mulDiv with a rounding direction. *)
MulDiv(x, y, denominator, rounding) ==
    IF rounding = "up" /\ (x * y) % denominator # 0
    THEN (x * y) \div denominator + 1
    ELSE (x * y) \div denominator

ConvertToShares(assets, rounding) ==
    IF assets = 0 \/ totalSupply = 0 THEN assets
    ELSE MulDiv(assets, totalSupply, TotalAssets, rounding)

ConvertToAssets(amount, rounding) ==
    IF totalSupply = 0 THEN amount
    ELSE MulDiv(amount, TotalAssets, totalSupply, rounding)

(* Shares in circulation are backed by some asset. *)
IsVaultHealthy == TotalAssets > 0 \/ totalSupply = 0

(* Any amount, or none at all. *)
WithinMaxDeposit(assets) == IsVaultHealthy \/ assets = 0

(* The user is paid for a fraction of a unit. *)
MaxWithdrawMutant(holder) == ConvertToAssets(shares[holder], "up")

MaxWithdraw(holder) == ConvertToAssets(shares[holder], "down")

(* Rounding is always in favour of those who stay. *)
PreviewDeposit(assets) == ConvertToShares(assets, "down")

(* mint gives away a fraction of a unit. *)
PreviewMintMutant(amount) == ConvertToAssets(amount, "down")

PreviewMint(amount) == ConvertToAssets(amount, "up")

PreviewWithdraw(assets) == ConvertToShares(assets, "up")

PreviewRedeem(amount) == ConvertToAssets(amount, "down")

-----------------------------------------------------------------------------
(* The entry points. *)

(* The shared part of deposit and mint: the asset first, then the shares. *)
TakeIn(caller, receiver, assets, amount) ==
    /\ Covers(balance, caller, assets)
    /\ balance' = Transfer(balance, caller, PoolAddr, assets)
    /\ shares' = [shares EXCEPT ![receiver] = @ + amount]
    /\ totalSupply' = totalSupply + amount
    /\ totalSupply' <= MaxShares
    /\ UNCHANGED <<block, poolVars, packVars>>

(* The supply keeps the shares that were burned. *)
PayOutMutant(caller, receiver, assets, amount) ==
    /\ amount <= shares[caller]
    /\ shares' = [shares EXCEPT ![caller] = @ - amount]
    /\ Covers(balance, PoolAddr, assets)
    /\ balance' = Transfer(balance, PoolAddr, receiver, assets)
    /\ UNCHANGED <<totalSupply, block, poolVars, packVars>>

(* The shared part of withdraw and redeem: the shares first. *)
PayOut(caller, receiver, assets, amount) ==
    /\ amount <= shares[caller]
    /\ shares' = [shares EXCEPT ![caller] = @ - amount]
    /\ totalSupply' = totalSupply - amount
    /\ Covers(balance, PoolAddr, assets)
    /\ balance' = Transfer(balance, PoolAddr, receiver, assets)
    /\ UNCHANGED <<block, poolVars, packVars>>

ShareDeposit(caller, receiver, assets) ==
    /\ WithinMaxDeposit(assets)
    /\ TakeIn(caller, receiver, assets, PreviewDeposit(assets))

ShareMint(caller, receiver, amount) ==
    TakeIn(caller, receiver, PreviewMint(amount), amount)

ShareWithdraw(caller, receiver, assets) ==
    /\ assets <= MaxWithdraw(caller)
    /\ PayOut(caller, receiver, assets, PreviewWithdraw(assets))

ShareRedeem(caller, receiver, amount) ==
    /\ amount <= shares[caller]
    /\ PayOut(caller, receiver, PreviewRedeem(amount), amount)

(* More shares are sent than the sender holds. *)
ShareTransferMutant(from, to, amount) ==
    /\ shares' = Transfer(shares, from, to, amount)
    /\ UNCHANGED <<totalSupply, vars>>

(* transfer of the pool's own ERC-20 token. *)
ShareTransfer(from, to, amount) ==
    /\ Covers(shares, from, amount)
    /\ shares' = Transfer(shares, from, to, amount)
    /\ UNCHANGED <<totalSupply, vars>>

-----------------------------------------------------------------------------
SharesInit ==
    /\ Init
    /\ shares = [a \in Accounts |-> 0]
    /\ totalSupply = 0

ShareStep ==
    \E caller, receiver \in Users, amount \in ShareAmounts :
        \/ ShareDeposit(caller, receiver, amount)
        \/ ShareMint(caller, receiver, amount)
        \/ ShareWithdraw(caller, receiver, amount)
        \/ ShareRedeem(caller, receiver, amount)
        \/ ShareTransfer(caller, receiver, amount)

SharesNext == ShareStep \/ (Next /\ UNCHANGED shareVars)

SharesSpec == SharesInit /\ [][SharesNext]_<<vars, shareVars>>

-----------------------------------------------------------------------------
(* Nobody holds less than no shares, and the supply is a number. *)
SharesTypeOK ==
    /\ shares \in [Accounts -> Nat]
    /\ totalSupply \in Nat

(* The supply is what the accounts hold together, whatever mix of entries, *)
(* exits and transfers, also of an account to itself.                      *)
SharesAddUp == totalSupply = SumOver(shares, Accounts)

(* No transaction in shares lowers what a share is worth: every conversion *)
(* rounds in favour of those who stay.  (A transaction in stakes does move *)
(* the price, because totalAssets counts the assets that back the stakes.) *)
SharePriceNeverFalls ==
    [][ShareStep /\ totalSupply > 0 =>
         TotalAssets * totalSupply' <= TotalAssets' * totalSupply]_<<vars, shareVars>>

(* What maxWithdraw and maxRedeem promise a holder is paid, in every state *)
(* the stakers leave the pool in, paused or not: the rounding of the       *)
(* shares to burn never asks for more shares than the holder has.          *)
MaxExitIsPaid ==
    \A u \in Users : /\ ENABLED ShareWithdraw(u, u, MaxWithdraw(u))
                     /\ ENABLED ShareRedeem(u, u, shares[u])
=============================================================================
