-------------------------- MODULE PoolSharesProofs --------------------------
(***************************************************************************)
(* Theorems about the shares of a pool: for every number of holders, every *)
(* order of transactions in shares and in stakes, and all amounts.         *)
(***************************************************************************)
EXTENDS PoolShares, PoolProofs

-----------------------------------------------------------------------------
(* Rounding. *)

(* A quotient rounded down, times the divisor, is at most the dividend,    *)
(* and one more is above it.                                               *)
LEMMA QuotientBounds ==
    ASSUME NEW n \in Nat, NEW d \in Nat \ {0}
    PROVE  /\ n \div d \in Nat
           /\ (n \div d) * d <= n
           /\ n <= (n \div d + 1) * d
           /\ n % d = 0 => (n \div d) * d = n
<1>1. n \div d \in Int /\ n % d \in 0..(d - 1) /\ n = d * (n \div d) + (n % d)
  OBVIOUS
<1> DEFINE q == n \div d
           r == n % d
<1>2. q \in Int /\ r \in 0..(d - 1) /\ n = d * q + r
  BY <1>1
<1> HIDE DEF q, r
<1>3. q \in Nat
  <2> SUFFICES ASSUME q <= 0 - 1 PROVE FALSE
    BY <1>2
  <2>1. d * q <= d * (0 - 1)
    BY <1>2
  <2> QED BY <1>2, <2>1
<1>4. d * q = q * d /\ (q + 1) * d = q * d + d
  BY <1>2
<1>5. q * d <= n /\ n <= (q + 1) * d /\ (r = 0 => q * d = n)
  BY <1>2, <1>4
<1> QED BY <1>3, <1>5 DEF q, r

(* A conversion rounded down gives no more than its exact value, one       *)
(* rounded up no less.                                                     *)
LEMMA MulDivBounds ==
    ASSUME NEW x \in Nat, NEW y \in Nat, NEW d \in Nat \ {0}
    PROVE  /\ MulDiv(x, y, d, "down") \in Nat
           /\ MulDiv(x, y, d, "down") * d <= x * y
           /\ MulDiv(x, y, d, "up") \in Nat
           /\ x * y <= MulDiv(x, y, d, "up") * d
<1> DEFINE n == x * y
<1>1. n \in Nat
  OBVIOUS
<1>2. /\ MulDiv(x, y, d, "down") = n \div d
      /\ MulDiv(x, y, d, "up") = IF n % d # 0 THEN n \div d + 1 ELSE n \div d
  BY DEF MulDiv
<1> HIDE DEF n
<1>3. /\ n \div d \in Nat /\ (n \div d) * d <= n
      /\ n <= (n \div d + 1) * d /\ (n % d = 0 => (n \div d) * d = n)
  BY <1>1, QuotientBounds
<1>4. n <= MulDiv(x, y, d, "up") * d /\ MulDiv(x, y, d, "up") \in Nat
  BY <1>1, <1>2, <1>3
<1> QED BY <1>2, <1>3, <1>4 DEF n

(* The conversions of the four entry points, each with the bound that its  *)
(* rounding keeps.                                                         *)

(* Whoever deposits gets at most the shares that the assets are worth. *)
LEMMA DepositRoundsDown ==
    ASSUME TypeOK, SharesTypeOK, NEW assets \in Nat, WithinMaxDeposit(assets)
    PROVE  /\ PreviewDeposit(assets) \in Nat
           /\ totalSupply > 0 =>
                PreviewDeposit(assets) * TotalAssets <= assets * totalSupply
<1>1. TotalAssets \in Nat /\ totalSupply \in Nat
  BY UsersAreAccounts DEF TotalAssets, TypeOK, SharesTypeOK
<1>2. CASE assets = 0
  BY <1>1, <1>2 DEF PreviewDeposit, ConvertToShares
<1>3. CASE totalSupply = 0
  BY <1>1, <1>3 DEF PreviewDeposit, ConvertToShares
<1>4. CASE assets # 0 /\ totalSupply # 0
  <2>1. TotalAssets \in Nat \ {0}
    BY <1>1, <1>4 DEF WithinMaxDeposit, IsVaultHealthy
  <2>2. PreviewDeposit(assets) = MulDiv(assets, totalSupply, TotalAssets, "down")
    BY <1>4 DEF PreviewDeposit, ConvertToShares
  <2> QED BY <1>1, <2>1, <2>2, MulDivBounds
<1> QED BY <1>2, <1>3, <1>4

(* Whoever mints pays at least what the shares are worth. *)
LEMMA MintRoundsUp ==
    ASSUME TypeOK, SharesTypeOK, NEW amount \in Nat
    PROVE  /\ PreviewMint(amount) \in Nat
           /\ totalSupply > 0 =>
                amount * TotalAssets <= PreviewMint(amount) * totalSupply
<1>1. TotalAssets \in Nat /\ totalSupply \in Nat
  BY UsersAreAccounts DEF TotalAssets, TypeOK, SharesTypeOK
<1>2. CASE totalSupply = 0
  BY <1>1, <1>2 DEF PreviewMint, ConvertToAssets
<1>3. CASE totalSupply # 0
  <2>1. PreviewMint(amount) = MulDiv(amount, TotalAssets, totalSupply, "up")
    BY <1>3 DEF PreviewMint, ConvertToAssets
  <2> QED BY <1>1, <1>3, <2>1, MulDivBounds
<1> QED BY <1>2, <1>3

(* Whoever redeems gets at most what the shares are worth. *)
LEMMA RedeemRoundsDown ==
    ASSUME TypeOK, SharesTypeOK, NEW amount \in Nat
    PROVE  /\ PreviewRedeem(amount) \in Nat
           /\ totalSupply > 0 =>
                PreviewRedeem(amount) * totalSupply <= amount * TotalAssets
<1>1. TotalAssets \in Nat /\ totalSupply \in Nat
  BY UsersAreAccounts DEF TotalAssets, TypeOK, SharesTypeOK
<1>2. CASE totalSupply = 0
  BY <1>1, <1>2 DEF PreviewRedeem, ConvertToAssets
<1>3. CASE totalSupply # 0
  <2>1. PreviewRedeem(amount) = MulDiv(amount, TotalAssets, totalSupply, "down")
    BY <1>3 DEF PreviewRedeem, ConvertToAssets
  <2> QED BY <1>1, <1>3, <2>1, MulDivBounds
<1> QED BY <1>2, <1>3

(* Whoever withdraws gives up shares that are worth at least the assets;  *)
(* where nothing is left, nothing can be withdrawn.                        *)
LEMMA WithdrawRoundsUp ==
    ASSUME TypeOK, SharesTypeOK, NEW assets \in Nat, NEW holder \in Accounts,
           assets <= MaxWithdraw(holder)
    PROVE  /\ PreviewWithdraw(assets) \in Nat
           /\ totalSupply > 0 =>
                assets * totalSupply <= PreviewWithdraw(assets) * TotalAssets
<1>1. TotalAssets \in Nat /\ totalSupply \in Nat /\ shares[holder] \in Nat
  BY UsersAreAccounts DEF TotalAssets, TypeOK, SharesTypeOK
<1>2. CASE assets = 0
  BY <1>1, <1>2 DEF PreviewWithdraw, ConvertToShares
<1>3. CASE totalSupply = 0
  BY <1>1, <1>3 DEF PreviewWithdraw, ConvertToShares
<1>4. CASE assets # 0 /\ totalSupply # 0
  <2>1. TotalAssets # 0
    <3> SUFFICES ASSUME TotalAssets = 0 PROVE FALSE
      OBVIOUS
    <3> DEFINE most == MulDiv(shares[holder], 0, totalSupply, "down")
    <3>1. MaxWithdraw(holder) = most
      BY <1>4 DEF MaxWithdraw, ConvertToAssets
    <3>2. most \in Nat /\ most * totalSupply <= shares[holder] * 0
      BY <1>1, <1>4, MulDivBounds
    <3> HIDE DEF most
    <3>3. assets <= most
      BY <3>1
    <3>4. totalSupply <= most * totalSupply
      <4>1. 1 <= most /\ 1 <= totalSupply
        BY <1>1, <1>4, <3>2, <3>3
      <4>2. 1 * totalSupply <= most * totalSupply
        BY <1>1, <3>2, <4>1
      <4> QED BY <1>1, <4>2
    <3> QED BY <1>1, <1>4, <3>2, <3>4
  <2>2. PreviewWithdraw(assets) = MulDiv(assets, totalSupply, TotalAssets, "up")
    BY <1>4 DEF PreviewWithdraw, ConvertToShares
  <2> QED BY <1>1, <2>1, <2>2, MulDivBounds
<1> QED BY <1>2, <1>3, <1>4

-----------------------------------------------------------------------------
(* What the two shared parts do to shares, supply and assets. *)

(* An entry adds to shares, supply and assets. *)
LEMMA TakeInKeeps ==
    ASSUME TypeOK, SharesTypeOK, SharesAddUp, NEW caller \in Users, NEW receiver \in Users,
           NEW assets \in Nat, NEW amount \in Nat, TakeIn(caller, receiver, assets, amount)
    PROVE  /\ TypeOK' /\ SharesTypeOK' /\ SharesAddUp'
           /\ totalSupply' = totalSupply + amount
           /\ TotalAssets' = TotalAssets + assets
<1>1. caller \in Accounts /\ receiver \in Accounts /\ PoolAddr \in Accounts
      /\ caller # PoolAddr
  BY UsersAreAccounts, PoolAssumption
<1>2. balance \in [Accounts -> Nat] /\ shares \in [Accounts -> Nat] /\ totalSupply \in Nat
  BY DEF TypeOK, SharesTypeOK
<1>3. balance' \in [Accounts -> Nat]
  BY <1>1, <1>2, TransferIsTyped DEF TakeIn
<1>4. TypeOK'
  BY <1>3 DEF TakeIn, TypeOK, PackTypeOK, poolVars, configVars, indexVars,
              stakeVars, boostVars, packVars
<1>5. TotalAssets' = TotalAssets + assets
  BY <1>1, <1>2, TransferMoves DEF TakeIn, TotalAssets
<1>6. /\ shares' \in [Accounts -> Nat]
      /\ shares'[receiver] = shares[receiver] + amount
      /\ \A a \in Accounts \ {receiver} : shares[a] = shares'[a]
      /\ totalSupply' = totalSupply + amount /\ totalSupply' \in Nat
  BY <1>1, <1>2 DEF TakeIn
<1>7. SharesAddUp'
  <2>1. SumOver(shares', Accounts) - shares'[receiver]
          = SumOver(shares, Accounts) - shares[receiver]
    BY <1>1, <1>2, <1>6, FiniteAccounts, SumMovesWithOne
  <2>2. SumOver(shares', Accounts) \in Nat /\ SumOver(shares, Accounts) \in Nat
    BY <1>2, <1>6, FiniteAccounts, UnitsFinite
  <2>3. shares[receiver] \in Nat
    BY <1>1, <1>2
  <2> QED BY <1>2, <1>6, <2>1, <2>2, <2>3 DEF SharesAddUp
<1> QED BY <1>4, <1>5, <1>6, <1>7 DEF SharesTypeOK

(* An exit takes from them, and never more shares than the caller has. *)
LEMMA PayOutKeeps ==
    ASSUME TypeOK, SharesTypeOK, SharesAddUp, NEW caller \in Users, NEW receiver \in Users,
           NEW assets \in Nat, NEW amount \in Nat, PayOut(caller, receiver, assets, amount)
    PROVE  /\ TypeOK' /\ SharesTypeOK' /\ SharesAddUp'
           /\ totalSupply' = totalSupply - amount
           /\ TotalAssets' = TotalAssets - assets
<1>1. caller \in Accounts /\ receiver \in Accounts /\ PoolAddr \in Accounts
      /\ receiver # PoolAddr
  BY UsersAreAccounts, PoolAssumption
<1>2. balance \in [Accounts -> Nat] /\ shares \in [Accounts -> Nat] /\ totalSupply \in Nat
  BY DEF TypeOK, SharesTypeOK
<1>3. balance' \in [Accounts -> Nat]
  BY <1>1, <1>2, TransferIsTyped DEF PayOut
<1>4. TypeOK'
  BY <1>3 DEF PayOut, TypeOK, PackTypeOK, poolVars, configVars, indexVars,
              stakeVars, boostVars, packVars
<1>5. TotalAssets' = TotalAssets - assets
  BY <1>1, <1>2, TransferMoves DEF PayOut, TotalAssets
<1>6. shares[caller] \in Nat /\ amount <= shares[caller] /\ shares[caller] - amount \in Nat
  BY <1>1, <1>2 DEF PayOut
<1>7. /\ shares' \in [Accounts -> Nat]
      /\ shares'[caller] = shares[caller] - amount
      /\ \A a \in Accounts \ {caller} : shares[a] = shares'[a]
      /\ totalSupply' = totalSupply - amount
  BY <1>1, <1>2, <1>6 DEF PayOut
<1>8. SharesAddUp' /\ totalSupply' \in Nat
  <2>1. SumOver(shares', Accounts) - shares'[caller]
          = SumOver(shares, Accounts) - shares[caller]
    BY <1>1, <1>2, <1>7, FiniteAccounts, SumMovesWithOne
  <2>2. SumOver(shares', Accounts) \in Nat /\ SumOver(shares, Accounts) \in Nat
    BY <1>2, <1>7, FiniteAccounts, UnitsFinite
  <2> QED BY <1>2, <1>6, <1>7, <2>1, <2>2 DEF SharesAddUp
<1> QED BY <1>4, <1>5, <1>7, <1>8 DEF SharesTypeOK

(* A transfer of shares moves them, also from an account to itself. *)
LEMMA ShareTransferKeeps ==
    ASSUME TypeOK, SharesTypeOK, SharesAddUp, NEW from \in Users, NEW to \in Users,
           NEW amount \in Nat, ShareTransfer(from, to, amount)
    PROVE  /\ TypeOK' /\ SharesTypeOK' /\ SharesAddUp'
           /\ totalSupply' = totalSupply
           /\ TotalAssets' = TotalAssets
<1>1. from \in Accounts /\ to \in Accounts
  BY UsersAreAccounts
<1>2. shares \in [Accounts -> Nat] /\ totalSupply \in Nat
  BY DEF SharesTypeOK
<1>3. Covers(shares, from, amount) /\ shares' = Transfer(shares, from, to, amount)
  BY DEF ShareTransfer
<1>4. shares' \in [Accounts -> Nat]
  BY <1>1, <1>2, <1>3, TransferIsTyped
<1>5. SumOver(shares', Accounts) = SumOver(shares, Accounts)
  BY <1>1, <1>2, <1>3, TransferKeepsSum
<1>6. TypeOK'
  BY DEF ShareTransfer, vars, TypeOK, PackTypeOK, poolVars, configVars, indexVars,
         stakeVars, boostVars, packVars
<1>7. totalSupply' = totalSupply /\ TotalAssets' = TotalAssets
  BY DEF ShareTransfer, vars, TotalAssets
<1> QED BY <1>2, <1>4, <1>5, <1>6, <1>7 DEF SharesTypeOK, SharesAddUp

-----------------------------------------------------------------------------
(* The invariant that the theorems need: the types of the pool bound the   *)
(* assets, and an exit takes no more shares than there are because the     *)
(* supply is the sum of what the accounts hold.                            *)
SharesInv == TypeOK /\ SharesTypeOK /\ SharesAddUp

(* Nobody holds shares of a pool that was just created. *)
LEMMA SharesInitKeeps == SharesInit => SharesInv
<1> SUFFICES ASSUME SharesInit PROVE SharesInv
  OBVIOUS
<1>1. TypeOK
  BY InitIsTyped DEF SharesInit
<1>2. \A a \in Accounts : shares[a] = 0
  BY DEF SharesInit
<1>3. SumOver(shares, Accounts) = 0
  BY <1>2, SumOfZeros
<1> QED BY <1>1, <1>3 DEF SharesInit, SharesInv, SharesTypeOK, SharesAddUp

(* The price of a share after somebody entered with a assets for m shares. *)
LEMMA EntryKeepsPrice ==
    ASSUME NEW T \in Nat, NEW S \in Nat, NEW a \in Nat, NEW m \in Nat, m * T <= a * S
    PROVE  T * (S + m) <= (T + a) * S
<1>1. T * (S + m) = T * S + m * T /\ (T + a) * S = T * S + a * S
  OBVIOUS
<1>2. T * S \in Nat /\ m * T \in Nat /\ a * S \in Nat
  OBVIOUS
<1> QED BY <1>1, <1>2

(* The same for an exit. *)
LEMMA ExitKeepsPrice ==
    ASSUME NEW T \in Nat, NEW S \in Nat, NEW a \in Nat, NEW m \in Nat, a * S <= m * T
    PROVE  T * (S - m) <= (T - a) * S
<1>1. T * (S - m) = T * S - m * T /\ (T - a) * S = T * S - a * S
  OBVIOUS
<1>2. T * S \in Nat /\ m * T \in Nat /\ a * S \in Nat
  OBVIOUS
<1> QED BY <1>1, <1>2

(* A transaction in shares keeps the invariant and the price. *)
LEMMA ShareStepKeeps ==
    ASSUME SharesInv, ShareStep
    PROVE  /\ SharesInv'
           /\ totalSupply > 0 => TotalAssets * totalSupply' <= TotalAssets' * totalSupply
<1>1. TotalAssets \in Nat /\ totalSupply \in Nat
  BY UsersAreAccounts DEF SharesInv, TotalAssets, TypeOK, SharesTypeOK
<1>2. PICK caller \in Users, receiver \in Users, amount \in ShareAmounts :
         \/ ShareDeposit(caller, receiver, amount)
         \/ ShareMint(caller, receiver, amount)
         \/ ShareWithdraw(caller, receiver, amount)
         \/ ShareRedeem(caller, receiver, amount)
         \/ ShareTransfer(caller, receiver, amount)
  BY DEF ShareStep
<1>3. amount \in Nat /\ caller \in Accounts
  BY ShareAssumption, UsersAreAccounts
<1>4. CASE ShareDeposit(caller, receiver, amount)
  <2> DEFINE out == PreviewDeposit(amount)
  <2>1. out \in Nat /\ (totalSupply > 0 => out * TotalAssets <= amount * totalSupply)
    BY <1>3, <1>4, DepositRoundsDown DEF SharesInv, ShareDeposit
  <2>2. TakeIn(caller, receiver, amount, out)
    BY <1>4 DEF ShareDeposit
  <2> HIDE DEF out
  <2>3. /\ SharesInv' /\ totalSupply' = totalSupply + out
        /\ TotalAssets' = TotalAssets + amount
    BY <1>3, <2>1, <2>2, TakeInKeeps DEF SharesInv
  <2> QED BY <1>1, <1>3, <2>1, <2>3, EntryKeepsPrice
<1>5. CASE ShareMint(caller, receiver, amount)
  <2> DEFINE in == PreviewMint(amount)
  <2>1. in \in Nat /\ (totalSupply > 0 => amount * TotalAssets <= in * totalSupply)
    BY <1>3, MintRoundsUp DEF SharesInv
  <2>2. TakeIn(caller, receiver, in, amount)
    BY <1>5 DEF ShareMint
  <2> HIDE DEF in
  <2>3. /\ SharesInv' /\ totalSupply' = totalSupply + amount
        /\ TotalAssets' = TotalAssets + in
    BY <1>3, <2>1, <2>2, TakeInKeeps DEF SharesInv
  <2> QED BY <1>1, <1>3, <2>1, <2>3, EntryKeepsPrice
<1>6. CASE ShareWithdraw(caller, receiver, amount)
  <2> DEFINE burned == PreviewWithdraw(amount)
  <2>1. burned \in Nat /\ (totalSupply > 0 => amount * totalSupply <= burned * TotalAssets)
    BY <1>3, <1>6, WithdrawRoundsUp DEF SharesInv, ShareWithdraw
  <2>2. PayOut(caller, receiver, amount, burned)
    BY <1>6 DEF ShareWithdraw
  <2> HIDE DEF burned
  <2>3. /\ SharesInv' /\ totalSupply' = totalSupply - burned
        /\ TotalAssets' = TotalAssets - amount
    BY <1>3, <2>1, <2>2, PayOutKeeps DEF SharesInv
  <2> QED BY <1>1, <1>3, <2>1, <2>3, ExitKeepsPrice
<1>7. CASE ShareRedeem(caller, receiver, amount)
  <2> DEFINE paid == PreviewRedeem(amount)
  <2>1. paid \in Nat /\ (totalSupply > 0 => paid * totalSupply <= amount * TotalAssets)
    BY <1>3, RedeemRoundsDown DEF SharesInv
  <2>2. PayOut(caller, receiver, paid, amount)
    BY <1>7 DEF ShareRedeem
  <2> HIDE DEF paid
  <2>3. /\ SharesInv' /\ totalSupply' = totalSupply - amount
        /\ TotalAssets' = TotalAssets - paid
    BY <1>3, <2>1, <2>2, PayOutKeeps DEF SharesInv
  <2> QED BY <1>1, <1>3, <2>1, <2>3, ExitKeepsPrice
<1>8. CASE ShareTransfer(caller, receiver, amount)
  <2>1. SharesInv' /\ totalSupply' = totalSupply /\ TotalAssets' = TotalAssets
    BY <1>3, <1>8, ShareTransferKeeps DEF SharesInv
  <2> QED BY <1>1, <2>1
<1> QED BY <1>2, <1>4, <1>5, <1>6, <1>7, <1>8

(* So does a transaction in stakes, which moves no shares. *)
LEMMA SharesNextKeeps ==
    ASSUME SharesInv, [SharesNext]_<<vars, shareVars>>
    PROVE  SharesInv'
<1>1. CASE ShareStep
  BY <1>1, ShareStepKeeps
<1>2. CASE [Next]_vars /\ UNCHANGED shareVars
  <2>1. TypeOK'
    BY <1>2, NextIsTyped DEF SharesInv
  <2> QED BY <1>2, <2>1 DEF SharesInv, SharesTypeOK, SharesAddUp, shareVars
<1> QED BY <1>1, <1>2 DEF SharesNext

(* No account ever holds less than no shares: whoever gives shares up has  *)
(* them, in every conversion and in a transfer to the account itself.      *)
THEOREM SharesTyped == SharesSpec => []SharesTypeOK
<1>1. SharesInv => SharesTypeOK
  BY DEF SharesInv
<1> QED BY <1>1, SharesInitKeeps, SharesNextKeeps, PTL DEF SharesSpec

(* However many holders enter, leave and trade, between whatever the       *)
(* stakers and the owner do, the supply of shares is what the accounts     *)
(* hold together.                                                          *)
THEOREM SharesCorrect == SharesSpec => []SharesAddUp
<1>1. SharesInv => SharesAddUp
  BY DEF SharesInv
<1> QED BY <1>1, SharesInitKeeps, SharesNextKeeps, PTL DEF SharesSpec

(* No transaction in shares lowers the price of a share, whatever amounts  *)
(* it is called with and whatever the stakes have done to the assets.      *)
THEOREM PriceNeverFalls == SharesSpec => SharePriceNeverFalls
<1>1. SharesInv /\ [SharesNext]_<<vars, shareVars>>
        => [ShareStep /\ totalSupply > 0 =>
              TotalAssets * totalSupply' <= TotalAssets' * totalSupply]_<<vars, shareVars>>
  BY ShareStepKeeps
<1> QED BY <1>1, SharesInitKeeps, SharesNextKeeps, PTL DEF SharesSpec, SharePriceNeverFalls

-----------------------------------------------------------------------------
(* Leaving with everything.  tlapm does not reason about ENABLED, in which *)
(* MaxExitIsPaid is stated; what is proved is that the guards of the two   *)
(* calls are true, and that they are all that the calls ask for.           *)

(* The holder has the shares, and the pool has the assets.                 *)
ExitFits(holder, assets, amount) ==
    amount <= shares[holder] /\ Covers(balance, PoolAddr, assets)

(* What fits is a step: withdraw and redeem can set all variables.         *)
LEMMA FittingExitIsAStep ==
    ASSUME NEW holder, NEW assets, NEW amount, ExitFits(holder, assets, amount),
           shares' = [shares EXCEPT ![holder] = @ - amount],
           totalSupply' = totalSupply - amount,
           balance' = Transfer(balance, PoolAddr, holder, assets),
           UNCHANGED <<block, poolVars, packVars>>
    PROVE  /\ assets <= MaxWithdraw(holder) /\ amount = PreviewWithdraw(assets)
                => ShareWithdraw(holder, holder, assets)
           /\ assets = PreviewRedeem(amount) => ShareRedeem(holder, holder, amount)
BY DEF ExitFits, ShareWithdraw, ShareRedeem, PayOut

(* Rounded up, a quotient is the least number that is large enough.        *)
LEMMA RoundedUpIsLeast ==
    ASSUME NEW x \in Nat, NEW y \in Nat, NEW d \in Nat \ {0}, NEW m \in Nat,
           x * y <= m * d
    PROVE  MulDiv(x, y, d, "up") <= m
<1> DEFINE n == x * y
           q == n \div d
           r == n % d
<1>1. n \in Nat
  OBVIOUS
<1>2. MulDiv(x, y, d, "up") = IF r # 0 THEN q + 1 ELSE q
  BY DEF MulDiv
<1>3. n <= m * d
  OBVIOUS
<1> HIDE DEF n
<1>4. q \in Int /\ r \in 0..(d - 1) /\ n = d * q + r
  BY <1>1
<1> HIDE DEF q, r
<1>5. ASSUME m + 1 <= q PROVE FALSE
  <2>1. (m + 1) * d <= q * d /\ (m + 1) * d = m * d + d /\ d * q = q * d
    BY <1>4, <1>5
  <2>2. m * d \in Int /\ q * d \in Int
    BY <1>4
  <2> QED BY <1>3, <1>4, <2>1, <2>2
<1>6. ASSUME m = q, r # 0 PROVE FALSE
  <2>1. d * q = m * d /\ m * d \in Int
    BY <1>4, <1>6
  <2> QED BY <1>3, <1>4, <1>6, <2>1
<1> QED BY <1>2, <1>4, <1>5, <1>6

(* A share of the assets is no more than the assets, and to withdraw it,   *)
(* rounded down, asks for no more shares than it was computed from.        *)
LEMMA FullExitFits ==
    ASSUME SharesInv, NEW u \in Users
    PROVE  /\ ExitFits(u, MaxWithdraw(u), PreviewWithdraw(MaxWithdraw(u)))
           /\ ExitFits(u, PreviewRedeem(shares[u]), shares[u])
<1>1. /\ TotalAssets \in Nat /\ totalSupply \in Nat /\ shares[u] \in Nat
      /\ shares \in [Accounts -> Nat] /\ u \in Accounts
  BY UsersAreAccounts DEF TotalAssets, TypeOK, SharesTypeOK, SharesInv
<1>2. shares[u] <= totalSupply
  <2>1. \A a \in Accounts : shares[a] \in Nat
    BY <1>1
  <2>2. shares[u] <= SumOver(shares, Accounts)
    BY <1>1, <2>1, FiniteAccounts, SumBoundsEach
  <2> QED BY <2>2 DEF SharesInv, SharesAddUp
<1>3. CASE totalSupply = 0
  BY <1>1, <1>2, <1>3
     DEF ExitFits, Covers, MaxWithdraw, PreviewWithdraw, PreviewRedeem,
         ConvertToAssets, ConvertToShares, TotalAssets
<1>4. CASE totalSupply # 0
  <2> DEFINE paid == MulDiv(shares[u], TotalAssets, totalSupply, "down")
  <2>1. MaxWithdraw(u) = paid /\ PreviewRedeem(shares[u]) = paid
    BY <1>4 DEF MaxWithdraw, PreviewRedeem, ConvertToAssets
  <2>2. paid \in Nat /\ paid * totalSupply <= shares[u] * TotalAssets
    BY <1>1, <1>4, MulDivBounds
  <2> HIDE DEF paid
  <2>3. paid <= TotalAssets
    <3> SUFFICES ASSUME TotalAssets + 1 <= paid PROVE FALSE
      BY <1>1, <2>2
    <3> DEFINE n == TotalAssets
               s == shares[u]
    <3>1. n \in Nat /\ s \in Nat /\ s <= totalSupply /\ n + 1 <= paid
          /\ paid * totalSupply <= s * n
      BY <1>1, <1>2, <2>2
    <3> HIDE DEF n, s
    <3>2. /\ (n + 1) * totalSupply <= paid * totalSupply
          /\ s * n <= totalSupply * n
          /\ (n + 1) * totalSupply = totalSupply * n + totalSupply
      BY <1>1, <2>2, <3>1
    <3>3. totalSupply * n \in Int /\ s * n \in Int /\ paid * totalSupply \in Int
      BY <1>1, <2>2, <3>1
    <3> QED BY <1>1, <1>4, <3>1, <3>2, <3>3
  <2>4. PreviewWithdraw(paid) <= shares[u]
    <3>1. CASE paid = 0
      BY <1>1, <3>1 DEF PreviewWithdraw, ConvertToShares
    <3>2. CASE paid # 0
      <4>1. PreviewWithdraw(paid) = MulDiv(paid, totalSupply, TotalAssets, "up")
        BY <1>4, <3>2 DEF PreviewWithdraw, ConvertToShares
      <4>2. TotalAssets \in Nat \ {0}
        BY <1>1, <2>2, <2>3, <3>2
      <4> QED BY <1>1, <2>2, <4>1, <4>2, RoundedUpIsLeast
    <3> QED BY <3>1, <3>2
  <2> QED BY <1>1, <2>1, <2>3, <2>4 DEF ExitFits, Covers, TotalAssets
<1> QED BY <1>3, <1>4

(* What maxWithdraw and maxRedeem promise can be paid, whatever mix of     *)
(* shares, stakes, fees and rewards came before, paused or not: the two    *)
(* roundings never ask for a share more than the holder has.               *)
THEOREM FullExitIsAlwaysCovered ==
    SharesSpec => [](\A u \in Users :
        /\ ExitFits(u, MaxWithdraw(u), PreviewWithdraw(MaxWithdraw(u)))
        /\ ExitFits(u, PreviewRedeem(shares[u]), shares[u]))
<1> DEFINE Covered == \A u \in Users :
        /\ ExitFits(u, MaxWithdraw(u), PreviewWithdraw(MaxWithdraw(u)))
        /\ ExitFits(u, PreviewRedeem(shares[u]), shares[u])
<1>1. SharesInv => Covered
  BY FullExitFits
<1> QED BY <1>1, SharesInitKeeps, SharesNextKeeps, PTL DEF SharesSpec
=============================================================================
