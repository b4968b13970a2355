------------------------- MODULE PoolRewardsProofs -------------------------
(***************************************************************************)
(* Theorems about the rewards of Pool: tokens against what is recorded for *)
(* them, the reward index against the schedule.                            *)
(***************************************************************************)
EXTENDS PoolStakeProofs

-----------------------------------------------------------------------------
(* EveryMintAccounted. *)

ClaimableIn(data) == [a \in Accounts |-> data[a].claimableRewardsBP]
ClaimedIn(data)   == [a \in Accounts |-> data[a].accumRewards]
BoostedIn(data)   == [a \in Accounts |-> data[a].accumRewardsBP]

(* The recorded rewards of typed accounts. *)
LEMMA RewardsAreTyped ==
    ASSUME NEW data \in [Accounts -> UserData]
    PROVE  /\ ClaimableIn(data) \in [Accounts -> Nat]
           /\ ClaimedIn(data) \in [Accounts -> Nat]
           /\ BoostedIn(data) \in [Accounts -> Nat]
           /\ SumOver(ClaimableIn(data), Accounts) \in Nat
           /\ SumOver(ClaimedIn(data), Accounts) \in Nat
           /\ SumOver(BoostedIn(data), Accounts) \in Nat
<1>1. /\ ClaimableIn(data) \in [Accounts -> Nat]
      /\ ClaimedIn(data) \in [Accounts -> Nat]
      /\ BoostedIn(data) \in [Accounts -> Nat]
  BY WidthAssumption DEF UserData, Uint64, ClaimableIn, ClaimedIn, BoostedIn
<1>2. \A f \in [Accounts -> Nat] : SumOver(f, Accounts) \in Nat
  <2> SUFFICES ASSUME NEW f \in [Accounts -> Nat] PROVE SumOver(f, Accounts) \in Nat
    OBVIOUS
  <2>1. \A a \in Accounts : f[a] \in Int
    OBVIOUS
  <2> QED BY <2>1, FiniteAccounts, UnitsFinite
<1> QED BY <1>1, <1>2

(* EveryMintAccounted of given balances and records. *)
Accounted(bal, data) ==
    SumOver(bal, Accounts) + SumOver(ClaimableIn(data), Accounts)
      = SumOver(InitBalance, Accounts) + SumOver(ClaimedIn(data), Accounts)
          + SumOver(BoostedIn(data), Accounts)

(* A settlement credits to accumRewardsBP what it makes claimable. *)
LEMMA SettlementIsAccounted ==
    ASSUME TypeOK, NEW caller, NEW visits, Settle(caller, visits),
           NEW bal \in [Accounts -> Nat], Accounted(bal, usersData)
    PROVE  Accounted(bal, SettledUsers(caller, visits))
<1> DEFINE settled == SettledUsers(caller, visits)
<1>1. settled \in [Accounts -> UserData] /\ usersData \in [Accounts -> UserData]
      /\ \A a \in Accounts : settled[a].accumRewards = usersData[a].accumRewards
  BY SettlementIsTyped DEF TypeOK
<1>2. ASSUME NEW a \in Accounts
      PROVE  settled[a].claimableRewardsBP + usersData[a].accumRewardsBP
               = usersData[a].claimableRewardsBP + settled[a].accumRewardsBP
  <2> DEFINE n == visits[a]
  <2>1. /\ settled[a].claimableRewardsBP = CreditAfter(caller, a, n)
        /\ settled[a].accumRewardsBP
             = usersData[a].accumRewardsBP
                 + (CreditAfter(caller, a, n) - usersData[a].claimableRewardsBP)
    <3> DEFINE boost == Boost(caller, a, n)
    <3>1. settled[a] = [usersData[a] EXCEPT !.claimableRewardsBP = boost.claimable,
                                            !.accumRewardsBP = boost.accum,
                                            !.activeBoosterPack = boost.pack,
                                            !.boosterPackActivationBlock = boost.start]
      BY DEF SettledUsers
    <3>2. /\ boost.claimable = CreditAfter(caller, a, n)
          /\ boost.accum = usersData[a].accumRewardsBP
                 + (CreditAfter(caller, a, n) - usersData[a].claimableRewardsBP)
      BY DEF Boost, AccumAfter
    <3>3. usersData[a] \in UserData
      BY <1>1
    <3> HIDE DEF boost, settled
    <3> QED BY ONLY <3>1, <3>2, <3>3 DEF UserData
  <2>2. CreditAfter(caller, a, n) \in Nat
    BY SettlementIsTyped, WidthAssumption DEF Uint64
  <2>3. usersData[a].accumRewardsBP \in Nat /\ usersData[a].claimableRewardsBP \in Nat
    BY <1>1, WidthAssumption DEF UserData, Uint64
  <2> HIDE DEF settled
  <2>4. PICK c \in Nat, b \in Nat, d \in Nat :
           /\ c = CreditAfter(caller, a, n)
           /\ b = usersData[a].claimableRewardsBP /\ d = usersData[a].accumRewardsBP
    BY <2>2, <2>3
  <2>5. settled[a].claimableRewardsBP = c /\ settled[a].accumRewardsBP = d + (c - b)
    BY <2>1, <2>4
  <2>6. c + d = b + (d + (c - b))
    BY ONLY c \in Nat, b \in Nat, d \in Nat
  <2> QED BY <2>4, <2>5, <2>6
<1> HIDE DEF settled
<1>3. \A a \in Accounts :
        ClaimableIn(settled)[a] + BoostedIn(usersData)[a]
          = ClaimableIn(usersData)[a] + BoostedIn(settled)[a]
  BY <1>2 DEF ClaimableIn, BoostedIn
<1>4. SumOver(ClaimableIn(settled), Accounts) + SumOver(BoostedIn(usersData), Accounts)
        = SumOver(ClaimableIn(usersData), Accounts) + SumOver(BoostedIn(settled), Accounts)
  <2>1. /\ ClaimableIn(settled) \in [Accounts -> Nat]
        /\ BoostedIn(settled) \in [Accounts -> Nat]
        /\ ClaimableIn(usersData) \in [Accounts -> Nat]
        /\ BoostedIn(usersData) \in [Accounts -> Nat]
    BY <1>1, RewardsAreTyped
  <2> DEFINE f == ClaimableIn(settled)
             g == BoostedIn(usersData)
             p == ClaimableIn(usersData)
             q == BoostedIn(settled)
  <2> HIDE DEF f, g, p, q
  <2>2. /\ f \in [Accounts -> Nat] /\ g \in [Accounts -> Nat]
        /\ p \in [Accounts -> Nat] /\ q \in [Accounts -> Nat]
        /\ \A a \in Accounts : f[a] + g[a] = p[a] + q[a]
    BY <1>3, <2>1 DEF f, g, p, q
  <2>3. SumOver(f, Accounts) + SumOver(g, Accounts)
          = SumOver(p, Accounts) + SumOver(q, Accounts)
    BY <2>2, FiniteAccounts, SumsAgree
  <2> QED BY <2>3 DEF f, g, p, q
<1>5. ClaimedIn(settled) = ClaimedIn(usersData)
  BY <1>1 DEF ClaimedIn
<1>6. /\ SumOver(ClaimableIn(settled), Accounts) \in Nat
      /\ SumOver(BoostedIn(settled), Accounts) \in Nat
      /\ SumOver(ClaimableIn(usersData), Accounts) \in Nat
      /\ SumOver(BoostedIn(usersData), Accounts) \in Nat
      /\ SumOver(ClaimedIn(usersData), Accounts) \in Nat
  BY <1>1, RewardsAreTyped
<1>7. SumOver(bal, Accounts) \in Nat /\ SumOver(InitBalance, Accounts) \in Nat
  <2>1. (\A a \in Accounts : bal[a] \in Int) /\ (\A a \in Accounts : InitBalance[a] \in Int)
    BY PoolAssumption
  <2> QED BY <2>1, FiniteAccounts, UnitsFinite
<1>8. Accounted(bal, settled)
  BY <1>4, <1>5, <1>6, <1>7 DEF Accounted
<1> QED BY <1>8 DEF settled

(* Records that agree in their rewards, and balances with the same sum,    *)
(* are accounted for alike.                                                *)
LEMMA SameRewardsAccounted ==
    ASSUME NEW bal, NEW data, Accounted(bal, data), NEW after, NEW dataAfter,
           SumOver(after, Accounts) = SumOver(bal, Accounts),
           \A a \in Accounts :
              /\ dataAfter[a].claimableRewardsBP = data[a].claimableRewardsBP
              /\ dataAfter[a].accumRewards = data[a].accumRewards
              /\ dataAfter[a].accumRewardsBP = data[a].accumRewardsBP
    PROVE  Accounted(after, dataAfter)
<1>1. /\ ClaimableIn(dataAfter) = ClaimableIn(data)
      /\ ClaimedIn(dataAfter) = ClaimedIn(data)
      /\ BoostedIn(dataAfter) = BoostedIn(data)
  BY DEF ClaimableIn, ClaimedIn, BoostedIn
<1> QED BY <1>1, Zenon DEF Accounted

(* A claim mints the rewards that were not claimed yet and what was        *)
(* claimable, and records both.                                            *)
LEMMA ClaimIsAccounted ==
    ASSUME NEW bal \in [Accounts -> Nat], NEW data \in [Accounts -> UserData],
           Accounted(bal, data), NEW user \in Accounts, NEW total \in Uint64,
           data[user].accumRewards <= total
    PROVE  LET payout == total - data[user].accumRewards + data[user].claimableRewardsBP
           IN  Accounted([bal EXCEPT ![user] = @ + payout],
                         [data EXCEPT ![user] = AfterClaim(@, total)])
<1> DEFINE payout == total - data[user].accumRewards + data[user].claimableRewardsBP
           after  == [bal EXCEPT ![user] = @ + payout]
           done   == [data EXCEPT ![user] = AfterClaim(@, total)]
<1>1. /\ data[user].accumRewards \in Nat /\ data[user].claimableRewardsBP \in Nat
      /\ bal[user] \in Nat /\ total \in Nat /\ payout \in Nat
  BY WidthAssumption DEF UserData, Uint64
<1> HIDE DEF payout
<1>2. /\ after \in [Accounts -> Nat] /\ after[user] = bal[user] + payout
      /\ \A a \in Accounts \ {user} : bal[a] = after[a]
  BY <1>1
<1>3. /\ done \in [Accounts -> UserData]
      /\ done[user].claimableRewardsBP = 0
      /\ done[user].accumRewards = total
      /\ done[user].accumRewardsBP = data[user].accumRewardsBP
      /\ \A a \in Accounts \ {user} : done[a] = data[a]
  <2>1. 0 \in Uint64
    BY WidthAssumption DEF Uint64
  <2>2. AfterClaim(data[user], total) \in UserData
    BY <2>1 DEF AfterClaim, UserData
  <2>3. /\ AfterClaim(data[user], total).claimableRewardsBP = 0
        /\ AfterClaim(data[user], total).accumRewards = total
        /\ AfterClaim(data[user], total).accumRewardsBP = data[user].accumRewardsBP
    BY DEF AfterClaim, UserData
  <2> QED BY <2>2, <2>3
<1> HIDE DEF after, done
<1>4. /\ ClaimableIn(data) \in [Accounts -> Nat] /\ ClaimableIn(done) \in [Accounts -> Nat]
      /\ ClaimedIn(data) \in [Accounts -> Nat] /\ ClaimedIn(done) \in [Accounts -> Nat]
      /\ SumOver(ClaimableIn(data), Accounts) \in Nat
      /\ SumOver(ClaimableIn(done), Accounts) \in Nat
      /\ SumOver(ClaimedIn(data), Accounts) \in Nat
      /\ SumOver(ClaimedIn(done), Accounts) \in Nat
      /\ SumOver(BoostedIn(data), Accounts) \in Nat
  BY <1>3, RewardsAreTyped
<1>5. /\ ClaimableIn(done)[user] = 0
      /\ ClaimableIn(data)[user] = data[user].claimableRewardsBP
      /\ \A a \in Accounts \ {user} : ClaimableIn(data)[a] = ClaimableIn(done)[a]
      /\ ClaimedIn(done)[user] = total
      /\ ClaimedIn(data)[user] = data[user].accumRewards
      /\ \A a \in Accounts \ {user} : ClaimedIn(data)[a] = ClaimedIn(done)[a]
      /\ BoostedIn(done) = BoostedIn(data)
  BY <1>3 DEF ClaimableIn, ClaimedIn, BoostedIn
<1>6. SumOver(after, Accounts) - after[user] = SumOver(bal, Accounts) - bal[user]
  BY <1>2, FiniteAccounts, SumMovesWithOne
<1>7. SumOver(ClaimableIn(done), Accounts) - ClaimableIn(done)[user]
        = SumOver(ClaimableIn(data), Accounts) - ClaimableIn(data)[user]
  BY <1>4, <1>5, FiniteAccounts, SumMovesWithOne
<1>8. SumOver(ClaimedIn(done), Accounts) - ClaimedIn(done)[user]
        = SumOver(ClaimedIn(data), Accounts) - ClaimedIn(data)[user]
  BY <1>4, <1>5, FiniteAccounts, SumMovesWithOne
<1>9. /\ SumOver(bal, Accounts) \in Nat /\ SumOver(after, Accounts) \in Nat
      /\ SumOver(InitBalance, Accounts) \in Nat
  <2>1. /\ \A a \in Accounts : bal[a] \in Int
        /\ \A a \in Accounts : after[a] \in Int
        /\ \A a \in Accounts : InitBalance[a] \in Int
    BY <1>2, PoolAssumption
  <2> QED BY <2>1, FiniteAccounts, UnitsFinite
<1>10. payout = total - data[user].accumRewards + data[user].claimableRewardsBP
  BY DEF payout
<1>11. /\ SumOver(after, Accounts) = SumOver(bal, Accounts) + payout
       /\ SumOver(ClaimableIn(done), Accounts)
            = SumOver(ClaimableIn(data), Accounts) - data[user].claimableRewardsBP
       /\ SumOver(ClaimedIn(done), Accounts)
            = SumOver(ClaimedIn(data), Accounts) + (total - data[user].accumRewards)
  <2>1. SumOver(after, Accounts) = SumOver(bal, Accounts) + payout
    BY <1>1, <1>2, <1>6, <1>9
  <2>2. SumOver(ClaimableIn(done), Accounts)
          = SumOver(ClaimableIn(data), Accounts) - data[user].claimableRewardsBP
    BY <1>1, <1>4, <1>5, <1>7
  <2>3. SumOver(ClaimedIn(done), Accounts)
          = SumOver(ClaimedIn(data), Accounts) + (total - data[user].accumRewards)
    BY <1>1, <1>4, <1>5, <1>8
  <2> QED BY <2>1, <2>2, <2>3
<1>12. Accounted(after, done)
  BY <1>1, <1>4, <1>5, <1>9, <1>10, <1>11 DEF Accounted
<1> QED BY <1>12 DEF after, done, payout

(* Every step records what it mints. *)
LEMMA NextIsAccounted ==
    ASSUME TypeOK, Accounted(balance, usersData), [Next]_vars
    PROVE  Accounted(balance', usersData')
<1>0. balance \in [Accounts -> Nat] /\ usersData \in [Accounts -> UserData]
  BY DEF TypeOK
<1>1. ASSUME NEW u \in Users, NEW amount \in Amounts, Deposit(u, amount)
      PROVE  Accounted(balance', usersData')
  <2> DEFINE deposited == amount - FeeAmount(amount, Thousandths(depositFee))
             afterFee  == Transfer(balance, u, FeeRecipient, amount - deposited)
             settled   == SettledUsers(u, CalcBPRewards)
  <2>1. u \in Accounts /\ amount \in Nat /\ FeeRecipient \in Accounts /\ PoolAddr \in Accounts
    BY UsersAreAccounts, PoolAssumption
  <2>2. deposited \in Nat /\ amount - deposited \in Nat
    <3>1. FeeAmount(amount, Thousandths(depositFee)) \in Nat
      BY <2>1, FeeIsAmount DEF TypeOK
    <3>2. deposited >= 0
      BY <1>1 DEF Deposit
    <3> QED BY <2>1, <3>1, <3>2
  <2>3. Settle(u, CalcBPRewards)
    BY <1>1 DEF Deposit
  <2>4. settled \in [Accounts -> UserData] /\ Accounted(balance, settled)
    BY <1>0, <2>3, SettlementIsTyped, SettlementIsAccounted
  <2>5. /\ Covers(balance, u, amount - deposited) /\ Covers(afterFee, u, deposited)
        /\ balance' = Transfer(afterFee, u, PoolAddr, deposited)
        /\ usersData' = [settled EXCEPT
                           ![u] = AfterDeposit(settled[u], deposited, rewardsPerToken')]
    BY <1>1 DEF Deposit
  <2> HIDE DEF settled, deposited
  <2>6. /\ afterFee \in [Accounts -> Nat]
        /\ SumOver(afterFee, Accounts) = SumOver(balance, Accounts)
    BY <1>0, <2>1, <2>2, <2>5, TransferIsTyped, TransferKeepsSum
  <2> HIDE DEF afterFee
  <2>7. SumOver(balance', Accounts) = SumOver(balance, Accounts)
    BY <2>1, <2>2, <2>5, <2>6, TransferKeepsSum
  <2>8. \A a \in Accounts :
          /\ usersData'[a].claimableRewardsBP = settled[a].claimableRewardsBP
          /\ usersData'[a].accumRewards = settled[a].accumRewards
          /\ usersData'[a].accumRewardsBP = settled[a].accumRewardsBP
    BY <2>1, <2>4, <2>5 DEF AfterDeposit, UserData
  <2> QED BY <2>4, <2>7, <2>8, SameRewardsAccounted
<1>2. ASSUME NEW u \in Users, NEW amount \in Amounts, Withdraw(u, amount)
      PROVE  Accounted(balance', usersData')
  <2> DEFINE deposits == usersData[u].deposits
             first    == usersData[u].nextDepositIdToRemove
             settled  == SettledUsers(u, VisitsOfWithdraw)
  <2>1. u \in Accounts /\ amount \in Nat /\ FeeRecipient \in Accounts /\ PoolAddr \in Accounts
    BY UsersAreAccounts, PoolAssumption
  <2>2. Settle(u, VisitsOfWithdraw)
    BY <1>2 DEF Withdraw
  <2>3. settled \in [Accounts -> UserData] /\ Accounted(balance, settled)
    BY <1>0, <2>2, SettlementIsTyped, SettlementIsAccounted
  <2>4. PICK k \in (first - 1)..Len(deposits) :
           LET w      == Withdrawal(deposits, withdrawFees, first, amount, k)
               afterW == Transfer(balance, PoolAddr, u, w.paid)
           IN
           /\ DrainsThrough(deposits, withdrawFees, first, amount, k)
           /\ NetsFit(deposits, withdrawFees, first, k)
           /\ Covers(balance, PoolAddr, w.paid)
           /\ Covers(afterW, PoolAddr, w.fee)
           /\ balance' = Transfer(afterW, PoolAddr, FeeRecipient, w.fee)
           /\ usersData' = [settled EXCEPT ![u] = AfterWithdrawal(settled[u], w)]
    BY <1>2, WithdrawalGoesThrough
  <2> DEFINE w      == Withdrawal(deposits, withdrawFees, first, amount, k)
             afterW == Transfer(balance, PoolAddr, u, w.paid)
  <2>5. w.paid \in Nat /\ w.fee \in Nat
    <3>1. deposits \in Deposits /\ first \in Nat \ {0} /\ withdrawFees \in Fees
      BY <2>1 DEF TypeOK, UserData, Deposits, DepositData, Fees
    <3> QED BY <2>1, <2>4, <3>1, WithdrawalIsTyped
  <2>6. /\ Covers(balance, PoolAddr, w.paid) /\ Covers(afterW, PoolAddr, w.fee)
        /\ balance' = Transfer(afterW, PoolAddr, FeeRecipient, w.fee)
        /\ usersData' = [settled EXCEPT ![u] = AfterWithdrawal(settled[u], w)]
    BY <2>4
  <2> HIDE DEF settled, w
  <2>7. /\ afterW \in [Accounts -> Nat]
        /\ SumOver(afterW, Accounts) = SumOver(balance, Accounts)
    <3>1. afterW \in [Accounts -> Nat]
      BY ONLY <1>0, <2>1, <2>5, <2>6, TransferIsTyped
    <3>2. SumOver(afterW, Accounts) = SumOver(balance, Accounts)
      BY ONLY FiniteAccounts, <1>0, <2>1, <2>5, <2>6, TransferKeepsSum
    <3> QED BY <3>1, <3>2
  <2> HIDE DEF afterW
  <2>8. SumOver(balance', Accounts) = SumOver(balance, Accounts)
    BY <2>1, <2>5, <2>6, <2>7, TransferKeepsSum
  <2>9. \A a \in Accounts :
          /\ usersData'[a].claimableRewardsBP = settled[a].claimableRewardsBP
          /\ usersData'[a].accumRewards = settled[a].accumRewards
          /\ usersData'[a].accumRewardsBP = settled[a].accumRewardsBP
    BY <2>1, <2>3, <2>6 DEF AfterWithdrawal, UserData
  <2> QED BY <2>3, <2>8, <2>9, SameRewardsAccounted
<1>3. ASSUME NEW caller \in Callers, NEW user \in Users, ClaimRewards(caller, user)
      PROVE  Accounted(balance', usersData')
  <2> DEFINE visits  == IF paused THEN NoVisits ELSE CheckBPExpired(user)
             total   == TotalRewards(user, rewardsPerToken')
             credit  == CreditAfter(caller, user, visits[user])
             settled == SettledUsers(caller, visits)
             payout  == total - usersData[user].accumRewards + credit
  <2>1. user \in Accounts
    BY UsersAreAccounts
  <2>2. /\ Settle(caller, visits)
        /\ usersData[user].accumRewards <= total
        /\ balance' = [balance EXCEPT ![user] = balance[user] + payout]
        /\ usersData' = [settled EXCEPT ![user] = AfterClaim(settled[user], total)]
    BY <1>3 DEF ClaimRewards
  <2>3. total \in Uint64
    BY <1>3, ClaimTotalIsTyped
  <2> HIDE DEF total, visits
  <2>4. /\ settled \in [Accounts -> UserData]
        /\ settled[user].accumRewards = usersData[user].accumRewards
        /\ settled[user].claimableRewardsBP = credit
        /\ Accounted(balance, settled)
    <3>1. settled \in [Accounts -> UserData] /\ Accounted(balance, settled)
      BY <1>0, <2>2, SettlementIsTyped, SettlementIsAccounted
    <3>2. settled[user].accumRewards = usersData[user].accumRewards
      BY <2>1, <2>2, SettlementIsTyped
    <3>3. settled[user].claimableRewardsBP = credit
      BY <1>0, <2>1 DEF SettledUsers, Boost, UserData
    <3> QED BY <3>1, <3>2, <3>3
  <2> HIDE DEF settled, credit
  <2>5. payout = total - settled[user].accumRewards + settled[user].claimableRewardsBP
    BY <2>4
  <2> HIDE DEF payout
  <2> QED BY <1>0, <2>1, <2>2, <2>3, <2>4, <2>5, ClaimIsAccounted
<1>4. ASSUME NEW u \in Users, NEW id \in PackIds \cap Slots, BurnBP(u, id)
      PROVE  Accounted(balance', usersData')
  <2> DEFINE settled == SettledUsers(u, CheckBPExpired(u))
  <2>1. u \in Accounts
    BY UsersAreAccounts
  <2>2. /\ Settle(u, CheckBPExpired(u)) /\ balance' = balance
        /\ usersData' = [settled EXCEPT ![u] = AfterBurn(settled[u], id)]
    BY <1>4 DEF BurnBP
  <2>3. settled \in [Accounts -> UserData] /\ Accounted(balance, settled)
    BY <1>0, <2>2, SettlementIsTyped, SettlementIsAccounted
  <2> HIDE DEF settled
  <2>4. \A a \in Accounts :
          /\ usersData'[a].claimableRewardsBP = settled[a].claimableRewardsBP
          /\ usersData'[a].accumRewards = settled[a].accumRewards
          /\ usersData'[a].accumRewardsBP = settled[a].accumRewardsBP
    <3>1. usersData'[u] = AfterBurn(settled[u], id) /\ settled[u] \in UserData
      BY ONLY <2>1, <2>2, <2>3
    <3>2. \A a \in Accounts \ {u} : usersData'[a] = settled[a]
      BY ONLY <2>2, <2>3
    <3>3. /\ usersData'[u].claimableRewardsBP = settled[u].claimableRewardsBP
          /\ usersData'[u].accumRewards = settled[u].accumRewards
          /\ usersData'[u].accumRewardsBP = settled[u].accumRewardsBP
      BY ONLY <3>1 DEF AfterBurn, UserData
    <3> QED BY ONLY <3>2, <3>3
  <2>5. SumOver(balance', Accounts) = SumOver(balance, Accounts)
    BY ONLY <2>2
  <2> QED BY ONLY <2>3, <2>4, <2>5, SameRewardsAccounted
<1>5. CASE Pause
  <2>1. Settle(Owner, CalcBPRewards) /\ usersData' = SettledUsers(Owner, CalcBPRewards)
        /\ balance' = balance
    BY <1>5 DEF Pause
  <2> QED BY <1>0, <2>1, SettlementIsAccounted
<1>6. CASE UNCHANGED <<usersData, balance>>
  BY <1>6
<1>7. \/ \E u \in Users, amount \in Amounts : Deposit(u, amount) \/ Withdraw(u, amount)
      \/ \E caller \in Callers, user \in Users : ClaimRewards(caller, user)
      \/ \E u \in Users, id \in PackIds \cap Slots : BurnBP(u, id)
      \/ Pause
      \/ UNCHANGED <<usersData, balance>>
  BY SettersKeepStakes DEF Next, UserStep, NextBlock, PackStep, vars, poolVars, stakeVars
<1> QED BY <1>1, <1>2, <1>3, <1>4, <1>5, <1>6, <1>7

(* Nothing is minted and recorded in a pool that was just created. *)
LEMMA InitIsAccounted == Init => Accounted(balance, usersData)
<1> SUFFICES ASSUME Init PROVE Accounted(balance, usersData)
  OBVIOUS
<1>1. \A a \in Accounts : /\ ClaimableIn(usersData)[a] = 0
                          /\ ClaimedIn(usersData)[a] = 0
                          /\ BoostedIn(usersData)[a] = 0
  BY DEF Init, NoUserData, ClaimableIn, ClaimedIn, BoostedIn
<1>2. /\ SumOver(ClaimableIn(usersData), Accounts) = 0
      /\ SumOver(ClaimedIn(usersData), Accounts) = 0
      /\ SumOver(BoostedIn(usersData), Accounts) = 0
  BY <1>1, SumOfZeros
<1>3. balance = InitBalance /\ SumOver(InitBalance, Accounts) \in Nat
  <2>1. \A a \in Accounts : InitBalance[a] \in Int
    BY PoolAssumption
  <2> QED BY <2>1, FiniteAccounts, UnitsFinite DEF Init
<1> QED BY <1>2, <1>3 DEF Accounted

(* Every token beyond the initial supply was minted by claimRewards and is *)
(* recorded for the user it was paid to; nothing else creates or destroys  *)
(* tokens, whatever the fees, boosters and pauses in between.              *)
THEOREM MintsAreAccounted == Spec => []EveryMintAccounted
<1>1. Accounted(balance, usersData) => EveryMintAccounted
  BY DEF Accounted, EveryMintAccounted, SumOfAccounts, ClaimableIn, ClaimedIn, BoostedIn
<1>2. TypeOK /\ Accounted(balance, usersData) /\ [Next]_vars
        => (TypeOK /\ Accounted(balance, usersData))'
  BY NextIsTyped, NextIsAccounted DEF Accounted
<1>3. Init => TypeOK /\ Accounted(balance, usersData)
  BY InitIsTyped, InitIsAccounted
<1> QED BY <1>1, <1>2, <1>3, PTL DEF Spec

-----------------------------------------------------------------------------
(* EachBlockPaidAtMostOnce. *)

(* A settlement of the index pays the deposited total at most what the     *)
(* schedule emits in the blocks since the last settlement.                 *)
LEMMA SettlementPaysEmission ==
    ASSUME TypeOK, UpdateRewardsPerToken
    PROVE  /\ rewardsPerToken' - rewardsPerToken \in Nat
           /\ (rewardsPerToken' - rewardsPerToken) * totalAmount
                <= EmissionOver((lastBlockUpdated + 1)..block) * MULTIPLIER
           /\ rewardsPerToken # rewardsPerToken' => totalAmount > 0
           /\ lastBlockUpdated' = block
<1> DEFINE emitted == EmissionIn(rewardsMultipliers, baseRate, (lastBlockUpdated+1)..block)
           growth  == AccruedTo(block)
<1>1. /\ rewardsMultipliers \in Schedule /\ baseRate \in Nat /\ totalAmount \in Nat
      /\ lastBlockUpdated \in Nat /\ block \in Nat /\ rewardsPerToken \in Nat
  BY WidthAssumption DEF TypeOK, Schedule, Uint128
<1>2. /\ growth \in Nat /\ rewardsPerToken' = rewardsPerToken + growth
      /\ lastBlockUpdated' = block /\ AccruedToFits(block)
  BY WidthAssumption DEF UpdateRewardsPerToken, Uint128
<1>3. EmissionOver((lastBlockUpdated+1)..block) = emitted
  BY DEF EmissionOver, BlockEmission, EmissionIn, EmissionAt
<1>4. emitted \in Nat
  BY <1>1, EmissionSplits
<1>5. CASE totalAmount = 0
  <2>1. growth = 0
    BY <1>5 DEF AccruedTo, Accrual
  <2> HIDE DEF growth, emitted
  <2> QED BY <1>1, <1>2, <1>3, <1>4, <1>5, <2>1 DEF MULTIPLIER
<1>6. CASE totalAmount # 0
  <2>1. growth * totalAmount <= MULTIPLIER * emitted
    BY <1>1, <1>2, <1>6, PaidWithinEmission DEF AccruedTo, AccruedToFits
  <2> HIDE DEF growth, emitted
  <2>2. rewardsPerToken' - rewardsPerToken = growth
    BY <1>1, <1>2
  <2> QED BY <1>1, <1>2, <1>3, <1>4, <1>6, <2>1, <2>2 DEF MULTIPLIER
<1> QED BY <1>5, <1>6

(* Only a settlement moves the index. *)
LEMMA NextMovesIndex ==
    ASSUME [Next]_vars
    PROVE  \/ UNCHANGED indexVars
           \/ UpdateRewardsPerToken /\ UNCHANGED block
<1>1. CASE UserStep
  BY <1>1 DEF UserStep, Deposit, Withdraw, ClaimRewards, BurnBP, UpdateUnlessPaused
<1>2. CASE OwnerStep
  BY <1>2, SettersKeepStakes DEF Pause
<1>3. CASE NextBlock \/ PackStep \/ UNCHANGED vars
  BY <1>3 DEF NextBlock, PackStep, vars, poolVars
<1> QED BY <1>1, <1>2, <1>3 DEF Next

(* A step of the reward index pays for no block before the last settlement *)
(* and for none after the current one, and pays each at most what its tier *)
(* emits, in whatever order the owner has put the tiers.                   *)
THEOREM BlocksArePaidOnce == Spec => EachBlockPaidAtMostOnce
<1> DEFINE PaidOnce ==
             /\ rewardsPerToken <= rewardsPerToken'
             /\ (rewardsPerToken' - rewardsPerToken) * totalAmount
                  <= EmissionOver((lastBlockUpdated + 1)..block) * MULTIPLIER
             /\ rewardsPerToken # rewardsPerToken'
                  => totalAmount > 0 /\ lastBlockUpdated' = block
<1>1. TypeOK /\ [Next]_vars => PaidOnce
  <2> SUFFICES ASSUME TypeOK, [Next]_vars PROVE PaidOnce
    OBVIOUS
  <2>1. rewardsPerToken \in Nat /\ totalAmount \in Nat
    BY WidthAssumption DEF TypeOK, Uint128
  <2>2. CASE UpdateRewardsPerToken
    <3>1. rewardsPerToken' \in Uint128
      BY <2>2, IndexIsTyped
    <3>2. rewardsPerToken' \in Nat
      BY <3>1, WidthAssumption DEF Uint128
    <3>3. rewardsPerToken <= rewardsPerToken'
      BY <2>2, IndexIsTyped
    <3> QED BY <2>2, <3>3, SettlementPaysEmission
  <2>3. CASE UNCHANGED indexVars
    <3>1. EmissionOver((lastBlockUpdated + 1)..block) \in Nat
      <4>1. /\ rewardsMultipliers \in Schedule /\ baseRate \in Nat
            /\ lastBlockUpdated \in Nat /\ block \in Nat
        BY DEF TypeOK, Schedule
      <4>2. EmissionIn(rewardsMultipliers, baseRate, (lastBlockUpdated + 1)..block) \in Nat
        BY <4>1, EmissionSplits
      <4> QED BY <4>2 DEF EmissionOver, BlockEmission, EmissionIn, EmissionAt
    <3>2. rewardsPerToken' - rewardsPerToken = 0
      BY <2>1, <2>3 DEF indexVars
    <3> QED BY <2>1, <2>3, <3>1, <3>2 DEF indexVars, MULTIPLIER
  <2> QED BY <2>2, <2>3, NextMovesIndex
<1>2. TypeOK /\ [Next]_vars => [PaidOnce]_vars
  BY <1>1
<1> QED BY <1>2, TypeCorrect, PTL DEF Spec, EachBlockPaidAtMostOnce

-----------------------------------------------------------------------------
(* ClaimsWithinEmission. *)

(* The owner never raises what a block emits: adds or rewrites no tier,    *)
(* sets no base rate above the first one, and a tier that is removed is    *)
(* followed by none that pays more.                                        *)
EmissionNeverRaised ==
    /\ Tiers = {}
    /\ \A rate \in BaseRates : rate <= InitBaseRate
    /\ \A i \in DOMAIN InitMultipliers : \A j \in 1..(i-1) :
          InitMultipliers[i].multiplier <= InitMultipliers[j].multiplier

(* Each user deposits once. *)
OneDepositEach == MaxDeposits <= 1

(* The schedule is the one of the constructor, less the removed tiers. *)
ScheduleOnlyCut ==
    /\ baseRate <= InitBaseRate
    /\ Len(rewardsMultipliers) = Len(InitMultipliers)
    /\ \A i \in DOMAIN InitMultipliers :
          \/ rewardsMultipliers[i] = InitMultipliers[i]
          \/ rewardsMultipliers[i].blockNumber = 0

(* It stays that. *)
LEMMA NextOnlyCuts ==
    ASSUME EmissionNeverRaised, TypeOK, ScheduleOnlyCut, [Next]_vars
    PROVE  ScheduleOnlyCut'
<1>1. /\ InitMultipliers \in Schedule /\ rewardsMultipliers \in Schedule
  BY PoolAssumption DEF TypeOK, Schedule
<1>2. /\ DOMAIN InitMultipliers = 1..Len(InitMultipliers)
      /\ DOMAIN rewardsMultipliers = 1..Len(rewardsMultipliers)
      /\ Len(rewardsMultipliers) \in Nat
      /\ \A i \in 1..Len(rewardsMultipliers) :
            rewardsMultipliers[i] \in [blockNumber : Nat, multiplier : Nat]
  BY <1>1, RowsOfSequence DEF Schedule
<1>3. CASE UNCHANGED <<baseRate, rewardsMultipliers>>
  BY <1>3 DEF ScheduleOnlyCut
<1>4. ASSUME NEW rate \in BaseRates, UpdateBaseRateTokensPerBlock(rate)
      PROVE  ScheduleOnlyCut'
  BY <1>4 DEF ScheduleOnlyCut, UpdateBaseRateTokensPerBlock, EmissionNeverRaised
<1>5. ASSUME NEW id \in 1..MaxRows, RemoveRewardsMultiplier(id)
      PROVE  ScheduleOnlyCut'
  <2> DEFINE zero == [blockNumber |-> 0, multiplier |-> 0]
  <2>1. /\ id \in DOMAIN rewardsMultipliers /\ baseRate' = baseRate
        /\ rewardsMultipliers' = [rewardsMultipliers EXCEPT ![id] = zero]
    BY <1>5 DEF RemoveRewardsMultiplier, ChangeRewardsMultipliers
  <2>2. rewardsMultipliers'
          \in [1..Len(rewardsMultipliers) -> [blockNumber : Nat, multiplier : Nat]]
    <3>1. rewardsMultipliers
            \in [1..Len(rewardsMultipliers) -> [blockNumber : Nat, multiplier : Nat]]
      <4>1. rewardsMultipliers = [i \in 1..Len(rewardsMultipliers) |-> rewardsMultipliers[i]]
        BY <1>1, <1>2 DEF Schedule
      <4> QED BY <1>2, <4>1
    <3>2. zero \in [blockNumber : Nat, multiplier : Nat]
      OBVIOUS
    <3> HIDE DEF zero
    <3> QED BY <2>1, <3>1, <3>2
  <2>3. Len(rewardsMultipliers') = Len(rewardsMultipliers)
    <3> DEFINE row == [blockNumber : Nat, multiplier : Nat]
    <3>1. rewardsMultipliers' \in [1..Len(rewardsMultipliers) -> row]
      BY <2>2
    <3> HIDE DEF row
    <3> QED BY <1>2, <3>1, SequenceOfLength
  <2>4. ASSUME NEW i \in DOMAIN InitMultipliers
        PROVE  \/ rewardsMultipliers'[i] = InitMultipliers[i]
               \/ rewardsMultipliers'[i].blockNumber = 0
    <3>1. i \in DOMAIN rewardsMultipliers
      BY <1>2 DEF ScheduleOnlyCut
    <3>2. CASE i = id
      BY <2>1, <3>1, <3>2
    <3>3. CASE i # id
      BY <2>1, <3>1, <3>3 DEF ScheduleOnlyCut
    <3> QED BY <3>2, <3>3
  <2> QED BY <2>1, <2>3, <2>4 DEF ScheduleOnlyCut
<1>6. \/ UNCHANGED <<baseRate, rewardsMultipliers>>
      \/ \E rate \in BaseRates : UpdateBaseRateTokensPerBlock(rate)
      \/ \E id \in 1..MaxRows : RemoveRewardsMultiplier(id)
  <2>1. CASE UserStep
    BY <2>1 DEF UserStep, Deposit, Withdraw, ClaimRewards, BurnBP, configVars
  <2>2. CASE OwnerStep
    BY <2>2 DEF OwnerStep, Pause, Unpause, UpdateDepositFee, EmissionNeverRaised,
                AddWithdrawFee, UpdateWithdrawFee, RemoveWithdrawFee, ChangeWithdrawFees
  <2>3. CASE NextBlock \/ PackStep \/ UNCHANGED vars
    BY <2>3 DEF NextBlock, PackStep, vars, poolVars, configVars
  <2> QED BY <2>1, <2>2, <2>3 DEF Next
<1> QED BY <1>3, <1>4, <1>5, <1>6

(* No block emits more than the schedule of the constructor says. *)
LEMMA CutEmitsLess ==
    ASSUME EmissionNeverRaised, TypeOK, ScheduleOnlyCut, NEW b \in Nat \ {0}
    PROVE  BlockEmission(b) <= InitEmission(b)
<1> DEFINE now   == {i \in DOMAIN rewardsMultipliers : b <= rewardsMultipliers[i].blockNumber}
           first == {i \in DOMAIN InitMultipliers : b <= InitMultipliers[i].blockNumber}
<1>1. /\ InitMultipliers \in Schedule /\ rewardsMultipliers \in Schedule
      /\ InitBaseRate \in Nat /\ baseRate \in Nat /\ baseRate <= InitBaseRate
  BY PoolAssumption DEF TypeOK, Schedule, ScheduleOnlyCut
<1>2. /\ DOMAIN InitMultipliers = 1..Len(InitMultipliers)
      /\ DOMAIN rewardsMultipliers = DOMAIN InitMultipliers
      /\ \A i \in DOMAIN InitMultipliers :
            InitMultipliers[i] \in [blockNumber : Nat, multiplier : Nat]
  BY <1>1, RowsOfSequence DEF Schedule, ScheduleOnlyCut
<1>3. InitEmission(b) \in Nat
  <2>1. InitEmission(b) = EmissionAt(InitMultipliers, InitBaseRate, b)
    BY DEF InitEmission, EmissionAt
  <2> QED BY <1>1, <2>1, EmissionIsAmount
<1>4. CASE now = {}
  BY <1>3, <1>4 DEF BlockEmission
<1>5. CASE now # {}
  <2>1. now \subseteq Nat /\ first \subseteq Nat
    BY <1>2
  <2>2. \A i \in now : i \in first /\ rewardsMultipliers[i] = InitMultipliers[i]
    BY <1>2 DEF ScheduleOnlyCut
  <2>3. first # {}
    BY <1>5, <2>2
  <2>4. BlockEmission(b) = baseRate * rewardsMultipliers[Min(now)].multiplier
    BY <1>5 DEF BlockEmission
  <2>5. InitEmission(b) = InitBaseRate * InitMultipliers[Min(first)].multiplier
    BY <2>3 DEF InitEmission
  <2>6. Min(now) \in now /\ Min(first) \in first /\ Min(first) <= Min(now)
    BY <1>5, <2>1, <2>2, <2>3, MinOfNats
  <2>7. Min(now) \in DOMAIN InitMultipliers /\ Min(first) \in DOMAIN InitMultipliers
        /\ Min(now) \in Nat /\ Min(first) \in Nat
    BY <1>2, <2>1, <2>6
  <2>8. rewardsMultipliers[Min(now)] = InitMultipliers[Min(now)]
    BY <2>2, <2>6
  <2> HIDE DEF now, first
  <2>9. InitMultipliers[Min(now)].multiplier <= InitMultipliers[Min(first)].multiplier
    <3>1. CASE Min(first) = Min(now)
      BY <1>2, <2>7, <3>1
    <3>2. CASE Min(first) # Min(now)
      <4>1. Min(first) \in 1..(Min(now) - 1)
        BY <1>2, <2>6, <2>7, <3>2
      <4> QED BY <2>7, <4>1 DEF EmissionNeverRaised
    <3> QED BY <3>1, <3>2
  <2>10. \A c, d, m, n \in Nat : c <= d /\ m <= n => c * m <= d * n
    OBVIOUS
  <2>11. /\ InitMultipliers[Min(now)].multiplier \in Nat
         /\ InitMultipliers[Min(first)].multiplier \in Nat
    BY <1>2, <2>7
  <2> QED BY <1>1, <2>4, <2>5, <2>8, <2>9, <2>10, <2>11
<1> QED BY <1>4, <1>5

(* What a user has earned of the emission: what was claimed, or what a     *)
(* claim would bring it to.                                                *)
CreditOf(user, index) ==
    LET pending == (index - user.rewardsPerToken) * user.totalAmountDeposited
        claimed == MULTIPLIER * user.accumRewards
    IN  IF pending < claimed THEN claimed ELSE pending

CreditsIn(data, index) == [a \in Accounts |-> CreditOf(data[a], index)]

(* Credits are covered by what was emitted up to the last settlement.      *)
CreditsWithinEmission ==
    SumOver(CreditsIn(usersData, rewardsPerToken), Accounts)
      <= MULTIPLIER * EmissionIn(InitMultipliers, InitBaseRate, 1..lastBlockUpdated)

(* Products of amounts. *)
LEMMA Products ==
    /\ \A m, n \in Nat : m * n \in Nat
    /\ \A k, m, n \in Nat : m <= n => m * k <= n * k
    /\ \A k, m, n \in Nat : m <= n => k * m <= k * n
    /\ \A k, m, n \in Nat : (m + n) * k = m * k + n * k
OBVIOUS

(* A credit is an amount. *)
LEMMA CreditIsAmount ==
    ASSUME NEW user \in UserData, NEW index \in Nat, user.rewardsPerToken <= index
    PROVE  /\ (index - user.rewardsPerToken) * user.totalAmountDeposited \in Nat
           /\ MULTIPLIER * user.accumRewards \in Nat
           /\ CreditOf(user, index) \in Nat
           /\ MULTIPLIER * user.accumRewards <= CreditOf(user, index)
           /\ (index - user.rewardsPerToken) * user.totalAmountDeposited
                <= CreditOf(user, index)
<1> DEFINE pending == (index - user.rewardsPerToken) * user.totalAmountDeposited
           claimed == MULTIPLIER * user.accumRewards
<1>1. /\ user.rewardsPerToken \in Nat /\ user.totalAmountDeposited \in Nat
      /\ user.accumRewards \in Nat /\ index - user.rewardsPerToken \in Nat
  BY WidthAssumption DEF UserData, Uint64
<1>2. pending \in Nat /\ claimed \in Nat
  BY <1>1, Products DEF MULTIPLIER
<1>3. CreditOf(user, index) = IF pending < claimed THEN claimed ELSE pending
  BY DEF CreditOf
<1> HIDE DEF pending, claimed
<1>4. /\ CreditOf(user, index) \in Nat
      /\ pending <= CreditOf(user, index) /\ claimed <= CreditOf(user, index)
  BY <1>2, <1>3
<1> QED BY <1>2, <1>4 DEF pending, claimed

(* A step of the index earns each user the step times the stake at most. *)
LEMMA CreditGrows ==
    ASSUME NEW user \in UserData, NEW index \in Nat, NEW growth \in Nat,
           user.rewardsPerToken <= index
    PROVE  CreditOf(user, index + growth)
             <= CreditOf(user, index) + growth * user.totalAmountDeposited
<1> DEFINE since   == index - user.rewardsPerToken
           stake   == user.totalAmountDeposited
           claimed == MULTIPLIER * user.accumRewards
<1>1. /\ user.rewardsPerToken \in Nat /\ stake \in Nat /\ since \in Nat
      /\ (index + growth) - user.rewardsPerToken = since + growth
  BY DEF UserData
<1>2. /\ claimed \in Nat /\ since * stake \in Nat /\ CreditOf(user, index) \in Nat
      /\ claimed <= CreditOf(user, index) /\ since * stake <= CreditOf(user, index)
  BY CreditIsAmount
<1>3. CreditOf(user, index + growth)
        = IF (since + growth) * stake < claimed THEN claimed ELSE (since + growth) * stake
  BY <1>1 DEF CreditOf
<1> HIDE DEF since, stake, claimed
<1>4. (since + growth) * stake = since * stake + growth * stake /\ growth * stake \in Nat
  BY <1>1, Products
<1>5. CreditOf(user, index + growth) <= CreditOf(user, index) + growth * stake
  BY <1>2, <1>3, <1>4
<1> QED BY <1>5 DEF stake

(* A user who keeps the starting index and no more than the stake, and     *)
(* claims no more than is pending, earns nothing by it.                    *)
LEMMA CreditIsKept ==
    ASSUME NEW user \in UserData, NEW after \in UserData, NEW index \in Nat,
           user.rewardsPerToken <= index,
           after.rewardsPerToken = user.rewardsPerToken,
           after.totalAmountDeposited <= user.totalAmountDeposited,
           MULTIPLIER * after.accumRewards <= CreditOf(user, index)
    PROVE  CreditOf(after, index) <= CreditOf(user, index)
<1> DEFINE since == index - user.rewardsPerToken
           stake == user.totalAmountDeposited
           rest  == after.totalAmountDeposited
<1>1. since \in Nat /\ stake \in Nat /\ rest \in Nat /\ rest <= stake
  BY DEF UserData
<1>2. CreditOf(user, index) \in Nat /\ since * stake <= CreditOf(user, index)
  BY CreditIsAmount
<1>3. CreditOf(after, index) = MULTIPLIER * after.accumRewards
        \/ CreditOf(after, index) = since * rest
  BY DEF CreditOf
<1> HIDE DEF since, stake, rest
<1>4. since * rest <= since * stake /\ since * rest \in Nat /\ since * stake \in Nat
  BY <1>1, Products
<1> QED BY <1>2, <1>3, <1>4

(* Nor does a user whose rewards start now. *)
LEMMA FreshCreditIsKept ==
    ASSUME NEW user \in UserData, NEW after \in UserData, NEW index \in Nat,
           user.rewardsPerToken <= index,
           after.rewardsPerToken = index,
           after.accumRewards = user.accumRewards
    PROVE  CreditOf(after, index) <= CreditOf(user, index)
<1>1. /\ MULTIPLIER * user.accumRewards \in Nat
      /\ MULTIPLIER * user.accumRewards <= CreditOf(user, index)
      /\ CreditOf(user, index) \in Nat
  BY CreditIsAmount
<1>2. (index - after.rewardsPerToken) * after.totalAmountDeposited = 0
  <2>1. index - after.rewardsPerToken = 0 /\ after.totalAmountDeposited \in Nat
    BY DEF UserData
  <2> QED BY <2>1
<1>3. CreditOf(after, index) = MULTIPLIER * user.accumRewards \/ CreditOf(after, index) = 0
  BY <1>2 DEF CreditOf
<1> QED BY <1>1, <1>3

(* Every credit is an amount where no starting index is ahead. *)
LEMMA CreditsAreAmounts ==
    ASSUME NEW data \in [Accounts -> UserData], NEW index \in Nat,
           \A a \in Accounts : data[a].rewardsPerToken <= index
    PROVE  /\ CreditsIn(data, index) \in [Accounts -> Nat]
           /\ SumOver(CreditsIn(data, index), Accounts) \in Nat
<1>1. CreditsIn(data, index) \in [Accounts -> Nat]
  BY CreditIsAmount DEF CreditsIn
<1>2. \A a \in Accounts : CreditsIn(data, index)[a] \in Int
  BY <1>1
<1> QED BY <1>1, <1>2, FiniteAccounts, UnitsFinite

(* A transaction earns nobody anything beyond the step of the index. *)
CreditsKept ==
    \A a \in Accounts : CreditOf(usersData'[a], rewardsPerToken')
                           <= CreditOf(usersData[a], rewardsPerToken')

(* The fields a credit is made of, of a settled account. *)
LEMMA SettledCredits ==
    ASSUME TypeOK, NEW caller, NEW visits, Settle(caller, visits)
    PROVE  LET settled == SettledUsers(caller, visits)
           IN  /\ settled \in [Accounts -> UserData]
               /\ \A a \in Accounts :
                    /\ settled[a].accumRewards = usersData[a].accumRewards
                    /\ settled[a].totalAmountDeposited = usersData[a].totalAmountDeposited
                    /\ settled[a].rewardsPerToken = usersData[a].rewardsPerToken
                    /\ settled[a].deposits = usersData[a].deposits
BY SettlementIsTyped DEF Stake

(* Users whose records of stake, claims and starting index stay. *)
LEMMA SameCredits ==
    ASSUME \A a \in Accounts :
              /\ usersData'[a].accumRewards = usersData[a].accumRewards
              /\ usersData'[a].totalAmountDeposited = usersData[a].totalAmountDeposited
              /\ usersData'[a].rewardsPerToken = usersData[a].rewardsPerToken,
           \A a \in Accounts : CreditOf(usersData[a], rewardsPerToken') \in Nat
    PROVE  CreditsKept
<1>1. \A a \in Accounts : CreditOf(usersData'[a], rewardsPerToken')
                              = CreditOf(usersData[a], rewardsPerToken')
  BY DEF CreditOf
<1> QED BY <1>1 DEF CreditsKept

(* The first deposit of a user starts the user's rewards. *)
LEMMA DepositKeepsCredits ==
    ASSUME OneDepositEach, TypeOK, TypeOK', rewardsPerToken' \in Nat,
           \A a \in Accounts : usersData[a].rewardsPerToken <= rewardsPerToken',
           NEW u \in Users, NEW amount \in Amounts, Deposit(u, amount)
    PROVE  CreditsKept
<1> DEFINE deposited == amount - FeeAmount(amount, Thousandths(depositFee))
           settled   == SettledUsers(u, CalcBPRewards)
<1>1. u \in Accounts
  BY UsersAreAccounts
<1>2. /\ usersData \in [Accounts -> UserData] /\ usersData' \in [Accounts -> UserData]
  BY DEF TypeOK
<1>3. /\ usersData' = [settled EXCEPT
                         ![u] = AfterDeposit(settled[u], deposited, rewardsPerToken')]
      /\ Len(usersData[u].deposits) < MaxDeposits
  BY DEF Deposit
<1>4. /\ settled \in [Accounts -> UserData]
      /\ \A a \in Accounts :
           /\ settled[a].accumRewards = usersData[a].accumRewards
           /\ settled[a].totalAmountDeposited = usersData[a].totalAmountDeposited
           /\ settled[a].rewardsPerToken = usersData[a].rewardsPerToken
           /\ settled[a].deposits = usersData[a].deposits
  BY SettledCredits DEF Deposit
<1>5. usersData[u].deposits = <<>>
  <2>1. usersData[u].deposits \in Seq(DepositData)
    BY <1>1, <1>2 DEF UserData
  <2>2. Len(usersData[u].deposits) = 0
    BY <1>3, <2>1, PoolAssumption DEF OneDepositEach
  <2> QED BY <2>1, <2>2
<1> HIDE DEF settled, deposited
<1>6. /\ usersData'[u].rewardsPerToken = rewardsPerToken'
      /\ usersData'[u].accumRewards = usersData[u].accumRewards
  <2>1. usersData'[u] = AfterDeposit(settled[u], deposited, rewardsPerToken')
    BY <1>1, <1>3, <1>4
  <2>2. settled[u].deposits = <<>> /\ settled[u] \in UserData
    BY <1>1, <1>4, <1>5
  <2>3. /\ usersData'[u].rewardsPerToken = rewardsPerToken'
        /\ usersData'[u].accumRewards = settled[u].accumRewards
    BY <2>1, <2>2 DEF AfterDeposit, UserData
  <2> QED BY <1>1, <1>4, <2>3
<1>7. CreditOf(usersData'[u], rewardsPerToken') <= CreditOf(usersData[u], rewardsPerToken')
  <2>1. usersData[u] \in UserData /\ usersData'[u] \in UserData
        /\ usersData[u].rewardsPerToken <= rewardsPerToken'
    BY <1>1, <1>2
  <2> QED BY <1>6, <2>1, FreshCreditIsKept
<1>8. ASSUME NEW a \in Accounts \ {u}
      PROVE  CreditOf(usersData'[a], rewardsPerToken') <= CreditOf(usersData[a], rewardsPerToken')
  <2>1. usersData'[a] = settled[a]
    BY <1>3, <1>4
  <2>2. CreditOf(usersData'[a], rewardsPerToken') = CreditOf(usersData[a], rewardsPerToken')
    BY <1>4, <2>1 DEF CreditOf
  <2>3. CreditOf(usersData[a], rewardsPerToken') \in Nat
    BY <1>2, CreditIsAmount
  <2> QED BY <2>2, <2>3
<1> QED BY <1>7, <1>8 DEF CreditsKept

(* A withdrawal only lowers the stake. *)
LEMMA WithdrawKeepsCredits ==
    ASSUME TypeOK, TypeOK', rewardsPerToken' \in Nat,
           \A a \in Accounts : usersData[a].rewardsPerToken <= rewardsPerToken',
           NEW u \in Users, NEW amount \in Amounts, Withdraw(u, amount)
    PROVE  CreditsKept
<1> DEFINE settled == SettledUsers(u, VisitsOfWithdraw)
<1>1. u \in Accounts
  BY UsersAreAccounts
<1>2. usersData \in [Accounts -> UserData] /\ usersData' \in [Accounts -> UserData]
  BY DEF TypeOK
<1>3. \E w : usersData' = [settled EXCEPT ![u] = AfterWithdrawal(settled[u], w)]
  BY DEF Withdraw
<1>4. PICK w : usersData' = [settled EXCEPT ![u] = AfterWithdrawal(settled[u], w)]
  BY <1>3
<1>5. /\ settled \in [Accounts -> UserData]
      /\ \A a \in Accounts :
           /\ settled[a].accumRewards = usersData[a].accumRewards
           /\ settled[a].totalAmountDeposited = usersData[a].totalAmountDeposited
           /\ settled[a].rewardsPerToken = usersData[a].rewardsPerToken
  BY SettledCredits DEF Withdraw
<1>6. usersData'[u].totalAmountDeposited <= usersData[u].totalAmountDeposited
  <2>1. PICK drained \in Nat, rest \in Nat :
           usersData'[u].totalAmountDeposited = Stake(u) - (drained + rest)
    BY WithdrawTakesStake
  <2>2. Stake(u) \in Nat /\ Stake(u) = usersData[u].totalAmountDeposited
    BY <1>1, <1>2 DEF Stake, UserData
  <2> QED BY <2>1, <2>2
<1> HIDE DEF settled
<1>7. /\ usersData'[u].rewardsPerToken = usersData[u].rewardsPerToken
      /\ usersData'[u].accumRewards = usersData[u].accumRewards
  <2>1. usersData'[u] = AfterWithdrawal(settled[u], w) /\ settled[u] \in UserData
    BY <1>1, <1>4, <1>5
  <2>2. /\ usersData'[u].rewardsPerToken = settled[u].rewardsPerToken
        /\ usersData'[u].accumRewards = settled[u].accumRewards
    BY <2>1 DEF AfterWithdrawal, UserData
  <2> QED BY <1>1, <1>5, <2>2
<1>8. CreditOf(usersData'[u], rewardsPerToken') <= CreditOf(usersData[u], rewardsPerToken')
  <2>1. usersData[u] \in UserData /\ usersData'[u] \in UserData
        /\ usersData[u].rewardsPerToken <= rewardsPerToken'
    BY <1>1, <1>2
  <2>2. MULTIPLIER * usersData'[u].accumRewards <= CreditOf(usersData[u], rewardsPerToken')
    BY <1>7, <2>1, CreditIsAmount
  <2> QED BY <1>6, <1>7, <2>1, <2>2, CreditIsKept
<1>9. ASSUME NEW a \in Accounts \ {u}
      PROVE  CreditOf(usersData'[a], rewardsPerToken') <= CreditOf(usersData[a], rewardsPerToken')
  <2>1. usersData'[a] = settled[a]
    BY <1>4, <1>5
  <2>2. CreditOf(usersData'[a], rewardsPerToken') = CreditOf(usersData[a], rewardsPerToken')
    BY <1>5, <2>1 DEF CreditOf
  <2>3. CreditOf(usersData[a], rewardsPerToken') \in Nat
    BY <1>2, CreditIsAmount
  <2> QED BY <2>2, <2>3
<1> QED BY <1>8, <1>9 DEF CreditsKept

(* A claim brings what was claimed up to what is pending at most. *)
LEMMA ClaimKeepsCredits ==
    ASSUME TypeOK, TypeOK', rewardsPerToken' \in Nat,
           \A a \in Accounts : usersData[a].rewardsPerToken <= rewardsPerToken',
           NEW caller \in Callers, NEW user \in Users, ClaimRewards(caller, user)
    PROVE  CreditsKept
<1> DEFINE visits  == IF paused THEN NoVisits ELSE CheckBPExpired(user)
           total   == TotalRewards(user, rewardsPerToken')
           settled == SettledUsers(caller, visits)
           pending == (rewardsPerToken' - usersData[user].rewardsPerToken)
                         * usersData[user].totalAmountDeposited
<1>1. user \in Accounts
  BY UsersAreAccounts
<1>2. usersData \in [Accounts -> UserData] /\ usersData' \in [Accounts -> UserData]
  BY DEF TypeOK
<1>3. /\ Settle(caller, visits)
      /\ usersData' = [settled EXCEPT ![user] = AfterClaim(settled[user], total)]
  BY DEF ClaimRewards
<1> HIDE DEF visits
<1>4. /\ settled \in [Accounts -> UserData]
      /\ \A a \in Accounts :
           /\ settled[a].accumRewards = usersData[a].accumRewards
           /\ settled[a].totalAmountDeposited = usersData[a].totalAmountDeposited
           /\ settled[a].rewardsPerToken = usersData[a].rewardsPerToken
  BY <1>3, SettledCredits
<1>5. /\ usersData[user] \in UserData /\ usersData'[user] \in UserData
      /\ usersData[user].rewardsPerToken <= rewardsPerToken'
  BY <1>1, <1>2
<1>6. pending \in Nat /\ pending <= CreditOf(usersData[user], rewardsPerToken')
      /\ CreditOf(usersData[user], rewardsPerToken') \in Nat
  BY <1>5, CreditIsAmount
<1>7. total = ToUint64(pending \div 1000)
  BY DEF TotalRewards, Stake, MULTIPLIER
<1> HIDE DEF settled, total, pending
<1>8. total \in Nat /\ MULTIPLIER * total <= pending
  <2>1. pending \div 1000 \in Nat /\ (pending \div 1000) * 1000 <= pending
    BY <1>6, QuotientTimes
  <2>2. total \in Nat /\ total <= pending \div 1000
    BY <1>7, <2>1, ToUint64IsBelow
  <2> QED BY <1>6, <2>1, <2>2 DEF MULTIPLIER
<1>9. /\ usersData'[user].rewardsPerToken = usersData[user].rewardsPerToken
      /\ usersData'[user].totalAmountDeposited = usersData[user].totalAmountDeposited
      /\ usersData'[user].accumRewards = total
  <2>1. usersData'[user] = AfterClaim(settled[user], total) /\ settled[user] \in UserData
    BY <1>1, <1>3, <1>4
  <2>2. /\ usersData'[user].rewardsPerToken = settled[user].rewardsPerToken
        /\ usersData'[user].totalAmountDeposited = settled[user].totalAmountDeposited
        /\ usersData'[user].accumRewards = total
    BY <2>1 DEF AfterClaim, UserData
  <2> QED BY <1>1, <1>4, <2>2
<1>10. CreditOf(usersData'[user], rewardsPerToken')
         <= CreditOf(usersData[user], rewardsPerToken')
  <2>1. MULTIPLIER * usersData'[user].accumRewards
          <= CreditOf(usersData[user], rewardsPerToken')
    BY <1>6, <1>8, <1>9 DEF MULTIPLIER
  <2>2. usersData'[user].totalAmountDeposited <= usersData[user].totalAmountDeposited
    BY <1>5, <1>9 DEF UserData
  <2> QED BY <1>5, <1>9, <2>1, <2>2, CreditIsKept
<1>11. ASSUME NEW a \in Accounts \ {user}
       PROVE  CreditOf(usersData'[a], rewardsPerToken') <= CreditOf(usersData[a], rewardsPerToken')
  <2>1. usersData'[a] = settled[a]
    BY <1>3, <1>4
  <2>2. CreditOf(usersData'[a], rewardsPerToken') = CreditOf(usersData[a], rewardsPerToken')
    BY <1>4, <2>1 DEF CreditOf
  <2>3. CreditOf(usersData[a], rewardsPerToken') \in Nat
    BY <1>2, CreditIsAmount
  <2> QED BY <2>2, <2>3
<1> QED BY <1>10, <1>11 DEF CreditsKept

(* No step earns anybody anything beyond the step of the index. *)
LEMMA NextKeepsCredits ==
    ASSUME OneDepositEach, TypeOK, TypeOK', rewardsPerToken' \in Nat,
           \A a \in Accounts : usersData[a].rewardsPerToken <= rewardsPerToken',
           [Next]_vars
    PROVE  CreditsKept
<1>1. usersData \in [Accounts -> UserData]
  BY DEF TypeOK
<1>2. \A a \in Accounts : CreditOf(usersData[a], rewardsPerToken') \in Nat
  BY <1>1, CreditIsAmount
<1>3. ASSUME NEW u \in Users, NEW id \in PackIds \cap Slots, BurnBP(u, id)
      PROVE  CreditsKept
  <2> DEFINE settled == SettledUsers(u, CheckBPExpired(u))
  <2>1. u \in Accounts
    BY UsersAreAccounts
  <2>2. usersData' = [settled EXCEPT ![u] = AfterBurn(settled[u], id)]
    BY <1>3 DEF BurnBP
  <2>3. /\ settled \in [Accounts -> UserData]
        /\ \A a \in Accounts :
             /\ settled[a].accumRewards = usersData[a].accumRewards
             /\ settled[a].totalAmountDeposited = usersData[a].totalAmountDeposited
             /\ settled[a].rewardsPerToken = usersData[a].rewardsPerToken
    BY <1>3, SettledCredits DEF BurnBP
  <2> HIDE DEF settled
  <2>4. \A a \in Accounts :
          /\ usersData'[a].accumRewards = usersData[a].accumRewards
          /\ usersData'[a].totalAmountDeposited = usersData[a].totalAmountDeposited
          /\ usersData'[a].rewardsPerToken = usersData[a].rewardsPerToken
    BY <2>1, <2>2, <2>3 DEF AfterBurn, UserData
  <2> QED BY <1>2, <2>4, SameCredits
<1>4. CASE Pause
  <2>1. \A a \in Accounts :
          /\ usersData'[a].accumRewards = usersData[a].accumRewards
          /\ usersData'[a].totalAmountDeposited = usersData[a].totalAmountDeposited
          /\ usersData'[a].rewardsPerToken = usersData[a].rewardsPerToken
    BY <1>4, SettledCredits DEF Pause
  <2> QED BY <1>2, <2>1, SameCredits
<1>5. CASE UNCHANGED usersData
  BY <1>2, <1>5, SameCredits
<1>6. \/ \E u \in Users, amount \in Amounts : Deposit(u, amount) \/ Withdraw(u, amount)
      \/ \E caller \in Callers, user \in Users : ClaimRewards(caller, user)
      \/ \E u \in Users, id \in PackIds \cap Slots : BurnBP(u, id)
      \/ Pause
      \/ UNCHANGED usersData
  BY SettersKeepStakes DEF Next, UserStep, NextBlock, PackStep, vars, poolVars, stakeVars
<1> QED BY <1>3, <1>4, <1>5, <1>6, DepositKeepsCredits, WithdrawKeepsCredits,
           ClaimKeepsCredits

(* What the schedule of the constructor emits up to a block. *)
InitEmissionUpTo(b) == EmissionIn(InitMultipliers, InitBaseRate, 1..b)

LEMMA InitEmissionGrows ==
    ASSUME NEW a \in Nat, NEW b \in Nat, a <= b
    PROVE  /\ InitEmissionUpTo(a) \in Nat /\ InitEmissionUpTo(b) \in Nat
           /\ InitEmissionUpTo(a) <= InitEmissionUpTo(b)
           /\ InitEmissionUpTo(b)
                = InitEmissionUpTo(a) + EmissionIn(InitMultipliers, InitBaseRate, (a+1)..b)
<1>1. InitMultipliers \in Schedule /\ InitBaseRate \in Nat
  BY PoolAssumption DEF Schedule
<1>2. ASSUME NEW z \in Nat, z <= a
      PROVE  /\ EmissionIn(InitMultipliers, InitBaseRate, (z+1)..a) \in Nat
             /\ EmissionIn(InitMultipliers, InitBaseRate, (z+1)..b) \in Nat
             /\ EmissionIn(InitMultipliers, InitBaseRate, (z+1)..a)
                  <= EmissionIn(InitMultipliers, InitBaseRate, (z+1)..b)
             /\ EmissionIn(InitMultipliers, InitBaseRate, (z+1)..b)
                  = EmissionIn(InitMultipliers, InitBaseRate, (z+1)..a)
                      + EmissionIn(InitMultipliers, InitBaseRate, (a+1)..b)
  BY <1>1, <1>2, EmissionSplits
<1>3. PICK z \in Nat : z <= a /\ z + 1 = 1
  OBVIOUS
<1> QED BY <1>2, <1>3, Zenon DEF InitEmissionUpTo

(* A settlement of the index pays the stakes at most what the schedule of  *)
(* the constructor emits in the blocks it settles.                         *)
LEMMA StakesEarnWithinEmission ==
    ASSUME EmissionNeverRaised, TypeOK, TotalCoversStakes, ScheduleOnlyCut,
           UpdateRewardsPerToken
    PROVE  (rewardsPerToken' - rewardsPerToken) * SumOver(StakesIn(usersData), Accounts)
             <= MULTIPLIER * EmissionIn(InitMultipliers, InitBaseRate,
                                        (lastBlockUpdated + 1)..block)
<1> DEFINE Blocks == (lastBlockUpdated + 1)..block
           now    == [b \in Blocks |-> BlockEmission(b)]
           first  == [b \in Blocks |-> InitEmission(b)]
           growth == rewardsPerToken' - rewardsPerToken
           stakes == SumOver(StakesIn(usersData), Accounts)
<1>1. /\ rewardsMultipliers \in Schedule /\ baseRate \in Nat /\ totalAmount \in Nat
      /\ InitMultipliers \in Schedule /\ InitBaseRate \in Nat
      /\ lastBlockUpdated \in Nat /\ block \in Nat
  BY WidthAssumption, PoolAssumption DEF TypeOK, Schedule, Uint128
<1>2. growth \in Nat /\ growth * totalAmount <= EmissionOver(Blocks) * MULTIPLIER
  BY SettlementPaysEmission
<1>3. stakes \in Nat /\ stakes <= totalAmount
  BY StakesAreTyped DEF TypeOK, TotalCoversStakes, Stakes, StakesIn, Stake
<1>4. IsFiniteSet(Blocks)
  BY <1>1, FS_Interval
<1>5. \A b \in Blocks : b \in Nat \ {0} /\ b \in Int
  BY <1>1
<1>6. now \in [Blocks -> Nat] /\ first \in [Blocks -> Nat]
  <2>1. \A b \in Blocks : /\ EmissionAt(rewardsMultipliers, baseRate, b) \in Nat
                          /\ EmissionAt(InitMultipliers, InitBaseRate, b) \in Nat
    BY <1>1, <1>5, EmissionIsAmount
  <2>2. \A b \in Blocks : BlockEmission(b) \in Nat /\ InitEmission(b) \in Nat
    BY <2>1 DEF EmissionAt, BlockEmission, InitEmission
  <2> QED BY <2>2
<1>7. \A b \in Blocks : now[b] <= first[b]
  BY <1>5, CutEmitsLess
<1>8. EmissionOver(Blocks) = SumOver(now, Blocks)
  BY DEF EmissionOver
<1>9. EmissionIn(InitMultipliers, InitBaseRate, Blocks) = SumOver(first, Blocks)
  BY DEF EmissionIn, EmissionAt, InitEmission
<1> HIDE DEF now, first, Blocks, growth, stakes
<1>10. SumOver(now, Blocks) <= SumOver(first, Blocks)
  BY <1>4, <1>6, <1>7, SumIsMonotone
<1>11. SumOver(now, Blocks) \in Nat /\ SumOver(first, Blocks) \in Nat
  BY <1>4, <1>6, UnitsFinite
<1>12. growth * stakes <= growth * totalAmount
       /\ growth * stakes \in Nat /\ growth * totalAmount \in Nat
  BY <1>1, <1>2, <1>3, Products
<1>13. growth * stakes <= MULTIPLIER * SumOver(first, Blocks)
  BY <1>2, <1>8, <1>10, <1>11, <1>12 DEF MULTIPLIER
<1> QED BY <1>9, <1>13 DEF Blocks, growth, stakes

(* Credits together grow by the step of the index times the stakes. *)
LEMMA CreditsGrowWithStakes ==
    ASSUME NEW data \in [Accounts -> UserData], NEW index \in Nat, NEW growth \in Nat,
           \A a \in Accounts : data[a].rewardsPerToken <= index
    PROVE  SumOver(CreditsIn(data, index + growth), Accounts)
             <= SumOver(CreditsIn(data, index), Accounts)
                  + growth * SumOver(StakesIn(data), Accounts)
<1> DEFINE before == CreditsIn(data, index)
           after  == CreditsIn(data, index + growth)
           stakes == StakesIn(data)
           earned == [a \in Accounts |-> growth * stakes[a]]
           sum    == [a \in Accounts |-> before[a] + earned[a]]
<1>1. \A a \in Accounts : /\ data[a] \in UserData /\ data[a].rewardsPerToken \in Nat
                          /\ data[a].rewardsPerToken <= index + growth
  BY DEF UserData
<1>2. before \in [Accounts -> Nat] /\ after \in [Accounts -> Nat]
      /\ stakes \in [Accounts -> Nat]
  BY <1>1, CreditsAreAmounts, StakesAreTyped
<1>3. \A a \in Accounts : after[a] <= before[a] + growth * stakes[a]
  BY <1>1, CreditGrows DEF CreditsIn, StakesIn
<1> HIDE DEF before, after, stakes
<1>4. earned \in [Accounts -> Nat]
  BY <1>2, Products
<1>5. SumOver(earned, Accounts) = growth * SumOver(stakes, Accounts)
  BY <1>2, FiniteAccounts, SumScaled
<1>6. \A a \in Accounts : after[a] <= sum[a]
  BY <1>3
<1> HIDE DEF earned
<1>7. sum \in [Accounts -> Nat]
  BY <1>2, <1>4
<1>8. SumOver(sum, Accounts) = SumOver(before, Accounts) + SumOver(earned, Accounts)
  BY <1>2, <1>4, FiniteAccounts, SumOfSums
<1> HIDE DEF sum
<1>9. SumOver(after, Accounts) <= SumOver(sum, Accounts)
  BY <1>2, <1>6, <1>7, FiniteAccounts, SumIsMonotone
<1>10. SumOver(after, Accounts)
         <= SumOver(before, Accounts) + growth * SumOver(stakes, Accounts)
  BY <1>5, <1>8, <1>9
<1> QED BY <1>10 DEF before, after, stakes

(* Every step keeps the credits within the emission. *)
LEMMA NextIsWithinEmission ==
    ASSUME EmissionNeverRaised, OneDepositEach, TypeOK, TypeOK',
           SettlementsInOrder, SettlementsInOrder', TotalCoversStakes, ScheduleOnlyCut,
           CreditsWithinEmission, [Next]_vars
    PROVE  CreditsWithinEmission'
<1> DEFINE growth == rewardsPerToken' - rewardsPerToken
           stakes == SumOver(StakesIn(usersData), Accounts)
           before == SumOver(CreditsIn(usersData, rewardsPerToken), Accounts)
           grown  == SumOver(CreditsIn(usersData, rewardsPerToken'), Accounts)
           after  == SumOver(CreditsIn(usersData', rewardsPerToken'), Accounts)
<1>0. usersData \in [Accounts -> UserData] /\ usersData' \in [Accounts -> UserData]
  BY DEF TypeOK
<1>1. /\ rewardsPerToken \in Nat /\ rewardsPerToken' \in Nat
      /\ lastBlockUpdated \in Nat /\ lastBlockUpdated' \in Nat /\ block \in Nat
  BY WidthAssumption DEF TypeOK, Uint128
<1>2. \/ rewardsPerToken' = rewardsPerToken /\ lastBlockUpdated' = lastBlockUpdated
      \/ UpdateRewardsPerToken
  BY NextMovesIndex DEF indexVars
<1>3. growth \in Nat /\ rewardsPerToken' = rewardsPerToken + growth
  <2>1. growth \in Nat
    <3>1. CASE rewardsPerToken' = rewardsPerToken
      BY <1>1, <3>1
    <3>2. CASE UpdateRewardsPerToken
      BY <3>2, SettlementPaysEmission
    <3> QED BY <1>2, <3>1, <3>2
  <2>2. \A m, n \in Nat : n = m + (n - m)
    OBVIOUS
  <2> QED BY <1>1, <2>1, <2>2, Zenon
<1>4. \A a \in Accounts : /\ usersData[a].rewardsPerToken <= rewardsPerToken
                          /\ usersData[a].rewardsPerToken <= rewardsPerToken'
                          /\ usersData'[a].rewardsPerToken <= rewardsPerToken'
  <2>1. \A a \in Accounts : /\ usersData[a].rewardsPerToken <= rewardsPerToken
                            /\ usersData'[a].rewardsPerToken <= rewardsPerToken'
    BY DEF SettlementsInOrder
  <2>2. \A a \in Accounts : usersData[a].rewardsPerToken \in Nat
    BY <1>0 DEF UserData
  <2> HIDE DEF growth
  <2>3. \A n \in Nat : n <= rewardsPerToken => n <= rewardsPerToken'
    BY <1>1, <1>3
  <2> QED BY <2>1, <2>2, <2>3
<1>5. before \in Nat /\ grown \in Nat /\ after \in Nat /\ stakes \in Nat
  BY <1>0, <1>1, <1>4, CreditsAreAmounts, StakesAreTyped
<1>6. grown <= before + growth * stakes
  <2> HIDE DEF growth
  <2>1. SumOver(CreditsIn(usersData, rewardsPerToken + growth), Accounts)
          <= before + growth * stakes
    BY <1>0, <1>1, <1>3, <1>4, CreditsGrowWithStakes
  <2> QED BY <1>3, <2>1
<1>7. after <= grown
  <2>1. CreditsKept
    BY <1>1, <1>4, NextKeepsCredits
  <2>2. /\ CreditsIn(usersData, rewardsPerToken') \in [Accounts -> Nat]
        /\ CreditsIn(usersData', rewardsPerToken') \in [Accounts -> Nat]
    BY <1>0, <1>1, <1>4, CreditsAreAmounts
  <2>3. \A a \in Accounts : CreditsIn(usersData', rewardsPerToken')[a]
                              <= CreditsIn(usersData, rewardsPerToken')[a]
    BY <2>1 DEF CreditsKept, CreditsIn
  <2> QED BY <2>2, <2>3, FiniteAccounts, SumIsMonotone
<1>8. before <= MULTIPLIER * InitEmissionUpTo(lastBlockUpdated)
  BY DEF CreditsWithinEmission, InitEmissionUpTo
<1>9. growth * stakes \in Nat
  BY <1>3, <1>5, Products
<1>10. after <= MULTIPLIER * InitEmissionUpTo(lastBlockUpdated')
  <2>1. CASE rewardsPerToken' = rewardsPerToken /\ lastBlockUpdated' = lastBlockUpdated
    <3>1. growth = 0
      BY <1>1, <2>1
    <3> HIDE DEF growth, before, grown, after, stakes
    <3>2. InitEmissionUpTo(lastBlockUpdated) \in Nat
      <4>1. \A n \in Nat : InitEmissionUpTo(n) \in Nat
        BY InitEmissionGrows
      <4> QED BY <1>1, <4>1
    <3>3. growth * stakes = 0
      BY <1>5, <3>1
    <3>4. after <= MULTIPLIER * InitEmissionUpTo(lastBlockUpdated)
      BY <1>5, <1>6, <1>7, <1>8, <3>2, <3>3 DEF MULTIPLIER
    <3> QED BY <2>1, <3>4
  <2>2. CASE UpdateRewardsPerToken
    <3> DEFINE new == EmissionIn(InitMultipliers, InitBaseRate, (lastBlockUpdated + 1)..block)
    <3>1. growth * stakes <= MULTIPLIER * new
      BY <2>2, StakesEarnWithinEmission
    <3>2. lastBlockUpdated <= block /\ lastBlockUpdated' = block
      BY <2>2 DEF SettlementsInOrder, UpdateRewardsPerToken
    <3>3. /\ InitEmissionUpTo(lastBlockUpdated) \in Nat /\ InitEmissionUpTo(block) \in Nat
          /\ InitEmissionUpTo(block) = InitEmissionUpTo(lastBlockUpdated) + new
      BY <1>1, <3>2, InitEmissionGrows
    <3>4. new \in Nat
      <4>1. InitMultipliers \in Schedule /\ InitBaseRate \in Nat
        BY PoolAssumption DEF Schedule
      <4> QED BY <1>1, <4>1, EmissionSplits
    <3> HIDE DEF growth, before, grown, after, stakes, new
    <3>5. after <= MULTIPLIER * InitEmissionUpTo(block)
      BY <1>5, <1>6, <1>7, <1>8, <1>9, <3>1, <3>3, <3>4 DEF MULTIPLIER
    <3> QED BY <3>2, <3>5
  <2> QED BY <1>2, <2>1, <2>2
<1> QED BY <1>10 DEF CreditsWithinEmission, InitEmissionUpTo

(* A pool that was just created owes nothing. *)
LEMMA InitIsWithinEmission == Init => ScheduleOnlyCut /\ CreditsWithinEmission
<1> SUFFICES ASSUME Init PROVE ScheduleOnlyCut /\ CreditsWithinEmission
  OBVIOUS
<1>1. ScheduleOnlyCut
  BY PoolAssumption DEF Init, ScheduleOnlyCut
<1>2. \A a \in Accounts : CreditsIn(usersData, rewardsPerToken)[a] = 0
  BY DEF Init, NoUserData, CreditsIn, CreditOf, MULTIPLIER
<1>3. SumOver(CreditsIn(usersData, rewardsPerToken), Accounts) = 0
  BY <1>2, SumOfZeros
<1>4. lastBlockUpdated \in Nat
  BY DEF Init
<1>5. InitEmissionUpTo(lastBlockUpdated) \in Nat
  BY <1>4, InitEmissionGrows
<1>6. CreditsWithinEmission
  BY <1>3, <1>5 DEF CreditsWithinEmission, InitEmissionUpTo, MULTIPLIER
<1> QED BY <1>1, <1>6

(* What was claimed is part of the credits. *)
LEMMA CreditsCoverClaims ==
    ASSUME TypeOK, SettlementsInOrder, CreditsWithinEmission
    PROVE  ClaimsWithinEmission
<1> DEFINE claims  == ClaimedIn(usersData)
           credits == CreditsIn(usersData, rewardsPerToken)
           scaled  == [a \in Accounts |-> 1000 * claims[a]]
<1>1. /\ usersData \in [Accounts -> UserData] /\ rewardsPerToken \in Nat
      /\ lastBlockUpdated \in Nat /\ block \in Nat /\ lastBlockUpdated <= block
      /\ \A a \in Accounts : usersData[a].rewardsPerToken <= rewardsPerToken
  BY WidthAssumption DEF TypeOK, Uint128, SettlementsInOrder
<1>2. /\ claims \in [Accounts -> Nat] /\ SumOver(claims, Accounts) \in Nat
      /\ credits \in [Accounts -> Nat] /\ SumOver(credits, Accounts) \in Nat
  BY <1>1, RewardsAreTyped, CreditsAreAmounts
<1>3. \A a \in Accounts : 1000 * claims[a] <= credits[a]
  BY <1>1, CreditIsAmount DEF ClaimedIn, CreditsIn, MULTIPLIER
<1>4. SumOver(credits, Accounts) <= MULTIPLIER * InitEmissionUpTo(lastBlockUpdated)
  BY DEF CreditsWithinEmission, InitEmissionUpTo
<1> HIDE DEF claims, credits
<1>5. scaled \in [Accounts -> Nat]
  BY <1>2
<1>6. SumOver(scaled, Accounts) = 1000 * SumOver(claims, Accounts)
  BY <1>2, FiniteAccounts, SumScaled
<1>7. SumOver(scaled, Accounts) <= SumOver(credits, Accounts)
  <2>1. \A a \in Accounts : scaled[a] <= credits[a]
    BY <1>3
  <2> HIDE DEF scaled
  <2> QED BY <1>2, <1>5, <2>1, FiniteAccounts, SumIsMonotone
<1>8. /\ InitEmissionUpTo(lastBlockUpdated) \in Nat /\ InitEmissionUpTo(block) \in Nat
      /\ InitEmissionUpTo(lastBlockUpdated) <= InitEmissionUpTo(block)
  BY <1>1, InitEmissionGrows
<1> HIDE DEF scaled
<1>9. SumOver(claims, Accounts) <= InitEmissionUpTo(block)
  BY <1>2, <1>4, <1>6, <1>7, <1>8 DEF MULTIPLIER
<1>10. InitEmissionUpTo(block) = SumOver([b \in 1..block |-> InitEmission(b)], 1..block)
  BY DEF InitEmissionUpTo, EmissionIn, EmissionAt, InitEmission
<1>11. SumOver(claims, Accounts)
         <= SumOver([b \in 1..block |-> InitEmission(b)], 1..block)
  BY <1>9, <1>10, Zenon
<1> QED BY <1>11, Zenon DEF ClaimsWithinEmission, SumOfAccounts, claims, ClaimedIn

(* All users together never claim more than the schedule has emitted,      *)
(* however deposits, partial withdrawals, claims, pauses and removed tiers *)
(* take turns, where the owner never raises the emission and each user     *)
(* deposits once.                                                          *)
THEOREM ClaimsAreEmitted ==
    EmissionNeverRaised /\ OneDepositEach => (Spec => []ClaimsWithinEmission)
<1> SUFFICES ASSUME EmissionNeverRaised, OneDepositEach
             PROVE  Spec => []ClaimsWithinEmission
  OBVIOUS
<1>1. Init => ScheduleOnlyCut /\ CreditsWithinEmission
  BY InitIsWithinEmission
<1>2. TypeOK /\ ScheduleOnlyCut /\ [Next]_vars => ScheduleOnlyCut'
  BY NextOnlyCuts
<1>3. TypeOK /\ TypeOK' /\ SettlementsInOrder /\ SettlementsInOrder' /\ TotalCoversStakes
        /\ ScheduleOnlyCut /\ CreditsWithinEmission /\ [Next]_vars
        => CreditsWithinEmission'
  BY NextIsWithinEmission
<1>4. TypeOK /\ SettlementsInOrder /\ CreditsWithinEmission => ClaimsWithinEmission
  BY CreditsCoverClaims
<1> QED BY <1>1, <1>2, <1>3, <1>4, TypeCorrect, OrderCorrect, TotalCorrect, PTL DEF Spec
=============================================================================
