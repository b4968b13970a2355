----------------------------- MODULE PoolProofs -----------------------------
(***************************************************************************)
(* Theorems about Pool, for every value of its constants that satisfies    *)
(* the assumptions.  Each invariant has one lemma per kind of transaction. *)
(***************************************************************************)
EXTENDS PoolProperties, PoolMathProofs

-----------------------------------------------------------------------------
(* Token balances. *)

(* A covered transfer leaves balances ... *)
LEMMA TransferIsTyped ==
    ASSUME NEW bal \in [Accounts -> Nat], NEW from \in Accounts, NEW to \in Accounts,
           NEW amount \in Nat, Covers(bal, from, amount)
    PROVE  Transfer(bal, from, to, amount) \in [Accounts -> Nat]
BY TransferLeavesAmounts

(* ... and their sum.                                                      *)
LEMMA TransferKeepsSum ==
    ASSUME NEW bal \in [Accounts -> Nat], NEW from \in Accounts, NEW to \in Accounts,
           NEW amount \in Nat, Covers(bal, from, amount)
    PROVE  SumOver(Transfer(bal, from, to, amount), Accounts) = SumOver(bal, Accounts)
BY FiniteAccounts, TransferLeavesSum

(* A covered transfer between two accounts moves the amount. *)
LEMMA TransferMoves ==
    ASSUME NEW bal \in [Accounts -> Nat], NEW from \in Accounts, NEW to \in Accounts,
           from # to, NEW amount \in Nat
    PROVE  /\ Transfer(bal, from, to, amount)[from] = bal[from] - amount
           /\ Transfer(bal, from, to, amount)[to] = bal[to] + amount
BY DEF Transfer

(* Everybody who acts or is paid has an account. *)
LEMMA UsersAreAccounts ==
    /\ Users \subseteq Accounts /\ Callers \subseteq Accounts
    /\ Owner \in Accounts /\ FeeRecipient \in Accounts
    /\ PoolAddr \in Accounts /\ Zero \in Accounts
BY PoolAssumption DEF Callers

(* uint64(n) fits 64 bits. *)
LEMMA ToUint64IsTyped == \A n \in Nat : ToUint64(n) \in Uint64
<1>1. \A n \in Nat, m \in Nat \ {0} : n % m \in 0..(m-1)
  OBVIOUS
<1>2. MaxUint64 + 1 \in Nat \ {0} /\ (MaxUint64 + 1) - 1 = MaxUint64
  BY WidthAssumption
<1> QED BY <1>1, <1>2 DEF ToUint64, Uint64

-----------------------------------------------------------------------------
(* Settlements. *)

(* A settlement writes typed records, and of a user's record only the four *)
(* fields of the booster.                                                  *)
LEMMA SettlementIsTyped ==
    ASSUME TypeOK, NEW caller, NEW visits, Settle(caller, visits)
    PROVE  LET settled == SettledUsers(caller, visits)
           IN  /\ rewardsPerTokenBP' \in [Accounts -> Uint128]
               /\ settled \in [Accounts -> UserData]
               /\ \A a \in Accounts :
                    /\ settled[a].accumRewards = usersData[a].accumRewards
                    /\ settled[a].totalAmountDeposited = Stake(a)
                    /\ settled[a].nextDepositIdToRemove = usersData[a].nextDepositIdToRemove
                    /\ settled[a].rewardsPerToken = usersData[a].rewardsPerToken
                    /\ settled[a].deposits = usersData[a].deposits
                    /\ CreditAfter(caller, a, visits[a]) \in Uint64
<1> DEFINE settled == SettledUsers(caller, visits)
<1>1. \A a \in Accounts : Boost(caller, a, visits[a]) \in StoredBoost
  BY DEF Settle, SettlementFits
<1>2. \A a \in Accounts : /\ Boost(caller, a, visits[a]).index = IndexAfter(a, visits[a])
                          /\ Boost(caller, a, visits[a]).claimable
                               = CreditAfter(caller, a, visits[a])
  BY DEF Boost
<1>3. \A a \in Accounts : /\ IndexAfter(a, visits[a]) \in Uint128
                          /\ CreditAfter(caller, a, visits[a]) \in Uint64
  BY <1>1, <1>2 DEF StoredBoost
<1>4. rewardsPerTokenBP' \in [Accounts -> Uint128]
  BY <1>3 DEF Settle
<1>5. ASSUME NEW a \in Accounts
      PROVE  /\ settled[a] \in UserData
             /\ settled[a].accumRewards = usersData[a].accumRewards
             /\ settled[a].totalAmountDeposited = Stake(a)
             /\ settled[a].nextDepositIdToRemove = usersData[a].nextDepositIdToRemove
             /\ settled[a].rewardsPerToken = usersData[a].rewardsPerToken
             /\ settled[a].deposits = usersData[a].deposits
  <2> DEFINE boost == Boost(caller, a, visits[a])
  <2>1. usersData[a] \in UserData
    BY DEF TypeOK
  <2>2. boost \in StoredBoost
    BY <1>1
  <2>3. settled[a] = [usersData[a] EXCEPT !.claimableRewardsBP = boost.claimable,
                                          !.accumRewardsBP = boost.accum,
                                          !.activeBoosterPack = boost.pack,
                                          !.boosterPackActivationBlock = boost.start]
    BY DEF SettledUsers
  <2> HIDE DEF boost, settled
  <2> QED BY <2>1, <2>2, <2>3 DEF UserData, StoredBoost, Stake
<1>6. settled \in [Accounts -> UserData]
  BY <1>5 DEF SettledUsers
<1> QED BY <1>3, <1>4, <1>5, <1>6

(* The reward index fits 128 bits and never falls. *)
LEMMA IndexIsTyped ==
    ASSUME TypeOK, UpdateRewardsPerToken \/ UpdateUnlessPaused
    PROVE  /\ rewardsPerToken' \in Uint128 /\ lastBlockUpdated' \in Nat
           /\ rewardsPerToken <= rewardsPerToken'
<1>1. CASE UpdateRewardsPerToken
  BY <1>1, WidthAssumption DEF UpdateRewardsPerToken, TypeOK, Uint128
<1>2. CASE UNCHANGED indexVars
  BY <1>2, WidthAssumption DEF indexVars, TypeOK, Uint128
<1> QED BY <1>1, <1>2 DEF UpdateUnlessPaused

(* The expiry test replaces at most one entry of the list. *)
LEMMA ListIsTyped ==
    ASSUME TypeOK, NEW user \in Accounts
    PROVE  /\ ListAfterCheck(user) \in Seq(Accounts)
           /\ Len(ListAfterCheck(user)) = Len(usersWithBoosterPacks)
<1> DEFINE list == usersWithBoosterPacks
<1>1. /\ list \in Seq(Accounts) /\ DOMAIN list = 1..Len(list) /\ Len(list) \in Nat
      /\ \A i \in 1..Len(list) : list[i] \in Accounts
  BY RowsOfSequence DEF TypeOK
<1>2. CASE PackExpires(user)
  <2>1. ListAfterCheck(user) \in [1..Len(list) -> Accounts]
    BY <1>1, <1>2, UsersAreAccounts DEF ListAfterCheck
  <2> QED BY <1>1, <2>1, SequenceOfLength
<1>3. CASE ~PackExpires(user)
  BY <1>1, <1>3 DEF ListAfterCheck
<1> QED BY <1>2, <1>3

-----------------------------------------------------------------------------
(* Type correctness. *)

(* The constructor leaves a typed state. *)
LEMMA InitIsTyped == Init => TypeOK
<1> SUFFICES ASSUME Init PROVE TypeOK
  OBVIOUS
<1>1. 0 \in Uint64 /\ 0 \in Uint128 /\ 0 \in Slots
  BY WidthAssumption, PackAssumption DEF Uint64, Uint128, Slots
<1>2. <<>> \in Seq(DepositData) /\ <<>> \in Seq(Accounts)
  OBVIOUS
<1>3. NoUserData \in UserData
  BY <1>1, <1>2 DEF NoUserData, UserData
<1>4. PackTypeOK
  BY PoolAssumption DEF Init, PackTypeOK
<1> QED BY <1>1, <1>2, <1>3, <1>4, PoolAssumption DEF Init, TypeOK

(* A user with one more deposit is typed. *)
LEMMA DepositIsAdded ==
    ASSUME TypeOK, NEW user \in UserData, NEW amount \in Nat, NEW index \in Nat
    PROVE  AfterDeposit(user, amount, index) \in UserData
<1> DEFINE added == [blockNumber |-> block, amount |-> amount]
           list  == Append(user.deposits, added)
           next  == IF user.deposits = <<>> THEN 1 ELSE user.nextDepositIdToRemove
           start == IF user.deposits = <<>> THEN index ELSE user.rewardsPerToken
<1>1. added \in DepositData
  BY DEF DepositData, TypeOK
<1> HIDE DEF added
<1>2. /\ list \in Seq(DepositData) /\ next \in Nat \ {0} /\ start \in Nat
      /\ user.totalAmountDeposited + amount \in Nat
  BY <1>1 DEF UserData
<1>3. AfterDeposit(user, amount, index) =
        [user EXCEPT !.deposits = list,
                     !.totalAmountDeposited = user.totalAmountDeposited + amount,
                     !.nextDepositIdToRemove = next,
                     !.rewardsPerToken = start]
  BY DEF AfterDeposit, added
<1> HIDE DEF list, next, start
<1> QED BY <1>2, <1>3 DEF UserData

(* deposit keeps the types: it reverts unless the depositor covers it. *)
LEMMA DepositIsTyped ==
    ASSUME TypeOK, NEW u \in Users, NEW amount \in Amounts, Deposit(u, amount)
    PROVE  TypeOK'
<1> DEFINE deposited == amount - FeeAmount(amount, Thousandths(depositFee))
           afterFee  == Transfer(balance, u, FeeRecipient, amount - deposited)
           settled   == SettledUsers(u, CalcBPRewards)
<1>1. u \in Accounts /\ amount \in Nat
  BY UsersAreAccounts, PoolAssumption
<1>2. deposited \in Nat /\ amount - deposited \in Nat
  <2>1. FeeAmount(amount, Thousandths(depositFee)) \in Nat
    BY <1>1, FeeIsAmount DEF TypeOK
  <2>2. deposited >= 0
    BY DEF Deposit
  <2> QED BY <1>1, <2>1, <2>2
<1>3. /\ rewardsPerTokenBP' \in [Accounts -> Uint128]
      /\ settled \in [Accounts -> UserData]
  BY SettlementIsTyped DEF Deposit
<1>4. /\ rewardsPerToken' \in Uint128 /\ lastBlockUpdated' \in Nat
      /\ rewardsPerToken' \in Nat
  BY IndexIsTyped DEF Deposit, Uint128
<1>5. balance' \in [Accounts -> Nat]
  <2>1. afterFee \in [Accounts -> Nat]
    BY <1>1, <1>2, UsersAreAccounts, TransferIsTyped DEF TypeOK, Deposit
  <2>2. balance' = Transfer(afterFee, u, PoolAddr, deposited)
    BY DEF Deposit
  <2>3. Covers(afterFee, u, deposited)
    BY DEF Deposit
  <2> HIDE DEF afterFee, deposited
  <2> QED BY <1>1, <1>2, <2>1, <2>2, <2>3, UsersAreAccounts, TransferIsTyped
<1>6. totalAmount' \in Uint128
  <2>1. totalAmount' = totalAmount + deposited /\ totalAmount + deposited <= MaxUint128
    BY DEF Deposit
  <2> HIDE DEF deposited
  <2> QED BY <1>2, <2>1, WidthAssumption DEF TypeOK, Uint128
<1>7. usersData' \in [Accounts -> UserData]
  <2>1. usersData' = [settled EXCEPT ![u] = AfterDeposit(settled[u], deposited, rewardsPerToken')]
    BY DEF Deposit
  <2>2. settled[u] \in UserData
    BY <1>1, <1>3
  <2> HIDE DEF settled, deposited
  <2>3. AfterDeposit(settled[u], deposited, rewardsPerToken') \in UserData
    BY <1>2, <1>4, <2>2, DepositIsAdded
  <2> QED BY <1>1, <1>3, <2>1, <2>3
<1>8. UNCHANGED <<block, configVars, usersWithBoosterPacks, packVars>>
  BY DEF Deposit
<1> QED BY <1>3, <1>4, <1>5, <1>6, <1>7, <1>8
        DEF TypeOK, PackTypeOK, configVars, packVars

(* A user after a covered withdrawal is typed. *)
LEMMA WithdrawalIsDebited ==
    ASSUME NEW user \in UserData,
           NEW w \in [paid : Nat, fee : Nat, drained : Nat, rest : Nat,
                      next : Nat \ {0}, left : Deposits],
           StakeDebit(w) <= user.totalAmountDeposited
    PROVE  AfterWithdrawal(user, w) \in UserData
<1>1. StakeDebit(w) \in Nat
  BY DEF StakeDebit
<1>2. user.totalAmountDeposited - StakeDebit(w) \in Nat
  BY <1>1 DEF UserData
<1>3. w.left \in Seq(DepositData) /\ w.next \in Nat \ {0}
  BY DEF Deposits, DepositData
<1> QED BY <1>2, <1>3 DEF AfterWithdrawal, UserData

(* What a withdrawal that goes through does for some number of emptied     *)
(* deposits, none of which is worth less than nothing.                     *)
LEMMA WithdrawalGoesThrough ==
    ASSUME NEW u, NEW amount, Withdraw(u, amount)
    PROVE  LET deposits == usersData[u].deposits
               first    == usersData[u].nextDepositIdToRemove
           IN  \E k \in (first - 1)..Len(deposits) :
                 LET w      == Withdrawal(deposits, withdrawFees, first, amount, k)
                     afterW == Transfer(balance, PoolAddr, u, w.paid)
                 IN
                 /\ DrainsThrough(deposits, withdrawFees, first, amount, k)
                 /\ NetsFit(deposits, withdrawFees, first, k)
                 /\ StakeDebit(w) <= Stake(u)
                 /\ TotalDebit(w) <= totalAmount
                 /\ totalAmount' = totalAmount - TotalDebit(w)
                 /\ Covers(balance, PoolAddr, w.paid)
                 /\ Covers(afterW, PoolAddr, w.fee)
                 /\ balance' = Transfer(afterW, PoolAddr, FeeRecipient, w.fee)
                 /\ usersData' = [SettledUsers(u, VisitsOfWithdraw) EXCEPT
                                    ![u] = AfterWithdrawal(@, w)]
<1> DEFINE deposits == usersData[u].deposits
           first    == usersData[u].nextDepositIdToRemove
           w(k)     == Withdrawal(deposits, withdrawFees, first, amount, k)
<1>1. PICK k \in (first - 1)..Len(deposits) :
         /\ DrainsThrough(deposits, withdrawFees, first, amount, k)
         /\ FeesFit(deposits, withdrawFees, first, k, w(k).rest)
         /\ StakeDebit(w(k)) <= Stake(u)
         /\ TotalDebit(w(k)) <= totalAmount
         /\ totalAmount' = totalAmount - TotalDebit(w(k))
         /\ Covers(balance, PoolAddr, w(k).paid)
         /\ Covers(Transfer(balance, PoolAddr, u, w(k).paid), PoolAddr, w(k).fee)
         /\ balance' = Transfer(Transfer(balance, PoolAddr, u, w(k).paid),
                                PoolAddr, FeeRecipient, w(k).fee)
         /\ usersData' = [SettledUsers(u, VisitsOfWithdraw) EXCEPT
                            ![u] = AfterWithdrawal(@, w(k))]
  BY DEF Withdraw
<1>2. k \in Int
  OBVIOUS
<1>3. NetsFit(deposits, withdrawFees, first, k)
  BY <1>1, <1>2, FittingNets
<1> QED BY <1>1, <1>3

(* withdraw keeps the types: its debits are covered or it reverts. *)
LEMMA WithdrawIsTyped ==
    ASSUME TypeOK, NEW u \in Users, NEW amount \in Amounts, Withdraw(u, amount)
    PROVE  TypeOK'
<1> DEFINE deposits == usersData[u].deposits
           first    == usersData[u].nextDepositIdToRemove
           settled  == SettledUsers(u, VisitsOfWithdraw)
<1>1. u \in Accounts /\ amount \in Nat
  BY UsersAreAccounts, PoolAssumption
<1>2. /\ rewardsPerTokenBP' \in [Accounts -> Uint128]
      /\ settled \in [Accounts -> UserData]
      /\ settled[u].totalAmountDeposited = Stake(u)
  BY <1>1, SettlementIsTyped DEF Withdraw
<1>3. rewardsPerToken' \in Uint128 /\ lastBlockUpdated' \in Nat
  BY IndexIsTyped DEF Withdraw
<1>4. PICK k \in (first - 1)..Len(deposits) :
         LET w      == Withdrawal(deposits, withdrawFees, first, amount, k)
             afterW == Transfer(balance, PoolAddr, u, w.paid)
         IN
         /\ DrainsThrough(deposits, withdrawFees, first, amount, k)
         /\ NetsFit(deposits, withdrawFees, first, k)
         /\ StakeDebit(w) <= Stake(u)
         /\ TotalDebit(w) <= totalAmount
         /\ totalAmount' = totalAmount - TotalDebit(w)
         /\ Covers(balance, PoolAddr, w.paid)
         /\ Covers(afterW, PoolAddr, w.fee)
         /\ balance' = Transfer(afterW, PoolAddr, FeeRecipient, w.fee)
         /\ usersData' = [settled EXCEPT ![u] = AfterWithdrawal(@, w)]
  BY WithdrawalGoesThrough
<1> DEFINE w == Withdrawal(deposits, withdrawFees, first, amount, k)
           afterW == Transfer(balance, PoolAddr, u, w.paid)
<1>5. w \in [paid : Nat, fee : Nat, drained : Nat, rest : Nat,
             next : Nat \ {0}, left : Deposits]
  <2>1. deposits \in Deposits /\ first \in Nat \ {0} /\ withdrawFees \in Fees
    BY <1>1 DEF TypeOK, UserData, Deposits, DepositData, Fees
  <2> QED BY <1>1, <1>4, <2>1, WithdrawalIsTyped
<1>6. /\ StakeDebit(w) <= Stake(u)
      /\ TotalDebit(w) <= totalAmount
      /\ totalAmount' = totalAmount - TotalDebit(w)
      /\ Covers(balance, PoolAddr, w.paid)
      /\ Covers(afterW, PoolAddr, w.fee)
      /\ balance' = Transfer(afterW, PoolAddr, FeeRecipient, w.fee)
      /\ usersData' = [settled EXCEPT ![u] = AfterWithdrawal(settled[u], w)]
  BY <1>4
<1> HIDE DEF w, settled
<1>7. balance' \in [Accounts -> Nat]
  <2>1. w.paid \in Nat /\ w.fee \in Nat
    BY <1>5
  <2>2. afterW \in [Accounts -> Nat]
    BY <1>1, <1>6, <2>1, UsersAreAccounts, TransferIsTyped DEF TypeOK
  <2> HIDE DEF afterW
  <2> QED BY <1>6, <2>1, <2>2, UsersAreAccounts, TransferIsTyped
<1>8. totalAmount' \in Uint128
  <2>1. TotalDebit(w) \in Nat
    BY <1>5 DEF TotalDebit
  <2> QED BY <1>6, <2>1, WidthAssumption DEF TypeOK, Uint128
<1>9. usersData' \in [Accounts -> UserData]
  <2>1. AfterWithdrawal(settled[u], w) \in UserData
    <3>1. settled[u] \in UserData /\ StakeDebit(w) <= settled[u].totalAmountDeposited
      BY <1>1, <1>2, <1>6
    <3> QED BY <1>5, <3>1, WithdrawalIsDebited
  <2> QED BY <1>1, <1>2, <1>6, <2>1
<1>10. UNCHANGED <<block, configVars, usersWithBoosterPacks, packVars>>
  BY DEF Withdraw
<1> QED BY <1>2, <1>3, <1>7, <1>8, <1>9, <1>10
        DEF TypeOK, PackTypeOK, configVars, packVars

(* The rewards that claimRewards computes fit the 64 bits they are cut to. *)
LEMMA ClaimTotalIsTyped ==
    ASSUME TypeOK, NEW caller \in Callers, NEW user \in Users, ClaimRewards(caller, user)
    PROVE  TotalRewards(user, rewardsPerToken') \in Uint64
<1>1. user \in Accounts
  BY UsersAreAccounts
<1>2. rewardsPerToken' \in Uint128
  BY IndexIsTyped DEF ClaimRewards
<1>3. rewardsPerToken' - usersData[user].rewardsPerToken \in Nat
  <2>1. usersData[user].rewardsPerToken <= rewardsPerToken'
    BY DEF ClaimRewards
  <2> QED BY <1>1, <1>2, <2>1 DEF TypeOK, UserData, Uint128
<1>4. Stake(user) \in Nat
  BY <1>1 DEF Stake, TypeOK, UserData
<1>5. \A n \in Nat, m \in Nat : (n * m) \div 1000 \in Nat
  OBVIOUS
<1>6. ((rewardsPerToken' - usersData[user].rewardsPerToken) * Stake(user))
          \div MULTIPLIER \in Nat
  BY <1>3, <1>4, <1>5 DEF MULTIPLIER
<1> QED BY <1>6, ToUint64IsTyped DEF TotalRewards

(* claimRewards keeps the types, whoever calls it. *)
LEMMA ClaimIsTyped ==
    ASSUME TypeOK, NEW caller \in Callers, NEW user \in Users, ClaimRewards(caller, user)
    PROVE  TypeOK'
<1> DEFINE visits  == IF paused THEN NoVisits ELSE CheckBPExpired(user)
           total   == TotalRewards(user, rewardsPerToken')
           credit  == CreditAfter(caller, user, visits[user])
           payout  == total - usersData[user].accumRewards + credit
           settled == SettledUsers(caller, visits)
<1>1. user \in Accounts
  BY UsersAreAccounts
<1>2. Settle(caller, visits)
  BY DEF ClaimRewards
<1> HIDE DEF visits
<1>3. /\ rewardsPerTokenBP' \in [Accounts -> Uint128]
      /\ settled \in [Accounts -> UserData]
      /\ credit \in Uint64
  BY <1>1, <1>2, SettlementIsTyped
<1>4. /\ rewardsPerToken' \in Uint128 /\ lastBlockUpdated' \in Nat
  BY IndexIsTyped DEF ClaimRewards
<1>5. total \in Uint64
  BY ClaimTotalIsTyped
<1>6. payout \in Nat
  <2>1. usersData[user].accumRewards <= total
    BY DEF ClaimRewards
  <2>2. usersData[user].accumRewards \in Uint64
    BY <1>1 DEF TypeOK, UserData
  <2> HIDE DEF total, credit
  <2> QED BY <1>3, <1>5, <2>1, <2>2, WidthAssumption DEF Uint64
<1>7. balance' \in [Accounts -> Nat]
  <2>1. balance' = [balance EXCEPT ![user] = @ + payout]
    BY DEF ClaimRewards, visits
  <2> HIDE DEF payout
  <2> QED BY <1>1, <1>6, <2>1 DEF TypeOK
<1>8. usersData' \in [Accounts -> UserData]
  <2>1. usersData' = [settled EXCEPT ![user] = AfterClaim(settled[user], total)]
    BY DEF ClaimRewards, visits
  <2> HIDE DEF settled, total
  <2>2. 0 \in Uint64
    BY WidthAssumption DEF Uint64
  <2>3. AfterClaim(settled[user], total) \in UserData
    BY <1>1, <1>3, <1>5, <2>2 DEF AfterClaim, UserData
  <2> QED BY <1>1, <1>3, <2>1, <2>3
<1>9. usersWithBoosterPacks' \in Seq(Accounts)
  BY <1>1, ListIsTyped DEF ClaimRewards, TypeOK
<1>10. UNCHANGED <<block, configVars, totalAmount, packVars>>
  BY DEF ClaimRewards
<1> QED BY <1>3, <1>4, <1>7, <1>8, <1>9, <1>10
        DEF TypeOK, PackTypeOK, configVars, packVars

(* burnBP keeps the types. *)
LEMMA BurnIsTyped ==
    ASSUME TypeOK, NEW u \in Users, NEW id \in PackIds \cap Slots, BurnBP(u, id)
    PROVE  TypeOK'
<1> DEFINE settled == SettledUsers(u, CheckBPExpired(u))
<1>1. u \in Accounts
  BY UsersAreAccounts
<1>2. /\ rewardsPerTokenBP' \in [Accounts -> Uint128]
      /\ settled \in [Accounts -> UserData]
  BY SettlementIsTyped DEF BurnBP
<1>3. rewardsPerToken' \in Uint128 /\ lastBlockUpdated' \in Nat
  BY IndexIsTyped DEF BurnBP
<1>4. usersData' \in [Accounts -> UserData]
  <2>1. usersData' = [settled EXCEPT ![u] = AfterBurn(settled[u], id)]
    BY DEF BurnBP
  <2> HIDE DEF settled
  <2>2. AfterBurn(settled[u], id) \in UserData
    BY <1>1, <1>2 DEF AfterBurn, UserData, TypeOK
  <2> QED BY <1>1, <1>2, <2>1, <2>2
<1>5. usersWithBoosterPacks' \in Seq(Accounts)
  BY <1>1, ListIsTyped DEF BurnBP
<1>6. PackTypeOK'
  <2>1. packBalance[u][id] - 1 \in Nat
    BY <1>1 DEF BurnBP, TransferAndBurn, TypeOK, PackTypeOK
  <2> QED BY <1>1, <2>1 DEF BurnBP, TransferAndBurn, TypeOK, PackTypeOK
<1>7. UNCHANGED <<block, configVars, totalAmount, balance>>
  BY DEF BurnBP
<1> QED BY <1>2, <1>3, <1>4, <1>5, <1>6, <1>7 DEF TypeOK, configVars

(* pause, unpause and the setters keep the types. *)
LEMMA OwnerStepIsTyped ==
    ASSUME TypeOK, OwnerStep
    PROVE  TypeOK'
<1> USE DEF TypeOK, PackTypeOK, packVars, indexVars, stakeVars, boostVars
<1> DEFINE TierRow == [blockNumber : Nat, multiplier : Nat]
           FeeRow  == [blockNumber : Nat, fee : Nat]
<1>1. CASE Pause
  <2>1. /\ rewardsPerTokenBP' \in [Accounts -> Uint128]
        /\ usersData' \in [Accounts -> UserData]
    BY <1>1, SettlementIsTyped DEF Pause
  <2>2. rewardsPerToken' \in Uint128 /\ lastBlockUpdated' \in Nat
    BY <1>1, IndexIsTyped DEF Pause
  <2> QED BY <1>1, <2>1, <2>2 DEF Pause
<1>2. CASE Unpause
  BY <1>2 DEF Unpause
<1>3. ASSUME NEW rate \in BaseRates, UpdateBaseRateTokensPerBlock(rate) PROVE TypeOK'
  BY <1>3, PoolAssumption DEF UpdateBaseRateTokensPerBlock
<1>4. ASSUME NEW fee \in DepositFees, UpdateDepositFee(fee) PROVE TypeOK'
  BY <1>4, PoolAssumption DEF UpdateDepositFee
<1>5. ASSUME NEW rows \in Seq(TierRow), ChangeRewardsMultipliers(rows) PROVE TypeOK'
  BY <1>5 DEF ChangeRewardsMultipliers
<1>6. ASSUME NEW rows \in Seq(FeeRow), ChangeWithdrawFees(rows) PROVE TypeOK'
  BY <1>6 DEF ChangeWithdrawFees
<1>7. ASSUME NEW row \in Tiers
      PROVE  /\ AddRewardsMultiplier(row) => TypeOK'
             /\ \A id \in 1..MaxRows : UpdateRewardsMultiplier(id, row) => TypeOK'
  <2>1. row \in TierRow
    BY PoolAssumption
  <2>2. Append(rewardsMultipliers, row) \in Seq(TierRow)
    BY <2>1
  <2>3. \A id \in DOMAIN rewardsMultipliers :
          [rewardsMultipliers EXCEPT ![id] = row] \in Seq(TierRow)
    BY <2>1, RowIsReplaced
  <2> QED BY <1>5, <2>2, <2>3 DEF AddRewardsMultiplier, UpdateRewardsMultiplier
<1>8. ASSUME NEW id \in 1..MaxRows, RemoveRewardsMultiplier(id) PROVE TypeOK'
  <2>1. [blockNumber |-> 0, multiplier |-> 0] \in TierRow
    OBVIOUS
  <2> QED BY <1>5, <1>8, <2>1, RowIsReplaced DEF RemoveRewardsMultiplier
<1>9. ASSUME NEW row \in FeeRows
      PROVE  /\ AddWithdrawFee(row) => TypeOK'
             /\ \A id \in 1..MaxRows : UpdateWithdrawFee(id, row) => TypeOK'
  <2>1. row \in FeeRow
    BY PoolAssumption
  <2>2. Append(withdrawFees, row) \in Seq(FeeRow)
    BY <2>1
  <2>3. \A id \in DOMAIN withdrawFees : [withdrawFees EXCEPT ![id] = row] \in Seq(FeeRow)
    BY <2>1, RowIsReplaced
  <2> QED BY <1>6, <2>2, <2>3 DEF AddWithdrawFee, UpdateWithdrawFee
<1>10. ASSUME NEW id \in 1..MaxRows, RemoveWithdrawFee(id) PROVE TypeOK'
  <2>1. [blockNumber |-> 0, fee |-> 0] \in FeeRow
    OBVIOUS
  <2> QED BY <1>6, <1>10, <2>1, RowIsReplaced DEF RemoveWithdrawFee
<1> QED BY <1>1, <1>2, <1>3, <1>4, <1>7, <1>8, <1>9, <1>10 DEF OwnerStep

(* Transactions of the BoosterPack contract keep the types. *)
LEMMA PackStepIsTyped ==
    ASSUME TypeOK, PackStep
    PROVE  TypeOK'
<1>1. ASSUME NEW id \in PackIds, NEW attr \in AttributeChoices
      PROVE  [attributes EXCEPT ![Slot(id)] = attr] \in [Slots -> Attributes]
  BY PackAssumption DEF TypeOK, PackTypeOK, Attributes
<1>2. ASSUME NEW a \in Accounts, NEW id \in PackIds, NEW n \in Nat
      PROVE  [packBalance EXCEPT ![a][id] = n] \in [Accounts -> [PackIds -> Nat]]
  BY DEF TypeOK, PackTypeOK
<1>3. 1..MaxPacks \subseteq Nat
  BY PackAssumption
<1>4. ASSUME NEW addr \in Whitelistable,
             AddWhitelistedAddrBP(addr) \/ RemoveWhitelistedAddrBP(addr)
      PROVE  PackTypeOK'
  BY <1>4, PackAssumption
     DEF AddWhitelistedAddrBP, RemoveWhitelistedAddrBP, TypeOK, PackTypeOK
<1>5. ASSUME NEW id \in PackIds, NEW attr \in AttributeChoices, SetAttributes(id, attr)
      PROVE  PackTypeOK'
  BY <1>1, <1>5 DEF SetAttributes, TypeOK, PackTypeOK
<1>6. ASSUME NEW caller \in Accounts, NEW to \in Holders, NEW id \in PackIds,
             NEW amount \in 1..MaxPacks, NEW attr \in AttributeChoices,
             Mint(caller, to, id, amount, attr)
      PROVE  PackTypeOK'
  <2>1. to \in Accounts /\ amount \in Nat
    BY <1>3, PackAssumption
  <2>2. packBalance[to][id] + amount \in Nat
    BY <2>1 DEF TypeOK, PackTypeOK
  <2> QED BY <1>1, <1>2, <1>6, <2>1, <2>2 DEF Mint, TypeOK, PackTypeOK
<1>7. ASSUME NEW caller \in Accounts, NEW id \in PackIds, NEW amount \in 1..MaxPacks,
             Burn(caller, id, amount)
      PROVE  PackTypeOK'
  <2>1. packBalance[caller][id] - amount \in Nat
    BY <1>3, <1>7 DEF Burn, TypeOK, PackTypeOK
  <2> QED BY <1>2, <1>7, <2>1 DEF Burn, TypeOK, PackTypeOK
<1>8. ASSUME NEW from \in Holders, NEW to \in Holders, NEW id \in PackIds,
             NEW amount \in 1..MaxPacks, SafeTransferFrom(from, to, id, amount)
      PROVE  PackTypeOK'
  <2>1. from \in Accounts /\ to \in Accounts /\ amount \in Nat
    BY <1>3, PackAssumption
  <2> DEFINE taken == [packBalance EXCEPT ![from][id] = @ - amount]
  <2>2. taken \in [Accounts -> [PackIds -> Nat]]
    <3>1. packBalance[from][id] - amount \in Nat
      BY <1>8, <2>1 DEF SafeTransferFrom, TypeOK, PackTypeOK
    <3> QED BY <1>2, <2>1, <3>1
  <2>3. packBalance' = [taken EXCEPT ![to][id] = taken[to][id] + amount]
    BY <1>8 DEF SafeTransferFrom
  <2> HIDE DEF taken
  <2>4. packBalance' \in [Accounts -> [PackIds -> Nat]]
    <3>1. taken[to][id] + amount \in Nat
      BY <2>1, <2>2
    <3> QED BY <2>1, <2>2, <2>3, <3>1
  <2> QED BY <1>8, <2>4 DEF SafeTransferFrom, TypeOK, PackTypeOK
<1>9. PackTypeOK'
  BY <1>4, <1>5, <1>6, <1>7, <1>8 DEF PackStep, PackNext
<1> QED BY <1>9 DEF PackStep, TypeOK, poolVars, configVars, indexVars, stakeVars, boostVars

(* Every step keeps the types. *)
LEMMA NextIsTyped ==
    ASSUME TypeOK, [Next]_vars
    PROVE  TypeOK'
<1>1. CASE NextBlock
  BY <1>1 DEF NextBlock, TypeOK, PackTypeOK, poolVars, configVars, indexVars,
              stakeVars, boostVars, packVars
<1>2. CASE UserStep
  BY <1>2, DepositIsTyped, WithdrawIsTyped, ClaimIsTyped, BurnIsTyped DEF UserStep
<1>3. CASE OwnerStep
  BY <1>3, OwnerStepIsTyped
<1>4. CASE PackStep
  BY <1>4, PackStepIsTyped
<1>5. CASE UNCHANGED vars
  BY <1>5 DEF vars, TypeOK, PackTypeOK, poolVars, configVars, indexVars,
              stakeVars, boostVars, packVars
<1> QED BY <1>1, <1>2, <1>3, <1>4, <1>5 DEF Next

(* Every variable keeps its type: amounts, stakes and balances never go    *)
(* below zero, and what the contract stores in uint64 and uint128 fits,    *)
(* because each transaction that would break this reverts.                 *)
THEOREM TypeCorrect == Spec => []TypeOK
BY InitIsTyped, NextIsTyped, PTL DEF Spec

=============================================================================
