-------------------------- MODULE PoolStakeProofs --------------------------
(***************************************************************************)
(* Theorems about the stakes of Pool: against the deposits they are made   *)
(* of, against _totalAmount and the tokens of the pool, and what a         *)
(* withdrawal costs the pool, for every fee table, however the owner edits *)
(* it, also above 100 percent.  Pool implements StakeLedger.               *)
(***************************************************************************)
EXTENDS PoolOrderProofs

-----------------------------------------------------------------------------
(* Stakes. *)

StakesIn(data) == [a \in Accounts |-> data[a].totalAmountDeposited]

(* Stakes are amounts, and so is their sum. *)
LEMMA StakesAreTyped ==
    ASSUME NEW data \in [Accounts -> UserData]
    PROVE  /\ StakesIn(data) \in [Accounts -> Nat]
           /\ SumOver(StakesIn(data), Accounts) \in Nat
<1>1. StakesIn(data) \in [Accounts -> Nat]
  BY DEF UserData, StakesIn
<1>2. \A a \in Accounts : StakesIn(data)[a] \in Int
  BY <1>1
<1> QED BY <1>1, <1>2, FiniteAccounts, UnitsFinite

(* The stakes together move with the one stake that moves. *)
LEMMA StakesMoveWithOne ==
    ASSUME TypeOK, TypeOK', NEW u \in Accounts,
           \A a \in Accounts \ {u} :
              usersData'[a].totalAmountDeposited = usersData[a].totalAmountDeposited
    PROVE  /\ Stakes \in Nat /\ Stakes' \in Nat
           /\ Stakes' - usersData'[u].totalAmountDeposited
                = Stakes - usersData[u].totalAmountDeposited
<1> DEFINE before == StakesIn(usersData)
           after  == StakesIn(usersData')
<1>1. /\ before \in [Accounts -> Nat] /\ SumOver(before, Accounts) \in Nat
      /\ after \in [Accounts -> Nat] /\ SumOver(after, Accounts) \in Nat
  BY StakesAreTyped DEF TypeOK
<1>2. /\ before[u] = usersData[u].totalAmountDeposited
      /\ after[u] = usersData'[u].totalAmountDeposited
      /\ \A a \in Accounts \ {u} : before[a] = after[a]
  BY DEF StakesIn
<1>3. Stakes = SumOver(before, Accounts) /\ Stakes' = SumOver(after, Accounts)
  BY DEF Stakes, Stake, StakesIn
<1> HIDE DEF before, after
<1>4. SumOver(after, Accounts) - after[u] = SumOver(before, Accounts) - before[u]
  BY <1>1, <1>2, FiniteAccounts, SumMovesWithOne
<1> QED BY <1>1, <1>2, <1>3, <1>4

(* A deposit adds the same amount to the stake, to _totalAmount and to the *)
(* tokens of the pool.                                                     *)
LEMMA DepositAddsStake ==
    ASSUME TypeOK, NEW u \in Users, NEW amount \in Amounts, Deposit(u, amount)
    PROVE  LET deposited == amount - FeeAmount(amount, Thousandths(depositFee))
           IN  /\ deposited \in Nat
               /\ totalAmount' = totalAmount + deposited
               /\ balance'[PoolAddr] = balance[PoolAddr] + deposited
               /\ usersData'[u].totalAmountDeposited = Stake(u) + deposited
               /\ usersData'[u].deposits
                    = Append(usersData[u].deposits,
                             [blockNumber |-> block, amount |-> deposited])
               /\ \A a \in Accounts \ {u} :
                    /\ usersData'[a].totalAmountDeposited = Stake(a)
                    /\ usersData'[a].deposits = usersData[a].deposits
<1> DEFINE deposited == amount - FeeAmount(amount, Thousandths(depositFee))
           settled   == SettledUsers(u, CalcBPRewards)
           afterFee  == Transfer(balance, u, FeeRecipient, amount - deposited)
<1>1. u \in Accounts /\ amount \in Nat
  BY UsersAreAccounts, PoolAssumption
<1>2. deposited \in Nat /\ amount - deposited \in Nat
  <2>1. FeeAmount(amount, Thousandths(depositFee)) \in Nat
    BY <1>1, FeeIsAmount DEF TypeOK
  <2>2. deposited >= 0
    BY DEF Deposit
  <2> QED BY <1>1, <2>1, <2>2
<1>3. /\ settled \in [Accounts -> UserData]
      /\ \A a \in Accounts : /\ settled[a].totalAmountDeposited = Stake(a)
                             /\ settled[a].deposits = usersData[a].deposits
  BY SettlementIsTyped DEF Deposit
<1>4. /\ totalAmount' = totalAmount + deposited
      /\ usersData' = [settled EXCEPT
                         ![u] = AfterDeposit(settled[u], deposited, rewardsPerToken')]
  BY DEF Deposit
<1>5. balance'[PoolAddr] = balance[PoolAddr] + deposited
  <2>1. /\ PoolAddr \in Accounts /\ FeeRecipient \in Accounts /\ PoolAddr # u
        /\ PoolAddr # FeeRecipient /\ balance \in [Accounts -> Nat]
    BY UsersAreAccounts, PoolAssumption DEF TypeOK
  <2>2. /\ Covers(balance, u, amount - deposited) /\ Covers(afterFee, u, deposited)
        /\ balance' = Transfer(afterFee, u, PoolAddr, deposited)
    BY DEF Deposit
  <2> HIDE DEF deposited
  <2>3. afterFee \in [Accounts -> Nat] /\ afterFee[PoolAddr] = balance[PoolAddr]
    <3>1. afterFee \in [Accounts -> Nat]
      BY <1>1, <1>2, <2>1, <2>2, TransferIsTyped
    <3>2. afterFee[PoolAddr] = balance[PoolAddr]
      BY <2>1 DEF Transfer
    <3> QED BY <3>1, <3>2
  <2> HIDE DEF afterFee
  <2>4. Transfer(afterFee, u, PoolAddr, deposited)[PoolAddr]
          = afterFee[PoolAddr] + deposited
    BY <1>1, <1>2, <2>1, <2>3, TransferMoves
  <2> QED BY <2>2, <2>3, <2>4
<1> HIDE DEF settled, deposited
<1>6. /\ usersData'[u] = AfterDeposit(settled[u], deposited, rewardsPerToken')
      /\ \A a \in Accounts \ {u} : usersData'[a] = settled[a]
  BY <1>1, <1>3, <1>4
<1>7. /\ usersData'[u].totalAmountDeposited = settled[u].totalAmountDeposited + deposited
      /\ usersData'[u].deposits = Append(settled[u].deposits,
                                         [blockNumber |-> block, amount |-> deposited])
  BY <1>1, <1>3, <1>6 DEF AfterDeposit, UserData
<1> QED BY <1>1, <1>2, <1>3, <1>4, <1>5, <1>6, <1>7 DEF deposited

(* A withdrawal takes from the stake what it drains and the rest, from     *)
(* _totalAmount only what it drains, and from the tokens of the pool what  *)
(* it pays out and the fee.                                                *)
LEMMA WithdrawTakesStake ==
    ASSUME TypeOK, NEW u \in Users, NEW amount \in Amounts, Withdraw(u, amount)
    PROVE  LET deposits == usersData[u].deposits
               first    == usersData[u].nextDepositIdToRemove
           IN  /\ deposits \in Deposits /\ first \in Nat \ {0} /\ withdrawFees \in Fees
               /\ \E k \in (first - 1)..Len(deposits) :
                    LET w == Withdrawal(deposits, withdrawFees, first, amount, k)
                    IN  /\ DrainsThrough(deposits, withdrawFees, first, amount, k)
                        /\ NetsFit(deposits, withdrawFees, first, k)
                        /\ w.drained \in Nat /\ w.rest \in Nat
                        /\ totalAmount' = totalAmount - w.drained
                        /\ usersData'[u].totalAmountDeposited
                             = Stake(u) - (w.drained + w.rest)
                        /\ usersData'[u].deposits = w.left
                        /\ balance'[PoolAddr] = balance[PoolAddr] - (w.paid + w.fee)
               /\ \A a \in Accounts \ {u} :
                    /\ usersData'[a].totalAmountDeposited = Stake(a)
                    /\ usersData'[a].deposits = usersData[a].deposits
<1> DEFINE deposits == usersData[u].deposits
           first    == usersData[u].nextDepositIdToRemove
           settled  == SettledUsers(u, VisitsOfWithdraw)
<1>1. u \in Accounts /\ amount \in Nat
  BY UsersAreAccounts, PoolAssumption
<1>2. /\ settled \in [Accounts -> UserData]
      /\ \A a \in Accounts : /\ settled[a].totalAmountDeposited = Stake(a)
                             /\ settled[a].deposits = usersData[a].deposits
  BY SettlementIsTyped DEF Withdraw
<1>3. PICK k \in (first - 1)..Len(deposits) :
         LET w      == Withdrawal(deposits, withdrawFees, first, amount, k)
             afterW == Transfer(balance, PoolAddr, u, w.paid)
         IN  /\ DrainsThrough(deposits, withdrawFees, first, amount, k)
             /\ NetsFit(deposits, withdrawFees, first, k)
             /\ totalAmount' = totalAmount - TotalDebit(w)
             /\ Covers(balance, PoolAddr, w.paid)
             /\ balance' = Transfer(afterW, PoolAddr, FeeRecipient, w.fee)
             /\ usersData' = [settled EXCEPT ![u] = AfterWithdrawal(settled[u], w)]
  BY WithdrawalGoesThrough
<1> DEFINE w      == Withdrawal(deposits, withdrawFees, first, amount, k)
           afterW == Transfer(balance, PoolAddr, u, w.paid)
<1>4. deposits \in Deposits /\ first \in Nat \ {0} /\ withdrawFees \in Fees
  BY <1>1 DEF TypeOK, UserData, Deposits, DepositData, Fees
<1>5. /\ DrainsThrough(deposits, withdrawFees, first, amount, k)
      /\ NetsFit(deposits, withdrawFees, first, k)
      /\ totalAmount' = totalAmount - w.drained
      /\ Covers(balance, PoolAddr, w.paid)
      /\ balance' = Transfer(afterW, PoolAddr, FeeRecipient, w.fee)
      /\ usersData' = [settled EXCEPT ![u] = AfterWithdrawal(settled[u], w)]
  BY <1>3 DEF TotalDebit
<1>6. w.drained \in Nat /\ w.rest \in Nat /\ w.paid \in Nat /\ w.fee \in Nat
  BY <1>1, <1>4, <1>5, WithdrawalIsTyped
<1> HIDE DEF settled, w
<1>7. /\ usersData'[u] = AfterWithdrawal(settled[u], w)
      /\ \A a \in Accounts \ {u} : usersData'[a] = settled[a]
  BY <1>1, <1>2, <1>5
<1>8. /\ usersData'[u].totalAmountDeposited
           = settled[u].totalAmountDeposited - (w.drained + w.rest)
      /\ usersData'[u].deposits = w.left
  BY <1>1, <1>2, <1>7 DEF AfterWithdrawal, StakeDebit, UserData
<1>9. /\ w.drained \in Nat /\ w.rest \in Nat
      /\ totalAmount' = totalAmount - w.drained
      /\ usersData'[u].totalAmountDeposited = Stake(u) - (w.drained + w.rest)
      /\ usersData'[u].deposits = w.left
  BY <1>1, <1>2, <1>5, <1>6, <1>8
<1>10. balance'[PoolAddr] = balance[PoolAddr] - (w.paid + w.fee)
  <2>1. PoolAddr \in Accounts /\ FeeRecipient \in Accounts /\ PoolAddr # u
        /\ PoolAddr # FeeRecipient /\ balance \in [Accounts -> Nat]
    BY UsersAreAccounts, PoolAssumption DEF TypeOK
  <2>2. afterW \in [Accounts -> Nat] /\ afterW[PoolAddr] = balance[PoolAddr] - w.paid
    <3>1. w.paid \in Nat /\ Covers(balance, PoolAddr, w.paid)
      BY <1>5, <1>6
    <3>2. afterW \in [Accounts -> Nat]
      BY ONLY <1>1, <2>1, <3>1, TransferIsTyped
    <3>3. afterW[PoolAddr] = balance[PoolAddr] - w.paid
      BY ONLY <1>1, <2>1, <3>1, TransferMoves
    <3> QED BY <3>2, <3>3
  <2> HIDE DEF afterW
  <2>3. balance'[PoolAddr] = afterW[PoolAddr] - w.fee
    BY <1>5, <1>6, <2>1, <2>2, TransferMoves
  <2> QED BY <1>6, <2>1, <2>2, <2>3
<1>11. \A a \in Accounts \ {u} :
         /\ usersData'[a].totalAmountDeposited = Stake(a)
         /\ usersData'[a].deposits = usersData[a].deposits
  BY <1>2, <1>7
<1> QED BY <1>4, <1>5, <1>9, <1>10, <1>11 DEF w

(* No other transaction moves a stake or _totalAmount. *)
LEMMA OthersKeepStakes ==
    ASSUME TypeOK, [Next]_vars,
           ~ \E u \in Users, amount \in Amounts : Deposit(u, amount) \/ Withdraw(u, amount)
    PROVE  /\ totalAmount' = totalAmount
           /\ \A a \in Accounts : usersData'[a].totalAmountDeposited = Stake(a)
<1> DEFINE Kept == /\ totalAmount' = totalAmount
                   /\ \A a \in Accounts : usersData'[a].totalAmountDeposited = Stake(a)
<1>1. ASSUME NEW caller \in Callers, NEW user \in Users, ClaimRewards(caller, user)
      PROVE  Kept
  <2> DEFINE visits  == IF paused THEN NoVisits ELSE CheckBPExpired(user)
             total   == TotalRewards(user, rewardsPerToken')
             settled == SettledUsers(caller, visits)
  <2>1. user \in Accounts
    BY UsersAreAccounts
  <2>2. /\ Settle(caller, visits)
        /\ usersData' = [settled EXCEPT ![user] = AfterClaim(settled[user], total)]
        /\ totalAmount' = totalAmount
    BY <1>1 DEF ClaimRewards
  <2>3. /\ settled \in [Accounts -> UserData]
        /\ \A a \in Accounts : settled[a].totalAmountDeposited = Stake(a)
    <3> HIDE DEF visits
    <3> QED BY <2>2, SettlementIsTyped
  <2> HIDE DEF settled, total
  <2> QED BY <2>1, <2>2, <2>3 DEF AfterClaim, UserData
<1>2. ASSUME NEW u \in Users, NEW id \in PackIds \cap Slots, BurnBP(u, id)
      PROVE  Kept
  <2> DEFINE settled == SettledUsers(u, CheckBPExpired(u))
  <2>1. u \in Accounts
    BY UsersAreAccounts
  <2>2. /\ Settle(u, CheckBPExpired(u))
        /\ usersData' = [settled EXCEPT ![u] = AfterBurn(settled[u], id)]
        /\ totalAmount' = totalAmount
    BY <1>2 DEF BurnBP
  <2>3. /\ settled \in [Accounts -> UserData]
        /\ \A a \in Accounts : settled[a].totalAmountDeposited = Stake(a)
    BY <2>2, SettlementIsTyped
  <2> HIDE DEF settled
  <2> QED BY <2>1, <2>2, <2>3 DEF AfterBurn, UserData
<1>3. CASE Pause
  BY <1>3, SettlementIsTyped DEF Pause
<1>4. CASE UNCHANGED stakeVars
  BY <1>4 DEF stakeVars, Stake
<1>5. \/ \E caller \in Callers, user \in Users : ClaimRewards(caller, user)
      \/ \E u \in Users, id \in PackIds \cap Slots : BurnBP(u, id)
      \/ Pause
      \/ UNCHANGED stakeVars
  BY SettersKeepStakes DEF Next, UserStep, NextBlock, PackStep, vars, poolVars
<1> QED BY <1>1, <1>2, <1>3, <1>4, <1>5

(* Every step keeps _totalAmount above the stakes. *)
LEMMA NextKeepsTotal ==
    ASSUME TypeOK, TotalCoversStakes, [Next]_vars
    PROVE  TotalCoversStakes'
<1>0. TypeOK' /\ totalAmount \in Nat
  BY NextIsTyped, WidthAssumption DEF TypeOK, Uint128
<1>1. ASSUME NEW u \in Users, NEW amount \in Amounts, Deposit(u, amount)
      PROVE  TotalCoversStakes'
  <2> DEFINE deposited == amount - FeeAmount(amount, Thousandths(depositFee))
  <2>1. /\ deposited \in Nat /\ totalAmount' = totalAmount + deposited
        /\ usersData'[u].totalAmountDeposited = usersData[u].totalAmountDeposited + deposited
        /\ \A a \in Accounts \ {u} :
             usersData'[a].totalAmountDeposited = usersData[a].totalAmountDeposited
    BY <1>1, DepositAddsStake DEF Stake
  <2> HIDE DEF deposited
  <2>2. u \in Accounts /\ usersData[u].totalAmountDeposited \in Nat
    BY UsersAreAccounts DEF TypeOK, UserData
  <2>3. /\ Stakes \in Nat /\ Stakes' \in Nat
        /\ Stakes' - usersData'[u].totalAmountDeposited
             = Stakes - usersData[u].totalAmountDeposited
    BY <1>0, <2>1, <2>2, StakesMoveWithOne
  <2> QED BY <1>0, <2>1, <2>2, <2>3 DEF TotalCoversStakes
<1>2. ASSUME NEW u \in Users, NEW amount \in Amounts, Withdraw(u, amount)
      PROVE  TotalCoversStakes'
  <2>1. /\ \E drained \in Nat, rest \in Nat :
             /\ totalAmount' = totalAmount - drained
             /\ usersData'[u].totalAmountDeposited
                  = usersData[u].totalAmountDeposited - (drained + rest)
        /\ \A a \in Accounts \ {u} :
             usersData'[a].totalAmountDeposited = usersData[a].totalAmountDeposited
    BY <1>2, WithdrawTakesStake DEF Stake
  <2>2. u \in Accounts /\ usersData[u].totalAmountDeposited \in Nat
    BY UsersAreAccounts DEF TypeOK, UserData
  <2>3. /\ Stakes \in Nat /\ Stakes' \in Nat
        /\ Stakes' - usersData'[u].totalAmountDeposited
             = Stakes - usersData[u].totalAmountDeposited
    BY <1>0, <2>1, <2>2, StakesMoveWithOne
  <2> QED BY <1>0, <2>1, <2>2, <2>3 DEF TotalCoversStakes
<1>3. CASE ~ \E u \in Users, amount \in Amounts : Deposit(u, amount) \/ Withdraw(u, amount)
  <2>1. /\ totalAmount' = totalAmount
        /\ \A a \in Accounts : usersData'[a].totalAmountDeposited = Stake(a)
    BY <1>3, OthersKeepStakes
  <2>2. Stakes' = Stakes
    BY <2>1 DEF Stakes, Stake
  <2> QED BY <2>1, <2>2 DEF TotalCoversStakes
<1> QED BY <1>1, <1>2, <1>3

(* A pool that was just created has no stakes. *)
LEMMA InitHasNoStakes == Init => TotalCoversStakes
<1> SUFFICES ASSUME Init PROVE TotalCoversStakes
  OBVIOUS
<1>1. \A a \in Accounts : StakesIn(usersData)[a] = 0
  BY DEF Init, StakesIn, NoUserData
<1>2. Stakes = SumOver(StakesIn(usersData), Accounts)
  BY DEF Stakes, Stake, StakesIn
<1>3. Stakes = 0
  BY <1>1, <1>2, SumOfZeros
<1> QED BY <1>3 DEF Init, TotalCoversStakes

(* _totalAmount is never below the stakes it is made of, although a        *)
(* partial withdrawal lowers only the stake.                               *)
THEOREM TotalCorrect == Spec => []TotalCoversStakes
BY InitIsTyped, NextIsTyped, InitHasNoStakes, NextKeepsTotal, PTL DEF Spec

-----------------------------------------------------------------------------
(* DepositsBackStakes. *)

AmountsOf(deposits) == [i \in DOMAIN deposits |-> deposits[i].amount]

SumOfDeposits(deposits) == SumOver(AmountsOf(deposits), DOMAIN deposits)

(* The amounts of a table of deposits. *)
LEMMA AmountsAreTyped ==
    ASSUME NEW deposits \in Deposits
    PROVE  /\ DOMAIN deposits = 1..Len(deposits) /\ Len(deposits) \in Nat
           /\ IsFiniteSet(1..Len(deposits))
           /\ AmountsOf(deposits) \in [1..Len(deposits) -> Nat]
           /\ SumOfDeposits(deposits) = SumOver(AmountsOf(deposits), 1..Len(deposits))
           /\ SumOfDeposits(deposits) \in Nat
<1>1. /\ DOMAIN deposits = 1..Len(deposits) /\ Len(deposits) \in Nat
      /\ \A i \in 1..Len(deposits) : deposits[i] \in [blockNumber : Nat, amount : Nat]
  BY RowsOfSequence DEF Deposits
<1>2. AmountsOf(deposits) \in [1..Len(deposits) -> Nat]
  BY <1>1 DEF AmountsOf
<1>3. IsFiniteSet(1..Len(deposits))
  BY <1>1, FS_Interval
<1>4. SumOver(AmountsOf(deposits), 1..Len(deposits)) \in Nat
  <2>1. \A i \in 1..Len(deposits) : AmountsOf(deposits)[i] \in Int
    BY <1>2
  <2> QED BY <1>3, <2>1, UnitsFinite
<1> QED BY <1>1, <1>2, <1>3, <1>4 DEF SumOfDeposits

(* One more deposit adds its amount. *)
LEMMA AppendAddsAmount ==
    ASSUME NEW deposits \in Deposits, NEW added \in [blockNumber : Nat, amount : Nat]
    PROVE  SumOfDeposits(Append(deposits, added)) = SumOfDeposits(deposits) + added.amount
<1> DEFINE n    == Len(deposits)
           more == Append(deposits, added)
           f    == AmountsOf(deposits)
           g    == AmountsOf(more)
<1>1. /\ DOMAIN deposits = 1..n /\ n \in Nat /\ IsFiniteSet(1..n)
      /\ f \in [1..n -> Nat] /\ SumOfDeposits(deposits) = SumOver(f, 1..n)
  BY AmountsAreTyped
<1>2. /\ more \in Deposits /\ Len(more) = n + 1
      /\ \A i \in 1..n : more[i] = deposits[i]
      /\ more[n + 1] = added
  BY DEF Deposits
<1>3. /\ DOMAIN more = 1..(n + 1) /\ g \in [1..(n + 1) -> Nat]
      /\ SumOfDeposits(more) = SumOver(g, 1..(n + 1))
  BY <1>2, AmountsAreTyped
<1>4. /\ \A i \in 1..n : f[i] = g[i]
      /\ g[n + 1] = added.amount
  BY <1>1, <1>2, <1>3 DEF AmountsOf
<1> HIDE DEF f, g, n, more
<1>5. SumOver(f, 1..n) = SumOver(g, 1..n)
  BY <1>4, SumOfSame
<1>6. 1..(n + 1) = (1..n) \cup {n + 1} /\ n + 1 \notin 1..n
  BY <1>1
<1>7. SumOver(g, (1..n) \cup {n + 1}) = SumOver(g, 1..n) + g[n + 1]
  <2>1. (\A i \in 1..n : g[i] \in Int) /\ g[n + 1] \in Nat
    BY <1>3, <1>6
  <2> QED BY <1>1, <1>6, <2>1, SumOfOneMore
<1> QED BY <1>1, <1>3, <1>4, <1>5, <1>6, <1>7 DEF more

(* A withdrawal takes from the deposits what it drains and the rest. *)
LEMMA WithdrawalTakesAmounts ==
    ASSUME NEW deposits \in Deposits, NEW fees \in Fees,
           NEW first \in Nat \ {0}, NEW amount \in Nat,
           NEW k \in (first - 1)..Len(deposits),
           DrainsThrough(deposits, fees, first, amount, k),
           NetsFit(deposits, fees, first, k)
    PROVE  LET w == Withdrawal(deposits, fees, first, amount, k)
           IN  SumOfDeposits(w.left) = SumOfDeposits(deposits) - (w.drained + w.rest)
<1> DEFINE w       == Withdrawal(deposits, fees, first, amount, k)
           rest    == Remainder(deposits, fees, first, amount, k)
           left    == DepositsLeft(deposits, first, k, rest)
           n       == Len(deposits)
           f       == AmountsOf(deposits)
           g       == AmountsOf(left)
           Drained == first..k
           Others  == (1..n) \ Drained
<1>1. /\ DOMAIN deposits = 1..n /\ n \in Nat /\ IsFiniteSet(1..n)
      /\ f \in [1..n -> Nat] /\ SumOfDeposits(deposits) = SumOver(f, 1..n)
  BY AmountsAreTyped
<1>2. /\ k \in Nat /\ first \in Nat /\ first > 0 /\ k <= n
      /\ IsFiniteSet(Drained) /\ Drained \subseteq 1..n
  <2>1. k \in Nat /\ first \in Nat /\ first > 0 /\ k <= n
    BY <1>1, StopsInRange
  <2> QED BY <1>1, <2>1, FS_Interval
<1>3. /\ rest \in Nat
      /\ k = n => rest = 0
  BY RemainderIsCovered
<1>4. w.left = left /\ w.rest = rest /\ w.drained = SumOver(f, Drained)
  BY DEF Withdrawal, AmountsOf
<1>5. left \in Deposits /\ DOMAIN left = 1..n
  <2>1. w.left \in Deposits
    BY WithdrawalIsTyped
  <2>2. DOMAIN left = DOMAIN deposits
    BY DEF DepositsLeft
  <2> QED BY <1>1, <1>4, <2>1, <2>2
<1>6. Len(left) = n
  BY <1>1, <1>5, AmountsAreTyped
<1>7. g \in [1..n -> Nat] /\ SumOfDeposits(left) = SumOver(g, 1..n)
  BY <1>5, <1>6, AmountsAreTyped
<1>8. \A i \in 1..n : deposits[i] \in [blockNumber : Nat, amount : Nat]
  BY <1>1, RowsOfSequence DEF Deposits
<1>9. \A i \in 1..n : g[i] = IF i \in first..k THEN 0
                             ELSE IF i = k + 1 THEN f[i] - rest ELSE f[i]
  <2> SUFFICES ASSUME NEW i \in 1..n
               PROVE  g[i] = IF i \in first..k THEN 0
                             ELSE IF i = k + 1 THEN f[i] - rest ELSE f[i]
    OBVIOUS
  <2>1. left[i] = [deposits[i] EXCEPT !.amount = IF i \in first..k THEN 0
                                                 ELSE IF i = k + 1 THEN @ - rest ELSE @]
    BY <1>1 DEF DepositsLeft
  <2>2. g[i] = left[i].amount /\ f[i] = deposits[i].amount
    BY <1>1, <1>5 DEF AmountsOf
  <2> HIDE DEF left, rest, f, g
  <2> QED BY <1>8, <2>1, <2>2
<1> HIDE DEF w, rest, left, n, f, g
<1>10. /\ IsFiniteSet(Others) /\ Drained \cap Others = {} /\ Drained \cup Others = 1..n
  <2>1. IsFiniteSet(Others)
    <3>1. Others \in SUBSET (1..n)
      OBVIOUS
    <3> QED BY <1>1, <3>1, FS_Subset
  <2> QED BY <1>2, <2>1
<1> HIDE DEF Drained, Others
<1>11. /\ SumOver(f, Drained) \in Nat /\ SumOver(f, Others) \in Nat
       /\ SumOver(f, 1..n) = SumOver(f, Drained) + SumOver(f, Others)
  <2>1. \A i \in Drained \cup Others : f[i] \in Int
    BY <1>1, <1>10
  <2>2. SumOver(f, Drained \cup Others) = SumOver(f, Drained) + SumOver(f, Others)
    BY <1>2, <1>10, <2>1, SumOfParts
  <2> QED BY <1>2, <1>10, <2>1, <2>2, SumOfParts
<1>12. /\ SumOver(g, Drained) \in Nat /\ SumOver(g, Others) \in Nat
       /\ SumOver(g, 1..n) = SumOver(g, Drained) + SumOver(g, Others)
  <2>1. \A i \in Drained \cup Others : g[i] \in Int
    BY <1>7, <1>10
  <2>2. SumOver(g, Drained \cup Others) = SumOver(g, Drained) + SumOver(g, Others)
    BY <1>2, <1>10, <2>1, SumOfParts
  <2> QED BY <1>2, <1>10, <2>1, <2>2, SumOfParts
<1>13. SumOver(g, Drained) = 0
  <2>1. \A i \in Drained : g[i] = 0
    BY <1>2, <1>9 DEF Drained
  <2> QED BY <2>1, SumOfZeros
<1>14. SumOver(g, Others) = SumOver(f, Others) - rest
  <2>1. CASE rest = 0
    <3>1. \A i \in Others : f[i] = g[i]
      <4> SUFFICES ASSUME NEW i \in Others PROVE f[i] = g[i]
        OBVIOUS
      <4>1. i \in 1..n /\ i \notin first..k
        BY DEF Others, Drained
      <4>2. f[i] \in Nat /\ (g[i] = f[i] \/ g[i] = f[i] - rest)
        BY <1>1, <1>9, <4>1
      <4> QED BY <2>1, <4>2
    <3>2. SumOver(f, Others) = SumOver(g, Others)
      BY <3>1, SumOfSame
    <3> QED BY <1>11, <2>1, <3>2
  <2>2. CASE rest # 0
    <3> DEFINE fo == [i \in Others |-> f[i]]
               go == [i \in Others |-> g[i]]
    <3>1. Others \subseteq 1..n
      BY <1>10
    <3>2. k + 1 \in Others
      <4>1. k # n
        BY <1>3, <2>2
      <4>2. k + 1 \in 1..n /\ k + 1 \notin first..k
        BY <1>1, <1>2, <4>1
      <4> QED BY <4>2 DEF Others, Drained
    <3>3. fo \in [Others -> Nat] /\ go \in [Others -> Nat]
      BY <1>1, <1>7, <3>1
    <3>4. SumOver(fo, Others) = SumOver(f, Others) /\ SumOver(go, Others) = SumOver(g, Others)
      <4>1. (\A i \in Others : fo[i] = f[i]) /\ (\A i \in Others : go[i] = g[i])
        OBVIOUS
      <4> HIDE DEF fo, go
      <4> QED BY <4>1, SumOfSame
    <3>5. /\ go[k + 1] = f[k + 1] - rest /\ fo[k + 1] = f[k + 1] /\ f[k + 1] \in Nat
      BY <1>1, <1>2, <1>9, <3>1, <3>2
    <3>6. \A i \in Others \ {k + 1} : fo[i] = go[i]
      <4> SUFFICES ASSUME NEW i \in Others, i # k + 1 PROVE f[i] = g[i]
        OBVIOUS
      <4>1. i \in 1..n /\ i \notin first..k
        BY DEF Others, Drained
      <4> QED BY <1>9, <4>1
    <3> HIDE DEF fo, go
    <3>7. SumOver(go, Others) - go[k + 1] = SumOver(fo, Others) - fo[k + 1]
      BY <1>10, <3>2, <3>3, <3>6, SumMovesWithOne
    <3>8. SumOver(g, Others) - (f[k + 1] - rest) = SumOver(f, Others) - f[k + 1]
      BY <3>4, <3>5, <3>7
    <3>9. PICK x \in Nat, y \in Nat, z \in Nat :
                x = SumOver(g, Others) /\ y = SumOver(f, Others) /\ z = f[k + 1]
      BY <1>11, <1>12, <3>5
    <3>10. rest \in Nat /\ x - (z - rest) = y - z
      BY <1>3, <3>8, <3>9
    <3>11. x = y - rest
      BY ONLY <3>10, x \in Nat, y \in Nat, z \in Nat
    <3> QED BY <3>9, <3>11
  <2> QED BY <2>1, <2>2
<1> QED BY <1>1, <1>3, <1>4, <1>7, <1>11, <1>12, <1>13, <1>14 DEF w

(* DepositsBackStakes of given records. *)
Backed(data) ==
    \A a \in Accounts : data[a].totalAmountDeposited = SumOfDeposits(data[a].deposits)

(* It is what the invariant says of the state, and of the next one. *)
LEMMA BackedIsInvariant ==
    /\ DepositsBackStakes <=> Backed(usersData)
    /\ DepositsBackStakes' <=> Backed(usersData')
BY DEF DepositsBackStakes, DepositedBy, Stake, Backed, SumOfDeposits, AmountsOf

(* Every step moves a stake by what it moves the deposits. *)
LEMMA NextKeepsBacked ==
    ASSUME TypeOK, Backed(usersData), [Next]_vars
    PROVE  Backed(usersData')
<1>1. ASSUME NEW a \in Accounts
      PROVE  /\ usersData[a].deposits \in Deposits
             /\ usersData[a].totalAmountDeposited \in Nat
             /\ Stake(a) = usersData[a].totalAmountDeposited
             /\ usersData[a].totalAmountDeposited = SumOfDeposits(usersData[a].deposits)
  BY DEF TypeOK, UserData, Deposits, DepositData, Backed, Stake
<1>2. ASSUME NEW u \in Users, NEW amount \in Amounts, Deposit(u, amount)
      PROVE  Backed(usersData')
  <2> DEFINE deposited == amount - FeeAmount(amount, Thousandths(depositFee))
             added     == [blockNumber |-> block, amount |-> deposited]
  <2>1. /\ deposited \in Nat
        /\ usersData'[u].totalAmountDeposited = Stake(u) + deposited
        /\ usersData'[u].deposits = Append(usersData[u].deposits, added)
        /\ \A a \in Accounts \ {u} :
             /\ usersData'[a].totalAmountDeposited = Stake(a)
             /\ usersData'[a].deposits = usersData[a].deposits
    BY <1>2, DepositAddsStake
  <2> HIDE DEF deposited
  <2>2. added \in [blockNumber : Nat, amount : Nat] /\ added.amount = deposited
    BY <2>1 DEF TypeOK
  <2>3. u \in Accounts
    BY UsersAreAccounts
  <2> HIDE DEF added
  <2>4. usersData'[u].totalAmountDeposited = SumOfDeposits(usersData'[u].deposits)
    <3>1. SumOfDeposits(Append(usersData[u].deposits, added))
            = SumOfDeposits(usersData[u].deposits) + added.amount
      BY <1>1, <2>2, <2>3, AppendAddsAmount
    <3> QED BY <1>1, <2>1, <2>2, <2>3, <3>1
  <2> QED BY <1>1, <2>1, <2>4 DEF Backed
<1>3. ASSUME NEW u \in Users, NEW amount \in Amounts, Withdraw(u, amount)
      PROVE  Backed(usersData')
  <2> DEFINE deposits == usersData[u].deposits
             first    == usersData[u].nextDepositIdToRemove
  <2>1. /\ deposits \in Deposits /\ first \in Nat \ {0} /\ withdrawFees \in Fees
        /\ \E k \in (first - 1)..Len(deposits) :
             LET w == Withdrawal(deposits, withdrawFees, first, amount, k)
             IN  /\ DrainsThrough(deposits, withdrawFees, first, amount, k)
                 /\ NetsFit(deposits, withdrawFees, first, k)
                 /\ usersData'[u].totalAmountDeposited = Stake(u) - (w.drained + w.rest)
                 /\ usersData'[u].deposits = w.left
        /\ \A a \in Accounts \ {u} :
             /\ usersData'[a].totalAmountDeposited = Stake(a)
             /\ usersData'[a].deposits = usersData[a].deposits
    BY <1>3, WithdrawTakesStake
  <2>2. u \in Accounts /\ amount \in Nat
    BY UsersAreAccounts, PoolAssumption
  <2>3. Stake(u) = SumOfDeposits(deposits)
    BY <1>1, <2>2
  <2> HIDE DEF deposits, first
  <2>4. PICK k \in (first - 1)..Len(deposits) :
           LET w == Withdrawal(deposits, withdrawFees, first, amount, k)
           IN  /\ DrainsThrough(deposits, withdrawFees, first, amount, k)
               /\ NetsFit(deposits, withdrawFees, first, k)
               /\ usersData'[u].totalAmountDeposited = Stake(u) - (w.drained + w.rest)
               /\ usersData'[u].deposits = w.left
    BY <2>1
  <2> DEFINE w == Withdrawal(deposits, withdrawFees, first, amount, k)
  <2>5. SumOfDeposits(w.left) = SumOfDeposits(deposits) - (w.drained + w.rest)
    BY <2>1, <2>2, <2>4, WithdrawalTakesAmounts
  <2>6. /\ usersData'[u].totalAmountDeposited = Stake(u) - (w.drained + w.rest)
        /\ usersData'[u].deposits = w.left
    BY <2>4
  <2> HIDE DEF w
  <2>7. usersData'[u].totalAmountDeposited = SumOfDeposits(usersData'[u].deposits)
    BY <2>3, <2>5, <2>6
  <2> QED BY <1>1, <2>1, <2>7 DEF Backed
<1>4. CASE ~ \E u \in Users, amount \in Amounts : Deposit(u, amount) \/ Withdraw(u, amount)
  <2>1. \A a \in Accounts : /\ usersData'[a].totalAmountDeposited = Stake(a)
                            /\ usersData'[a].deposits = usersData[a].deposits
    BY <1>4, OthersKeepStakes, OthersKeepDeposits
  <2> QED BY <1>1, <2>1 DEF Backed
<1> QED BY <1>2, <1>3, <1>4

(* Nobody has a deposit in a pool that was just created. *)
LEMMA InitIsBacked == Init => Backed(usersData)
<1> SUFFICES ASSUME Init, NEW a \in Accounts
             PROVE  usersData[a].totalAmountDeposited = SumOfDeposits(usersData[a].deposits)
  BY DEF Backed
<1>1. usersData[a].totalAmountDeposited = 0 /\ usersData[a].deposits = <<>>
  BY DEF Init, NoUserData
<1>2. SumOfDeposits(<<>>) = 0
  <2>1. DOMAIN <<>> = {}
    OBVIOUS
  <2> QED BY <2>1, SumOfNothing DEF SumOfDeposits
<1> QED BY <1>1, <1>2

(* What a user's record says is staked is what the user's deposits hold,   *)
(* however deposits, partial and full withdrawals took turns.              *)
THEOREM StakesAreBacked == Spec => []DepositsBackStakes
<1>1. Backed(usersData) => DepositsBackStakes
  BY BackedIsInvariant
<1>2. TypeOK /\ Backed(usersData) /\ [Next]_vars => (TypeOK /\ Backed(usersData))'
  BY NextIsTyped, NextKeepsBacked
<1>3. Init => TypeOK /\ Backed(usersData)
  BY InitIsTyped, InitIsBacked
<1> QED BY <1>1, <1>2, <1>3, PTL DEF Spec

-----------------------------------------------------------------------------
(* Fees. *)

(* A percentage in thousandths. *)
LEMMA RateOfPercent ==
    ASSUME NEW percent \in Nat
    PROVE  Thousandths(percent) = 10 * percent
BY DEF Thousandths, MULTIPLIER

(* A fee of up to 1000 thousandths is at most the amount, and any other at *)
(* least the amount.                                                       *)
LEMMA FeeAgainstAmount ==
    ASSUME NEW amount \in Nat, NEW rate \in Nat
    PROVE  /\ rate <= 1000 => FeeAmount(amount, rate) <= amount
           /\ rate > 1000 => FeeAmount(amount, rate) >= amount
<1> DEFINE product == amount * rate
<1>1. FeeAmount(amount, rate) = product \div 1000
  BY DEF FeeAmount, MULTIPLIER
<1>2. product \in Nat
  OBVIOUS
<1>3. rate <= 1000 => product <= amount * 1000
  OBVIOUS
<1>4. rate > 1000 => product >= amount * 1000
  OBVIOUS
<1> HIDE DEF product
<1>5. /\ product <= amount * 1000 => product \div 1000 <= amount
      /\ product >= amount * 1000 => product \div 1000 >= amount
  BY <1>2
<1> QED BY <1>1, <1>3, <1>4, <1>5

(* A fee grows with the amount and with the rate. *)
LEMMA FeeIsMonotone ==
    ASSUME NEW a \in Nat, NEW b \in Nat, a <= b, NEW p \in Nat, NEW q \in Nat, p <= q
    PROVE  FeeAmount(a, p) <= FeeAmount(b, q)
<1> DEFINE x == a * p
           y == b * q
<1>1. FeeAmount(a, p) = x \div 1000 /\ FeeAmount(b, q) = y \div 1000
  BY DEF FeeAmount, MULTIPLIER
<1>2. x \in Nat /\ y \in Nat
  OBVIOUS
<1>3. x <= y
  <2>1. a * p <= b * p
    OBVIOUS
  <2>2. b * p <= b * q
    OBVIOUS
  <2>3. b * p \in Nat
    OBVIOUS
  <2> QED BY <1>2, <2>1, <2>2, <2>3
<1> HIDE DEF x, y
<1> QED BY <1>1, <1>2, <1>3

(* The highest fee of a table, and 0 where there is none. *)
FeesOf(fees) == {0} \cup {fees[i].fee : i \in DOMAIN fees}

(* There is one, and no fee of the table is above it. *)
LEMMA HighestFee ==
    ASSUME NEW fees \in Fees
    PROVE  /\ Max(FeesOf(fees)) \in Nat
           /\ \A fee \in FeesOf(fees) : fee <= Max(FeesOf(fees))
<1> DEFINE n      == Len(fees)
           feeOf  == [i \in 1..n |-> fees[i].fee]
           Bounds == {m \in Nat : \A fee \in FeesOf(fees) : fee <= m}
<1>1. /\ DOMAIN fees = 1..n /\ n \in Nat
      /\ \A i \in 1..n : fees[i] \in [blockNumber : Nat, fee : Nat]
  BY RowsOfSequence DEF Fees
<1>2. feeOf \in [1..n -> Nat] /\ FeesOf(fees) = {0} \cup {feeOf[i] : i \in 1..n}
  BY <1>1 DEF FeesOf
<1>3. FeesOf(fees) \subseteq Nat
  BY <1>2
<1>4. IsFiniteSet(1..n)
  BY <1>1, FS_Interval
<1> HIDE DEF feeOf
<1>5. SumOver(feeOf, 1..n) \in Bounds
  <2>1. SumOver(feeOf, 1..n) \in Nat
    <3>1. \A i \in 1..n : feeOf[i] \in Int
      BY <1>2
    <3> QED BY <1>4, <3>1, UnitsFinite
  <2>2. \A i \in 1..n : feeOf[i] <= SumOver(feeOf, 1..n)
    BY <1>2, <1>4, SumBoundsEach
  <2> QED BY <1>2, <2>1, <2>2
<1> DEFINE least == Min(Bounds)
<1>6. least \in Bounds /\ \A m \in Bounds : least <= m
  BY <1>5, MinOfNats
<1> HIDE DEF least
<1>7. least \in FeesOf(fees)
  <2> SUFFICES ASSUME least \notin FeesOf(fees) PROVE FALSE
    OBVIOUS
  <2>1. least \in Nat /\ \A fee \in FeesOf(fees) : fee <= least /\ fee # least
    BY <1>6
  <2>2. 0 \in FeesOf(fees)
    BY <1>2
  <2>3. least - 1 \in Nat /\ \A fee \in FeesOf(fees) : fee <= least - 1
    BY <1>3, <2>1, <2>2
  <2>4. least - 1 \in Bounds
    BY <2>3
  <2> QED BY <1>6, <2>1, <2>4
<1>8. \E x \in FeesOf(fees) : \A y \in FeesOf(fees) : x >= y
  BY <1>3, <1>6, <1>7
<1>9. Max(FeesOf(fees)) \in FeesOf(fees) /\ \A y \in FeesOf(fees) : Max(FeesOf(fees)) >= y
  BY <1>8 DEF Max
<1> QED BY <1>3, <1>9

(* The fee looked up for a block is one of them. *)
LEMMA FeeIsOfTable ==
    ASSUME NEW fees \in Fees, NEW blockNumber \in Nat
    PROVE  CalcWithdrawFeePerBlock(fees, blockNumber) \in FeesOf(fees)
<1> DEFINE rows == {i \in DOMAIN fees : blockNumber < fees[i].blockNumber}
<1>1. CASE rows = {}
  BY <1>1 DEF CalcWithdrawFeePerBlock, FeesOf
<1>2. CASE rows # {}
  <2>1. rows \subseteq Nat
    BY RowsOfSequence DEF Fees
  <2>2. Min(rows) \in DOMAIN fees
    BY <1>2, <2>1, MinOfNats
  <2> QED BY <1>2, <2>2 DEF CalcWithdrawFeePerBlock, FeesOf
<1> QED BY <1>1, <1>2

(* What a withdrawal charges is at most the highest fee: the conversion to *)
(* 64 bits only lowers a fee.                                              *)
LEMMA RateIsBelowHighest ==
    ASSUME NEW fees \in Fees, NEW blockNumber \in Nat
    PROVE  /\ WithdrawFeeRate(fees, blockNumber) \in Nat
           /\ Thousandths(Max(FeesOf(fees))) \in Nat
           /\ WithdrawFeeRate(fees, blockNumber) <= Thousandths(Max(FeesOf(fees)))
<1> DEFINE percent == CalcWithdrawFeePerBlock(fees, blockNumber)
           most    == Max(FeesOf(fees))
           rate    == WithdrawFeeRate(fees, blockNumber)
<1>1. percent \in Nat /\ most \in Nat /\ percent <= most
  BY WithdrawFeeIsPercentage, FeeIsOfTable, HighestFee
<1>2. rate \in Nat /\ rate <= Thousandths(percent)
  BY WithdrawFeeRateIsTyped
<1> HIDE DEF percent, most, rate
<1>3. Thousandths(percent) = 10 * percent /\ Thousandths(most) = 10 * most
  BY <1>1, RateOfPercent
<1>4. rate <= Thousandths(most) /\ Thousandths(most) \in Nat
  BY <1>1, <1>2, <1>3
<1> QED BY <1>2, <1>4 DEF most, rate

-----------------------------------------------------------------------------
(* What a withdrawal costs. *)

(* A deposit that pays in part is worth more than what is taken out of it, *)
(* so its fee is below the whole, and so is the fee on that part.          *)
LEMMA RestFeeIsBelowRest ==
    ASSUME NEW deposits \in Deposits, NEW fees \in Fees,
           NEW first \in Nat \ {0}, NEW amount \in Nat,
           NEW k \in (first - 1)..Len(deposits),
           DrainsThrough(deposits, fees, first, amount, k),
           NetsFit(deposits, fees, first, k),
           Remainder(deposits, fees, first, amount, k) # 0
    PROVE  LET rest == Remainder(deposits, fees, first, amount, k)
               rate == WithdrawFeeRate(fees, deposits[k+1].blockNumber)
           IN  /\ rate \in Nat
               /\ rate <= Thousandths(Max(FeesOf(fees)))
               /\ FeeAmount(rest, rate) <= rest
<1> DEFINE nets  == NetAmounts(deposits, fees)
           rest  == Remainder(deposits, fees, first, amount, k)
           rate  == WithdrawFeeRate(fees, deposits[k+1].blockNumber)
           paid  == SumOver(nets, first..k)
           value == deposits[k+1].amount
<1>1. rest \in Nat /\ (k = Len(deposits) => rest = 0)
  BY RemainderIsCovered
<1>2. /\ DOMAIN deposits = 1..Len(deposits) /\ Len(deposits) \in Nat
      /\ \A i \in 1..Len(deposits) : deposits[i] \in [blockNumber : Nat, amount : Nat]
  BY RowsOfSequence DEF Deposits
<1>3. k \in Nat /\ k < Len(deposits) /\ k + 1 \in 1..Len(deposits)
  <2>1. k \in Nat /\ k <= Len(deposits) /\ k # Len(deposits)
    BY <1>1, <1>2, StopsInRange
  <2> DEFINE n == Len(deposits)
  <2>2. n \in Nat /\ k \in Nat /\ k <= n /\ k # n
    BY <1>2, <2>1
  <2> HIDE DEF n
  <2>3. k < n /\ k + 1 \in 1..n
    BY <2>2
  <2> QED BY <2>1, <2>3 DEF n
<1>4. deposits[k+1].blockNumber \in Nat /\ value \in Nat
  BY <1>2, <1>3
<1>5. rate \in Nat /\ rate <= Thousandths(Max(FeesOf(fees)))
  BY <1>4, RateIsBelowHighest
<1>6. rest = amount - paid
  BY <1>3 DEF Remainder
<1>7. nets[k+1] = value - FeeAmount(value, rate)
  BY <1>2, <1>3 DEF NetAmounts, NetAmount, DepositFeeAmount
<1>8. ~ (paid < amount /\ nets[k+1] <= amount - paid)
  <2>1. ~Drains(nets, first, amount, k + 1) /\ (k + 1) - 1 = k
    BY <1>3 DEF DrainsThrough
  <2> QED BY <2>1 DEF Drains
<1>9. paid \in Nat
  <2>1. IsFiniteSet(first..k) /\ first..k \subseteq 1..Len(deposits)
    <3>1. IsFiniteSet(first..k)
      BY <1>3, FS_Interval
    <3>2. first..k \subseteq 1..Len(deposits)
      BY <1>2, <1>3, Z3
    <3> QED BY <3>1, <3>2
  <2>2. \A i \in first..k : nets[i] \in Int
    BY <1>2, <2>1, NetIsBelowAmount DEF NetAmounts
  <2> QED BY <2>1, <2>2, UnitsFinite
<1>10. FeeAmount(value, rate) \in Nat
  BY <1>4, <1>5, FeeIsAmount
<1> HIDE DEF nets, rest, rate, paid, value
<1>11. FeeAmount(value, rate) < value
  BY <1>1, <1>4, <1>6, <1>7, <1>8, <1>9, <1>10 DEF rest
<1>12. rate <= 1000
  BY <1>4, <1>5, <1>10, <1>11, FeeAgainstAmount
<1>13. FeeAmount(rest, rate) <= rest
  BY <1>1, <1>5, <1>12, FeeAgainstAmount
<1> QED BY <1>5, <1>13 DEF rest, rate

(* The emptied deposits pay their own fees. *)
LEMMA DrainedPayTheirFees ==
    ASSUME NEW deposits \in Deposits, NEW fees \in Fees, NEW D, IsFiniteSet(D),
           D \subseteq DOMAIN deposits, \A i \in D : NetAmount(deposits[i], fees) >= 0
    PROVE  LET feeOf == [i \in DOMAIN deposits |-> DepositFeeAmount(deposits[i], fees)]
           IN  /\ SumOver(NetAmounts(deposits, fees), D) \in Nat
               /\ SumOver(feeOf, D) \in Nat
               /\ SumOver(NetAmounts(deposits, fees), D) + SumOver(feeOf, D)
                    = SumOver(AmountsOf(deposits), D)
<1> DEFINE nets  == NetAmounts(deposits, fees)
           feeOf == [i \in DOMAIN deposits |-> DepositFeeAmount(deposits[i], fees)]
           f     == [i \in D |-> nets[i]]
           g     == [i \in D |-> feeOf[i]]
           whole == [i \in D |-> f[i] + g[i]]
<1>1. ASSUME NEW i \in D
      PROVE  /\ nets[i] \in Nat /\ feeOf[i] \in Nat
             /\ nets[i] + feeOf[i] = AmountsOf(deposits)[i]
  <2>1. i \in DOMAIN deposits /\ deposits[i] \in [blockNumber : Nat, amount : Nat]
    BY RowsOfSequence DEF Deposits
  <2>2. /\ DepositFeeAmount(deposits[i], fees) \in Nat
        /\ NetAmount(deposits[i], fees) \in Int
        /\ NetAmount(deposits[i], fees)
             = deposits[i].amount - DepositFeeAmount(deposits[i], fees)
    BY <2>1, NetIsBelowAmount DEF NetAmount
  <2> QED BY <2>1, <2>2 DEF NetAmounts, AmountsOf
<1> HIDE DEF nets, feeOf
<1>2. f \in [D -> Nat] /\ g \in [D -> Nat]
  BY <1>1
<1>3. SumOver(whole, D) = SumOver(f, D) + SumOver(g, D)
  <2> HIDE DEF f, g
  <2> QED BY <1>2, SumOfSums
<1>4. /\ \A i \in D : f[i] = nets[i]
      /\ \A i \in D : g[i] = feeOf[i]
      /\ \A i \in D : whole[i] = AmountsOf(deposits)[i]
      /\ \A i \in D : nets[i] \in Int
      /\ \A i \in D : feeOf[i] \in Int
  BY <1>1
<1> HIDE DEF f, g, whole
<1>5. /\ SumOver(f, D) = SumOver(nets, D)
      /\ SumOver(g, D) = SumOver(feeOf, D)
      /\ SumOver(whole, D) = SumOver(AmountsOf(deposits), D)
  BY <1>4, SumOfSame
<1>6. SumOver(nets, D) \in Nat /\ SumOver(feeOf, D) \in Nat
  BY <1>4, UnitsFinite
<1> QED BY <1>3, <1>5, <1>6 DEF nets, feeOf

(* A withdrawal costs the pool the stake that is given up and one fee: the *)
(* fee on what is taken out of a deposit that is not emptied.  That fee is *)
(* at most this rest, and at most the highest of the table on it.          *)
LEMMA WithdrawalCosts ==
    ASSUME NEW deposits \in Deposits, NEW fees \in Fees,
           NEW first \in Nat \ {0}, NEW amount \in Nat,
           NEW k \in (first - 1)..Len(deposits),
           DrainsThrough(deposits, fees, first, amount, k),
           NetsFit(deposits, fees, first, k)
    PROVE  LET w == Withdrawal(deposits, fees, first, amount, k)
           IN  /\ w.drained \in Nat /\ w.rest \in Nat
               /\ \E extra \in Nat :
                    /\ w.paid + w.fee = w.drained + w.rest + extra
                    /\ extra <= w.rest
                    /\ extra <= FeeAmount(w.rest, Thousandths(Max(FeesOf(fees))))
<1> DEFINE w       == Withdrawal(deposits, fees, first, amount, k)
           rest    == Remainder(deposits, fees, first, amount, k)
           rate    == WithdrawFeeRate(fees, deposits[k+1].blockNumber)
           most    == Thousandths(Max(FeesOf(fees)))
           extra   == IF rest = 0 THEN 0 ELSE FeeAmount(rest, rate)
           feeOf   == [i \in DOMAIN deposits |-> DepositFeeAmount(deposits[i], fees)]
           D       == first..k
<1>1. w.drained \in Nat /\ w.rest \in Nat /\ rest \in Nat
  BY WithdrawalIsTyped, RemainderIsCovered
<1>2. /\ w.paid = SumOver(NetAmounts(deposits, fees), D) + rest
      /\ w.fee = SumOver(feeOf, D) + extra
      /\ w.drained = SumOver(AmountsOf(deposits), D)
      /\ w.rest = rest
  BY DEF Withdrawal, WithdrawalFee, AmountsOf
<1>3. IsFiniteSet(D) /\ D \subseteq DOMAIN deposits
  <2>1. /\ DOMAIN deposits = 1..Len(deposits) /\ Len(deposits) \in Nat
    BY RowsOfSequence DEF Deposits
  <2>2. k \in Nat /\ first \in Nat /\ first > 0 /\ k <= Len(deposits)
    BY <2>1, StopsInRange
  <2> QED BY <2>1, <2>2, FS_Interval
<1>4. /\ SumOver(NetAmounts(deposits, fees), D) \in Nat /\ SumOver(feeOf, D) \in Nat
      /\ SumOver(NetAmounts(deposits, fees), D) + SumOver(feeOf, D)
           = SumOver(AmountsOf(deposits), D)
  BY <1>3, DrainedPayTheirFees DEF NetsFit
<1>5. extra \in Nat /\ extra <= rest /\ extra <= FeeAmount(rest, most)
  <2>1. most \in Nat
    BY HighestFee, ThousandthsAreTyped
  <2>2. FeeAmount(rest, most) \in Nat
    <3> HIDE DEF rest, most
    <3> QED BY <1>1, <2>1, FeeIsAmount
  <2>3. CASE rest = 0
    BY <1>1, <2>2, <2>3
  <2>4. CASE rest # 0
    <3>1. rate \in Nat /\ rate <= most /\ FeeAmount(rest, rate) <= rest
      BY <2>4, RestFeeIsBelowRest
    <3>2. extra = FeeAmount(rest, rate)
      BY <2>4
    <3> HIDE DEF rest, rate, most, extra
    <3>3. FeeAmount(rest, rate) \in Nat
      BY <1>1, <3>1, FeeIsAmount
    <3>4. FeeAmount(rest, rate) <= FeeAmount(rest, most)
      BY <1>1, <2>1, <3>1, FeeIsMonotone
    <3> QED BY <3>1, <3>2, <3>3, <3>4
  <2> QED BY <2>3, <2>4
<1> HIDE DEF w, rest, most, extra, feeOf, D
<1>6. w.paid + w.fee = w.drained + w.rest + extra
  BY <1>1, <1>2, <1>4, <1>5
<1>7. /\ extra <= w.rest
      /\ extra <= FeeAmount(w.rest, most)
  BY <1>2, <1>5
<1> QED BY <1>1, <1>5, <1>6, <1>7 DEF w, most

-----------------------------------------------------------------------------
(* The steps of the pool. *)

(* A withdrawal as the ledger sees it. *)
LEMMA WithdrawLeaves ==
    ASSUME TypeOK, NEW u \in Users, NEW amount \in Amounts, Withdraw(u, amount)
    PROVE  \E debit \in Nat, extra \in Nat :
             /\ usersData'[u].totalAmountDeposited = Stake(u) - debit
             /\ balance'[PoolAddr] = balance[PoolAddr] - (debit + extra)
             /\ extra <= debit
             /\ extra <= FeeAmount(debit, Thousandths(Max(FeesOf(withdrawFees))))
<1> DEFINE deposits == usersData[u].deposits
           first    == usersData[u].nextDepositIdToRemove
           most     == Thousandths(Max(FeesOf(withdrawFees)))
<1>1. /\ deposits \in Deposits /\ first \in Nat \ {0} /\ withdrawFees \in Fees
      /\ \E k \in (first - 1)..Len(deposits) :
           LET w == Withdrawal(deposits, withdrawFees, first, amount, k)
           IN  /\ DrainsThrough(deposits, withdrawFees, first, amount, k)
               /\ NetsFit(deposits, withdrawFees, first, k)
               /\ usersData'[u].totalAmountDeposited = Stake(u) - (w.drained + w.rest)
               /\ balance'[PoolAddr] = balance[PoolAddr] - (w.paid + w.fee)
  BY WithdrawTakesStake
<1>2. amount \in Nat
  BY PoolAssumption
<1> HIDE DEF deposits, first
<1>3. PICK k \in (first - 1)..Len(deposits) :
         LET w == Withdrawal(deposits, withdrawFees, first, amount, k)
         IN  /\ DrainsThrough(deposits, withdrawFees, first, amount, k)
             /\ NetsFit(deposits, withdrawFees, first, k)
             /\ usersData'[u].totalAmountDeposited = Stake(u) - (w.drained + w.rest)
             /\ balance'[PoolAddr] = balance[PoolAddr] - (w.paid + w.fee)
  BY <1>1
<1> DEFINE w     == Withdrawal(deposits, withdrawFees, first, amount, k)
           debit == w.drained + w.rest
<1>4. /\ w.drained \in Nat /\ w.rest \in Nat
      /\ \E extra \in Nat : /\ w.paid + w.fee = w.drained + w.rest + extra
                           /\ extra <= w.rest
                           /\ extra <= FeeAmount(w.rest, most)
  BY <1>1, <1>2, <1>3, WithdrawalCosts
<1>5. /\ usersData'[u].totalAmountDeposited = Stake(u) - debit
      /\ balance'[PoolAddr] = balance[PoolAddr] - (w.paid + w.fee)
  BY <1>3
<1> HIDE DEF w, most
<1>6. PICK extra \in Nat : /\ w.paid + w.fee = w.drained + w.rest + extra
                          /\ extra <= w.rest
                          /\ extra <= FeeAmount(w.rest, most)
  BY <1>4
<1>7. debit \in Nat /\ w.rest <= debit /\ w.paid + w.fee = debit + extra
  BY <1>4, <1>6
<1> HIDE DEF debit
<1>8. extra <= FeeAmount(debit, most)
  <2>1. most \in Nat
    BY <1>1, HighestFee, ThousandthsAreTyped DEF most
  <2>2. FeeAmount(w.rest, most) <= FeeAmount(debit, most)
    BY <1>4, <1>7, <2>1, FeeIsMonotone
  <2>3. FeeAmount(w.rest, most) \in Nat /\ FeeAmount(debit, most) \in Nat
    BY <1>4, <1>7, <2>1, FeeIsAmount
  <2> QED BY <1>6, <2>2, <2>3
<1>9. balance'[PoolAddr] = balance[PoolAddr] - (debit + extra) /\ extra <= debit
  BY <1>4, <1>5, <1>6, <1>7
<1> QED BY <1>5, <1>7, <1>8, <1>9 DEF most

(* No other transaction moves the tokens of the pool: a claim mints to the *)
(* user, who is not the pool.                                              *)
LEMMA OthersKeepCustody ==
    ASSUME TypeOK, [Next]_vars,
           ~ \E u \in Users, amount \in Amounts : Deposit(u, amount) \/ Withdraw(u, amount)
    PROVE  balance'[PoolAddr] = balance[PoolAddr]
<1>1. ASSUME NEW caller \in Callers, NEW user \in Users, ClaimRewards(caller, user)
      PROVE  balance'[PoolAddr] = balance[PoolAddr]
  <2>1. user # PoolAddr /\ PoolAddr \in Accounts /\ balance \in [Accounts -> Nat]
    BY PoolAssumption DEF TypeOK
  <2>2. \E payout : balance' = [balance EXCEPT ![user] = @ + payout]
    BY <1>1 DEF ClaimRewards
  <2> QED BY <2>1, <2>2
<1>2. \/ \E caller \in Callers, user \in Users : ClaimRewards(caller, user)
      \/ UNCHANGED balance
  BY SettersKeepStakes DEF Next, UserStep, OwnerStep, Pause, NextBlock, PackStep, BurnBP, vars
<1> QED BY <1>1, <1>2

-----------------------------------------------------------------------------
(* The refinement. *)

(* A pool is created with an empty ledger. *)
LEMMA InitIsEmptyLedger == Init => Ledger!Init
<1> SUFFICES ASSUME Init PROVE Ledger!Init
  OBVIOUS
<1>1. \A a \in Accounts : Stake(a) = 0
  BY DEF Init, Stake, NoUserData
<1>2. balance[PoolAddr] = 0 /\ paused = FALSE
  BY PoolAssumption DEF Init
<1> QED BY <1>1, <1>2 DEF Ledger!Init

(* A deposit enters the ledger, unless its fee takes all of it. *)
LEMMA DepositEnters ==
    ASSUME TypeOK, NEW u \in Users, NEW amount \in Amounts, Deposit(u, amount)
    PROVE  Ledger!Next
<1>1. PICK deposited \in Nat :
         /\ balance'[PoolAddr] = balance[PoolAddr] + deposited
         /\ Stake(u)' = Stake(u) + deposited
         /\ \A a \in Accounts \ {u} : Stake(a)' = Stake(a)
  BY DepositAddsStake DEF Stake
<1>2. u \in Accounts /\ Stake(u) \in Nat
  BY UsersAreAccounts DEF TypeOK, UserData, Stake
<1>3. ~paused /\ paused' = paused /\ paused' \in BOOLEAN
  BY DEF Deposit, WhenNotPaused, configVars, TypeOK
<1>4. PoolAddr \in Accounts /\ balance[PoolAddr] \in Nat
  BY UsersAreAccounts DEF TypeOK
<1>5. CASE deposited = 0
  <2>1. \A a \in Accounts : Stake(a)' = Stake(a)
    BY <1>1, <1>2, <1>5
  <2>2. balance'[PoolAddr] = balance[PoolAddr]
    BY <1>1, <1>4, <1>5
  <2> QED BY <1>3, <2>1, <2>2 DEF Ledger!Next, Ledger!Freeze
<1>6. CASE deposited > 0
  <2> DEFINE entered == Stake(u)' - Stake(u)
  <2>1. entered = deposited /\ entered > 0
    BY <1>1, <1>2, <1>6
  <2>2. balance'[PoolAddr] = balance[PoolAddr] + entered
    BY <1>1, <2>1
  <2>3. Ledger!OthersKeepStakes(u)
    BY <1>1 DEF Ledger!OthersKeepStakes
  <2>4. Ledger!Enter(u)
    BY <1>2, <1>3, <2>1, <2>2, <2>3 DEF Ledger!Enter
  <2> QED BY <1>2, <2>4 DEF Ledger!Next
<1> QED BY <1>1, <1>5, <1>6

(* A withdrawal leaves the ledger, unless it gives up no stake. *)
LEMMA WithdrawLeavesLedger ==
    ASSUME TypeOK, TypeOK', NEW u \in Users, NEW amount \in Amounts, Withdraw(u, amount)
    PROVE  Ledger!Next
<1>1. PICK debit \in Nat, extra \in Nat :
         /\ Stake(u)' = Stake(u) - debit
         /\ balance'[PoolAddr] = balance[PoolAddr] - (debit + extra)
         /\ extra <= debit
  BY WithdrawLeaves DEF Stake
<1>2. \A a \in Accounts \ {u} : Stake(a)' = Stake(a)
  BY WithdrawTakesStake DEF Stake
<1>3. u \in Accounts /\ Stake(u) \in Nat /\ Stake(u)' \in Nat
  BY UsersAreAccounts DEF TypeOK, UserData, Stake
<1>4. paused' = paused /\ paused \in BOOLEAN
  BY DEF Withdraw, configVars, TypeOK
<1>5. PoolAddr \in Accounts /\ balance[PoolAddr] \in Nat /\ balance'[PoolAddr] \in Nat
  BY UsersAreAccounts DEF TypeOK
<1>6. CASE debit = 0
  <2>1. \A a \in Accounts : Stake(a)' = Stake(a)
    BY <1>1, <1>2, <1>3, <1>6
  <2>2. balance'[PoolAddr] = balance[PoolAddr]
    BY <1>1, <1>5, <1>6
  <2> QED BY <1>4, <2>1, <2>2 DEF Ledger!Next, Ledger!Freeze
<1>7. CASE debit > 0
  <2> DEFINE left == Stake(u) - Stake(u)'
             out  == balance[PoolAddr] - balance'[PoolAddr]
  <2>1. left = debit /\ left > 0
    BY <1>1, <1>3, <1>7
  <2>2. out \in left..(2 * left)
    BY <1>1, <1>5, <2>1
  <2>3. Ledger!OthersKeepStakes(u)
    BY <1>2 DEF Ledger!OthersKeepStakes
  <2>4. Stake(u)' >= 0 /\ balance'[PoolAddr] >= 0
    BY <1>3, <1>5
  <2>5. Ledger!Leave(u)
    BY <1>3, <1>4, <2>1, <2>2, <2>3, <2>4 DEF Ledger!Leave
  <2> QED BY <1>3, <2>5 DEF Ledger!Next
<1> QED BY <1>1, <1>6, <1>7

(* Everything else can at most freeze or thaw it. *)
LEMMA OthersFreeze ==
    ASSUME TypeOK, TypeOK', [Next]_vars,
           ~ \E u \in Users, amount \in Amounts : Deposit(u, amount) \/ Withdraw(u, amount)
    PROVE  Ledger!Next
<1>1. \A a \in Accounts : Stake(a)' = Stake(a)
  BY OthersKeepStakes DEF Stake
<1>2. balance'[PoolAddr] = balance[PoolAddr]
  BY OthersKeepCustody
<1>3. paused' \in BOOLEAN
  BY DEF TypeOK
<1> QED BY <1>1, <1>2, <1>3 DEF Ledger!Next, Ledger!Freeze

(* The pool implements the custodian of StakeLedger: whatever fees,        *)
(* rewards and boosters do, one transaction moves the stake of one account *)
(* at most, a paused pool admits no stake, and a leaver never takes more   *)
(* than the stake given up and as much again in fees.                      *)
THEOREM LedgerImplemented == Spec => ImplementsLedger
<1>1. TypeOK /\ [Next]_vars => [Ledger!Next]_(Ledger!ledgerVars)
  BY NextIsTyped, DepositEnters, WithdrawLeavesLedger, OthersFreeze
<1> QED BY <1>1, InitIsEmptyLedger, TypeCorrect, PTL DEF Spec, ImplementsLedger, Ledger!Spec

-----------------------------------------------------------------------------
(* OverdraftBoundedByFee. *)

(* The bound, for one step. *)
Bounded ==
    LET out   == balance[PoolAddr] - balance'[PoolAddr]
        debit == Stakes - Stakes'
    IN  out > 0 \/ debit > 0 =>
          debit <= out /\ out <= debit + FeeAmount(debit, Thousandths(Max(FeesOf(withdrawFees))))

(* Every step respects it. *)
LEMMA NextIsBounded ==
    ASSUME TypeOK, [Next]_vars
    PROVE  Bounded
<1>0. TypeOK' /\ PoolAddr \in Accounts /\ balance[PoolAddr] \in Nat
  BY NextIsTyped, UsersAreAccounts DEF TypeOK
<1>1. ASSUME NEW u \in Users, NEW amount \in Amounts, Deposit(u, amount)
      PROVE  Bounded
  <2>1. PICK deposited \in Nat :
           /\ balance'[PoolAddr] = balance[PoolAddr] + deposited
           /\ usersData'[u].totalAmountDeposited
                = usersData[u].totalAmountDeposited + deposited
           /\ \A a \in Accounts \ {u} :
                usersData'[a].totalAmountDeposited = usersData[a].totalAmountDeposited
    BY <1>1, DepositAddsStake DEF Stake
  <2>2. u \in Accounts /\ usersData[u].totalAmountDeposited \in Nat
    BY UsersAreAccounts DEF TypeOK, UserData
  <2>3. /\ Stakes \in Nat /\ Stakes' \in Nat
        /\ Stakes' - usersData'[u].totalAmountDeposited
             = Stakes - usersData[u].totalAmountDeposited
    BY <1>0, <2>1, <2>2, StakesMoveWithOne
  <2>4. ~(balance[PoolAddr] - balance'[PoolAddr] > 0)
    BY <1>0, <2>1
  <2>5. ~(Stakes - Stakes' > 0)
    <3>1. /\ usersData'[u].totalAmountDeposited \in Nat
          /\ usersData'[u].totalAmountDeposited - usersData[u].totalAmountDeposited
               = deposited
      BY <2>1, <2>2
    <3>2. \A s \in Nat, t \in Nat, x \in Nat, y \in Nat, d \in Nat :
            t - y = s - x /\ y - x = d => ~(s - t > 0)
      OBVIOUS
    <3> QED BY <2>1, <2>2, <2>3, <3>1, <3>2
  <2> QED BY <2>4, <2>5 DEF Bounded
<1>2. ASSUME NEW u \in Users, NEW amount \in Amounts, Withdraw(u, amount)
      PROVE  Bounded
  <2>1. PICK debit \in Nat, extra \in Nat :
           /\ usersData'[u].totalAmountDeposited
                = usersData[u].totalAmountDeposited - debit
           /\ balance'[PoolAddr] = balance[PoolAddr] - (debit + extra)
           /\ extra <= FeeAmount(debit, Thousandths(Max(FeesOf(withdrawFees))))
    BY <1>2, WithdrawLeaves DEF Stake
  <2>2. \A a \in Accounts \ {u} :
           usersData'[a].totalAmountDeposited = usersData[a].totalAmountDeposited
    BY <1>2, WithdrawTakesStake DEF Stake
  <2>3. u \in Accounts /\ usersData[u].totalAmountDeposited \in Nat
    BY UsersAreAccounts DEF TypeOK, UserData
  <2>4. /\ Stakes \in Nat /\ Stakes' \in Nat
        /\ Stakes' - usersData'[u].totalAmountDeposited
             = Stakes - usersData[u].totalAmountDeposited
    BY <1>0, <2>2, <2>3, StakesMoveWithOne
  <2>5. Stakes - Stakes' = debit
    <3>1. usersData'[u].totalAmountDeposited
            = usersData[u].totalAmountDeposited - debit
      BY <2>1
    <3>2. Stakes' - (usersData[u].totalAmountDeposited - debit)
            = Stakes - usersData[u].totalAmountDeposited
      BY <3>1, <2>4
    <3>3. ASSUME NEW s \in Nat, NEW t \in Nat, NEW x \in Nat, t - (x - debit) = s - x
          PROVE  s - t = debit
      BY <3>3
    <3>4. Stakes \in Nat /\ Stakes' \in Nat
      BY <2>4
    <3> QED BY ONLY <2>3, <3>2, <3>3, <3>4
  <2>6. balance[PoolAddr] - balance'[PoolAddr] = debit + extra
    BY <1>0, <2>1
  <2>7. FeeAmount(debit, Thousandths(Max(FeesOf(withdrawFees)))) \in Nat
    <3>1. withdrawFees \in Fees
      BY DEF TypeOK, Fees
    <3> QED BY <3>1, HighestFee, FeeIsAmount
  <2> QED BY <2>1, <2>5, <2>6, <2>7 DEF Bounded
<1>3. CASE ~ \E u \in Users, amount \in Amounts : Deposit(u, amount) \/ Withdraw(u, amount)
  <2>1. Stakes' = Stakes
    BY <1>3, OthersKeepStakes DEF Stakes, Stake
  <2>2. balance'[PoolAddr] = balance[PoolAddr]
    BY <1>3, OthersKeepCustody
  <2>3. Stakes \in Nat
    BY StakesAreTyped DEF TypeOK, Stakes, Stake, StakesIn
  <2>4. /\ ~(balance[PoolAddr] - balance'[PoolAddr] > 0)
        /\ ~(Stakes - Stakes' > 0)
    BY <1>0, <2>1, <2>2, <2>3
  <2> QED BY <2>4 DEF Bounded
<1> QED BY <1>1, <1>2, <1>3

(* Whatever leaves the pool in one step is the stake debited in it and at  *)
(* most the highest withdraw fee on that stake: the fee of one deposit     *)
(* that is consumed in part, however many the withdrawal empties.          *)
THEOREM OverdraftIsBounded == Spec => OverdraftBoundedByFee
<1>1. TypeOK /\ [Next]_vars => Bounded
  BY NextIsBounded
<1>2. Bounded <=>
        LET out   == balance[PoolAddr] - balance'[PoolAddr]
            debit == Stakes - Stakes'
            fees  == {0} \cup {withdrawFees[i].fee : i \in DOMAIN withdrawFees}
        IN  out > 0 \/ debit > 0 =>
              debit <= out /\ out <= debit + FeeAmount(debit, Thousandths(Max(fees)))
  BY DEF Bounded, FeesOf
<1> QED BY <1>1, <1>2, TypeCorrect, PTL DEF Spec, OverdraftBoundedByFee

-----------------------------------------------------------------------------
(* PoolBacksStakes, where no withdraw fee is charged. *)

(* The pool is created without withdraw fees and the owner sets none. *)
NoWithdrawFees == FeeRows = {} /\ \A i \in DOMAIN InitFees : InitFees[i].fee = 0

(* No row of the table charges anything. *)
FreeOfFees == \A i \in DOMAIN withdrawFees : withdrawFees[i].fee = 0

(* The owner can at most delete rows, which sets them to 0. *)
LEMMA NextIsFreeOfFees ==
    ASSUME NoWithdrawFees, TypeOK, FreeOfFees, [Next]_vars
    PROVE  FreeOfFees'
<1>1. CASE UNCHANGED withdrawFees
  BY <1>1 DEF FreeOfFees
<1>2. ASSUME NEW id \in 1..MaxRows, RemoveWithdrawFee(id)
      PROVE  FreeOfFees'
  BY <1>2 DEF FreeOfFees, RemoveWithdrawFee, ChangeWithdrawFees, TypeOK
<1>3. UNCHANGED withdrawFees \/ \E id \in 1..MaxRows : RemoveWithdrawFee(id)
  <2>1. CASE OwnerStep
    BY <2>1 DEF NoWithdrawFees, OwnerStep, Pause, Unpause, UpdateBaseRateTokensPerBlock,
                UpdateDepositFee, AddRewardsMultiplier, UpdateRewardsMultiplier,
                RemoveRewardsMultiplier, ChangeRewardsMultipliers
  <2>2. CASE UserStep
    BY <2>2 DEF UserStep, Deposit, Withdraw, ClaimRewards, BurnBP, configVars
  <2>3. CASE NextBlock \/ PackStep \/ UNCHANGED vars
    BY <2>3 DEF NextBlock, PackStep, vars, poolVars, configVars
  <2> QED BY <2>1, <2>2, <2>3 DEF Next
<1> QED BY <1>1, <1>2, <1>3

(* Without fees a withdrawal takes from the pool what it takes from the    *)
(* stake.                                                                  *)
LEMMA NextBacksStakes ==
    ASSUME TypeOK, FreeOfFees, PoolBacksStakes, [Next]_vars
    PROVE  PoolBacksStakes'
<1>0. /\ TypeOK' /\ PoolAddr \in Accounts
      /\ balance[PoolAddr] \in Nat /\ balance'[PoolAddr] \in Nat
  BY NextIsTyped, UsersAreAccounts DEF TypeOK
<1>1. ASSUME NEW u \in Users, NEW d \in Int,
             balance'[PoolAddr] = balance[PoolAddr] + d,
             usersData'[u].totalAmountDeposited = usersData[u].totalAmountDeposited + d,
             \A a \in Accounts \ {u} :
               usersData'[a].totalAmountDeposited = usersData[a].totalAmountDeposited
      PROVE  PoolBacksStakes'
  <2>1. /\ u \in Accounts /\ usersData[u].totalAmountDeposited \in Nat
        /\ usersData'[u].totalAmountDeposited \in Nat
    BY <1>0, UsersAreAccounts DEF TypeOK, UserData
  <2>2. /\ Stakes \in Nat /\ Stakes' \in Nat
        /\ Stakes' - usersData'[u].totalAmountDeposited
             = Stakes - usersData[u].totalAmountDeposited
    BY <1>0, <1>1, <2>1, StakesMoveWithOne
  <2>3. \A s \in Nat, t \in Nat, x \in Nat, y \in Nat, b \in Nat, c \in Nat, m \in Int :
          t - y = s - x /\ y = x + m /\ c = b + m /\ s <= b => t <= c
    OBVIOUS
  <2>4. Stakes <= balance[PoolAddr]
    BY DEF PoolBacksStakes
  <2>5. Stakes' <= balance'[PoolAddr]
    BY <1>0, <1>1, <2>1, <2>2, <2>3, <2>4
  <2> QED BY <2>5 DEF PoolBacksStakes
<1>2. ASSUME NEW u \in Users, NEW amount \in Amounts, Deposit(u, amount)
      PROVE  PoolBacksStakes'
  <2>1. \E deposited \in Nat :
           /\ balance'[PoolAddr] = balance[PoolAddr] + deposited
           /\ usersData'[u].totalAmountDeposited
                = usersData[u].totalAmountDeposited + deposited
           /\ \A a \in Accounts \ {u} :
                usersData'[a].totalAmountDeposited = usersData[a].totalAmountDeposited
    BY <1>2, DepositAddsStake DEF Stake
  <2> QED BY <1>1, <2>1
<1>3. ASSUME NEW u \in Users, NEW amount \in Amounts, Withdraw(u, amount)
      PROVE  PoolBacksStakes'
  <2>1. PICK debit \in Nat, extra \in Nat :
           /\ usersData'[u].totalAmountDeposited
                = usersData[u].totalAmountDeposited - debit
           /\ balance'[PoolAddr] = balance[PoolAddr] - (debit + extra)
           /\ extra <= FeeAmount(debit, Thousandths(Max(FeesOf(withdrawFees))))
    BY <1>3, WithdrawLeaves DEF Stake
  <2>2. \A a \in Accounts \ {u} :
           usersData'[a].totalAmountDeposited = usersData[a].totalAmountDeposited
    BY <1>3, WithdrawTakesStake DEF Stake
  <2>3. Max(FeesOf(withdrawFees)) = 0
    <3>1. FeesOf(withdrawFees) = {0}
      BY DEF FreeOfFees, FeesOf
    <3> QED BY <3>1 DEF Max
  <2>4. FeeAmount(debit, Thousandths(0)) = 0
    <3>1. Thousandths(0) = 0
      BY RateOfPercent
    <3> QED BY <3>1 DEF FeeAmount, MULTIPLIER
  <2>5. extra = 0
    BY <2>1, <2>3, <2>4
  <2>6. usersData[u].totalAmountDeposited \in Nat
    BY UsersAreAccounts DEF TypeOK, UserData
  <2>7. /\ balance'[PoolAddr] = balance[PoolAddr] + (-debit)
        /\ usersData'[u].totalAmountDeposited
             = usersData[u].totalAmountDeposited + (-debit)
    BY <1>0, <2>1, <2>5, <2>6
  <2> QED BY <1>1, <2>2, <2>7
<1>4. CASE ~ \E u \in Users, amount \in Amounts : Deposit(u, amount) \/ Withdraw(u, amount)
  <2>1. Stakes' = Stakes
    BY <1>4, OthersKeepStakes DEF Stakes, Stake
  <2>2. balance'[PoolAddr] = balance[PoolAddr]
    BY <1>4, OthersKeepCustody
  <2> QED BY <2>1, <2>2 DEF PoolBacksStakes
<1> QED BY <1>2, <1>3, <1>4

(* Where no withdraw fee is charged the pool holds every stake, whatever   *)
(* deposit fees, rewards, boosters and pauses there are.                   *)
THEOREM StakesAreHeld == NoWithdrawFees => (Spec => []PoolBacksStakes)
<1> SUFFICES ASSUME NoWithdrawFees PROVE Spec => []PoolBacksStakes
  OBVIOUS
<1>1. Init => FreeOfFees /\ PoolBacksStakes
  <2> SUFFICES ASSUME Init PROVE FreeOfFees /\ PoolBacksStakes
    OBVIOUS
  <2>1. FreeOfFees
    BY DEF Init, FreeOfFees, NoWithdrawFees
  <2>2. \A a \in Accounts : StakesIn(usersData)[a] = 0
    BY DEF Init, StakesIn, NoUserData
  <2>3. Stakes = SumOver(StakesIn(usersData), Accounts)
    BY DEF Stakes, Stake, StakesIn
  <2>4. Stakes = 0 /\ balance[PoolAddr] = 0
    BY <2>2, <2>3, SumOfZeros, PoolAssumption DEF Init
  <2> QED BY <2>1, <2>4 DEF PoolBacksStakes
<1>2. TypeOK /\ FreeOfFees /\ PoolBacksStakes /\ [Next]_vars
        => FreeOfFees' /\ PoolBacksStakes'
  BY NextIsFreeOfFees, NextBacksStakes
<1> QED BY <1>1, <1>2, TypeCorrect, PTL DEF Spec

-----------------------------------------------------------------------------
(* Leaving a paused pool. *)

(* The withdraw loop stops somewhere, whatever it is asked to pay: behind  *)
(* the last deposit, or before the first one that it does not empty.       *)
LEMMA LoopStops ==
    ASSUME NEW deposits \in Deposits, NEW fees \in Fees,
           NEW first \in Nat \ {0}, first <= Len(deposits) + 1, NEW amount \in Nat
    PROVE  \E k \in (first - 1)..Len(deposits) :
              DrainsThrough(deposits, fees, first, amount, k)
<1> DEFINE nets == NetAmounts(deposits, fees)
           n    == Len(deposits)
           Kept == {i \in first..n : ~Drains(nets, first, amount, i)}
<1>1. n \in Nat
  BY RowsOfSequence DEF Deposits
<1>2. ASSUME NEW k \in (first - 1)..n,
             \A i \in first..k : Drains(nets, first, amount, i),
             k < n => ~Drains(nets, first, amount, k + 1)
      PROVE  DrainsThrough(deposits, fees, first, amount, k)
  BY <1>2 DEF DrainsThrough
<1> HIDE DEF nets, n
<1>3. CASE Kept = {}
  <2>1. n \in (first - 1)..n /\ ~(n < n)
    BY <1>1 DEF n
  <2>2. \A i \in first..n : Drains(nets, first, amount, i)
    BY <1>3
  <2> QED BY <1>2, <2>1, <2>2 DEF n
<1>4. CASE Kept # {}
  <2>1. Kept \subseteq Nat
    BY <1>1
  <2>2. Min(Kept) \in Kept /\ \A y \in Kept : Min(Kept) <= y
    BY <1>4, <2>1, MinOfNats
  <2>3. PICK m \in first..n : /\ ~Drains(nets, first, amount, m)
                              /\ \A y \in Kept : m <= y
    BY <2>2
  <2>4. m \in Int /\ m - 1 \in (first - 1)..n /\ (m - 1) + 1 = m
    BY <1>1
  <2>5. \A i \in first..(m - 1) : Drains(nets, first, amount, i)
    <3> SUFFICES ASSUME NEW i \in first..(m - 1), ~Drains(nets, first, amount, i)
                 PROVE  FALSE
      OBVIOUS
    <3>1. i \in first..n /\ ~(m <= i)
      BY <1>1, <2>4
    <3>2. i \in Kept
      BY <3>1
    <3> QED BY <2>3, <3>1, <3>2
  <2>6. ~Drains(nets, first, amount, (m - 1) + 1)
    BY <2>3, <2>4
  <2>7. DrainsThrough(deposits, fees, first, amount, m - 1)
    BY <1>2, <2>4, <2>5, <2>6
  <2> QED BY <2>4, <2>7 DEF n
<1> QED BY <1>3, <1>4

(* A table whose rows charge nothing charges nothing for any deposit. *)
LEMMA NothingIsCharged ==
    ASSUME NEW fees \in Fees, \A i \in DOMAIN fees : fees[i].fee = 0
    PROVE  \A blockNumber \in Nat, amount \in Nat :
              /\ amount * WithdrawFeeRate(fees, blockNumber) = 0
              /\ FeeAmount(amount, WithdrawFeeRate(fees, blockNumber)) = 0
<1> SUFFICES ASSUME NEW blockNumber \in Nat, NEW amount \in Nat
             PROVE  /\ amount * WithdrawFeeRate(fees, blockNumber) = 0
                    /\ FeeAmount(amount, WithdrawFeeRate(fees, blockNumber)) = 0
  OBVIOUS
<1>1. FeesOf(fees) = {0}
  BY DEF FeesOf
<1>2. CalcWithdrawFeePerBlock(fees, blockNumber) = 0
  BY <1>1, FeeIsOfTable
<1>3. Thousandths(0) = 0
  BY RateOfPercent
<1>4. WithdrawFeeRate(fees, blockNumber) = 0
  BY <1>2, <1>3, WithdrawFeeRateIsTyped
<1>5. amount * 0 = 0
  OBVIOUS
<1>6. FeeAmount(amount, 0) = 0
  BY DEF FeeAmount, MULTIPLIER
<1> QED BY <1>4, <1>5, <1>6

(* Where nothing is charged and every deposit before `first' is empty, a   *)
(* withdrawal of all that is deposited pays all of it and no fee.          *)
LEMMA FullWithdrawalPaysAll ==
    ASSUME NEW deposits \in Deposits, NEW fees \in Fees,
           \A i \in DOMAIN fees : fees[i].fee = 0,
           NEW first \in Nat \ {0}, first <= Len(deposits) + 1,
           \A i \in 1..(first - 1) : deposits[i].amount = 0,
           NEW amount \in Nat, amount = SumOfDeposits(deposits),
           NEW k \in (first - 1)..Len(deposits),
           DrainsThrough(deposits, fees, first, amount, k)
    PROVE  LET w == Withdrawal(deposits, fees, first, amount, k)
           IN  /\ FeesFit(deposits, fees, first, k, w.rest)
               /\ w.paid = amount /\ w.fee = 0 /\ w.drained + w.rest = amount
<1> DEFINE n     == Len(deposits)
           f     == AmountsOf(deposits)
           feeOf == [i \in DOMAIN deposits |-> DepositFeeAmount(deposits[i], fees)]
           rest  == Remainder(deposits, fees, first, amount, k)
           w     == Withdrawal(deposits, fees, first, amount, k)
<1>1. /\ DOMAIN deposits = 1..n /\ n \in Nat /\ f \in [1..n -> Nat]
      /\ SumOfDeposits(deposits) = SumOver(f, 1..n)
  BY AmountsAreTyped
<1>2. \A i \in 1..n : deposits[i] \in [blockNumber : Nat, amount : Nat]
  BY <1>1, RowsOfSequence DEF Deposits
<1>3. \A i \in 1..n : feeOf[i] = 0 /\ DepositFeeAmount(deposits[i], fees) = 0
  BY <1>1, <1>2, NothingIsCharged DEF DepositFeeAmount
<1>4. \A i \in 1..n : NetAmount(deposits[i], fees) = f[i]
  BY <1>1, <1>2, <1>3 DEF NetAmount, AmountsOf
<1>5. NetAmounts(deposits, fees) = f
  BY <1>1, <1>4 DEF NetAmounts, AmountsOf
<1>6. k \in Nat /\ k <= n /\ first - 1 \in 0..n /\ first..k \subseteq 1..n
  <2>1. k \in Nat /\ first \in Nat /\ first > 0 /\ k <= n
    BY <1>1, StopsInRange
  <2> QED BY <1>1, <2>1
<1>7. NetsFit(deposits, fees, first, k)
  <2> HIDE DEF n, f
  <2>1. \A i \in first..k : NetAmount(deposits[i], fees) = f[i] /\ f[i] \in Nat
    BY <1>1, <1>4, <1>6
  <2> QED BY <2>1 DEF NetsFit
<1>8. /\ w.paid = SumOver(f, first..k) + rest
      /\ w.drained = SumOver(f, first..k)
      /\ w.rest = rest
      /\ w.fee = WithdrawalFee(deposits, fees, first, k, rest)
  BY <1>5 DEF Withdrawal, AmountsOf
<1>9. SumOver(f, first..k) + rest = amount /\ rest \in Int
                                           /\ SumOver(f, first..k) \in Nat
  <2>1. SumOver(f, first..k) \in Nat
    <3> HIDE DEF n, f
    <3>1. IsFiniteSet(first..k) /\ \A i \in first..k : f[i] \in Int
      BY <1>1, <1>6, FS_Interval
    <3> QED BY <3>1, UnitsFinite
  <2>2. CASE k < n
    <3>1. rest = amount - SumOver(f, first..k)
      BY <1>5, <2>2 DEF Remainder
    <3> HIDE DEF f, rest
    <3> QED BY <2>1, <3>1
  <2>3. CASE k = n
    <3>1. rest = 0
      BY <2>3 DEF Remainder
    <3> HIDE DEF n, f, rest
    <3>2. SumOver(f, 1..(first - 1)) = 0
      <4>1. \A i \in 1..(first - 1) : i \in DOMAIN deposits
        BY <1>1, <1>6
      <4>2. \A i \in 1..(first - 1) : f[i] = 0
        BY <4>1 DEF f, AmountsOf
      <4> QED BY <4>2, SumOfZeros
    <3>3. /\ 1..n = (1..(first - 1)) \cup (first..n)
          /\ (1..(first - 1)) \cap (first..n) = {}
          /\ IsFiniteSet(1..(first - 1)) /\ IsFiniteSet(first..n)
      <4> DEFINE m == first - 1
      <4>1. m \in 0..n /\ first = m + 1
        BY <1>6
      <4> HIDE DEF m
      <4>2. /\ 1..n = (1..m) \cup (first..n) /\ (1..m) \cap (first..n) = {}
            /\ IsFiniteSet(1..m) /\ IsFiniteSet(first..n)
        BY <1>1, <4>1, IntervalSplits
      <4> QED BY <4>2 DEF m
    <3>4. SumOver(f, 1..n) = SumOver(f, 1..(first - 1)) + SumOver(f, first..n)
      <4>1. \A i \in (1..(first - 1)) \cup (first..n) : f[i] \in Int
        BY <1>1, <3>3
      <4>2. SumOver(f, (1..(first - 1)) \cup (first..n))
              = SumOver(f, 1..(first - 1)) + SumOver(f, first..n)
        BY <3>3, <4>1, SumOfParts
      <4> QED BY <3>3, <4>2
    <3> QED BY <1>1, <2>1, <2>3, <3>1, <3>2, <3>4
  <2> QED BY <1>1, <1>6, <2>1, <2>2, <2>3
<1>10. w.fee = 0
  <2>1. SumOver(feeOf, first..k) = 0
    <3> HIDE DEF n, feeOf
    <3>1. \A i \in first..k : feeOf[i] = 0
      BY <1>3, <1>6
    <3> QED BY <3>1, SumOfZeros
  <2>2. CASE rest = 0
    BY <1>8, <2>1, <2>2 DEF WithdrawalFee
  <2>3. CASE rest # 0
    <3>1. rest \in Nat /\ k < n
      <4>1. rest \in Nat /\ (k = n => rest = 0)
        BY <1>7, RemainderIsCovered
      <4> HIDE DEF n, rest
      <4> QED BY <1>1, <1>6, <2>3, <4>1
    <3>2. k + 1 \in 1..n /\ deposits[k + 1].blockNumber \in Nat
      <4>1. k + 1 \in 1..n
        BY <1>1, <1>6, <3>1
      <4> QED BY <1>2, <4>1
    <3>3. FeeAmount(rest, WithdrawFeeRate(fees, deposits[k+1].blockNumber)) = 0
      BY <3>1, <3>2, NothingIsCharged
    <3> QED BY <1>8, <2>1, <2>3, <3>3 DEF WithdrawalFee
  <2> QED BY <2>2, <2>3
<1>11. FeesFit(deposits, fees, first, k, rest)
  <2>1. rest # 0 => k # n
    BY DEF Remainder
  <2>2. \A i \in 1..n : FeeFits(deposits[i], fees)
    <3>1. \A i \in 1..n : /\ deposits[i].amount * WithdrawFeeRate(fees, deposits[i].blockNumber) = 0
                          /\ NetAmount(deposits[i], fees) >= 0
      <4>1. \A i \in 1..n : deposits[i].amount * WithdrawFeeRate(fees, deposits[i].blockNumber) = 0
        BY <1>2, NothingIsCharged
      <4> HIDE DEF n, f
      <4> QED BY <1>1, <1>4, <4>1
    <3>2. 0 <= MaxUint128
      BY WidthAssumption
    <3> QED BY <3>1, <3>2 DEF FeeFits
  <2> HIDE DEF n, rest
  <2>3. rest # 0 => first..(k + 1) \subseteq 1..n
    BY <1>1, <1>6, <2>1
  <2> QED BY <1>6, <2>2, <2>3 DEF FeesFit
<1> HIDE DEF w, rest, f
<1> QED BY <1>8, <1>9, <1>10, <1>11 DEF w

(* Withdraw(u, Stake(u)) empties the deposits up to k: none of its checked *)
(* operations reverts, the pool has the tokens, and what is paid is the    *)
(* whole stake, without a fee.                                             *)
ExitPaysStake(u, k) ==
    LET deposits == usersData[u].deposits
        first    == usersData[u].nextDepositIdToRemove
        w        == Withdrawal(deposits, withdrawFees, first, Stake(u), k)
        afterW   == Transfer(balance, PoolAddr, u, w.paid)
    IN  /\ k \in (first - 1)..Len(deposits)
        /\ DrainsThrough(deposits, withdrawFees, first, Stake(u), k)
        /\ FeesFit(deposits, withdrawFees, first, k, w.rest)
        /\ StakeDebit(w) <= Stake(u)
        /\ TotalDebit(w) <= totalAmount
        /\ Covers(balance, PoolAddr, w.paid)
        /\ Covers(afterW, PoolAddr, w.fee)
        /\ w.paid = Stake(u) /\ w.fee = 0

(* Nor does a checked operation of the settlements that come first.        *)
ExitOpen(u) == SettlementFits(u, VisitsOfWithdraw) /\ \E k \in Nat : ExitPaysStake(u, k)

(* A stake is an amount. *)
LEMMA StakeIsAmount ==
    ASSUME TypeOK, NEW u \in Users
    PROVE  Stake(u) \in Nat
BY UsersAreAccounts DEF TypeOK, UserData, Stake

(* That is all a paused withdrawal asks for: it can set all variables.     *)
LEMMA OpenExitIsAStep ==
    ASSUME TypeOK, paused, NEW u \in Users,
           SettlementFits(u, VisitsOfWithdraw), NEW k \in Nat, ExitPaysStake(u, k),
           LET w == Withdrawal(usersData[u].deposits, withdrawFees,
                               usersData[u].nextDepositIdToRemove, Stake(u), k)
           IN  /\ rewardsPerTokenBP'
                    = [a \in Accounts |-> IndexAfter(a, VisitsOfWithdraw[a])]
               /\ totalAmount' = totalAmount - TotalDebit(w)
               /\ balance' = Transfer(Transfer(balance, PoolAddr, u, w.paid),
                                      PoolAddr, FeeRecipient, w.fee)
               /\ usersData' = [SettledUsers(u, VisitsOfWithdraw) EXCEPT
                                  ![u] = AfterWithdrawal(@, w)]
               /\ UNCHANGED <<block, configVars, indexVars, usersWithBoosterPacks,
                              packVars>>
    PROVE  Withdraw(u, Stake(u))
<1>1. Stake(u) <= Stake(u)
  <2>1. Stake(u) \in Nat
    BY StakeIsAmount
  <2> QED BY ONLY <2>1
<1>2. Settle(u, VisitsOfWithdraw)
  BY DEF Settle
<1>3. UpdateUnlessPaused
  BY DEF UpdateUnlessPaused
<1> QED BY <1>1, <1>2, <1>3 DEF Withdraw, ExitPaysStake

(* A paused withdrawal visits no booster, and reverts in none. *)
LEMMA PausedSettlementFits ==
    ASSUME TypeOK, paused, NEW u \in Users
    PROVE  SettlementFits(u, VisitsOfWithdraw)
<1>1. VisitsOfWithdraw = NoVisits
  BY DEF VisitsOfWithdraw
<1>2. ASSUME NEW a \in Accounts
      PROVE  VisitsFit(u, a, 0) /\ Boost(u, a, 0) \in StoredBoost
  <2>1. usersData[a] \in UserData /\ rewardsPerTokenBP[a] \in Uint128
    BY DEF TypeOK
  <2>2. rewardsPerTokenBP[a] \in Nat /\ usersData[a].accumRewardsBP \in Nat
        /\ usersData[a].claimableRewardsBP \in Nat
    BY <2>1 DEF UserData, Uint128, Uint64
  <2>3. IndexAfter(a, 0) = rewardsPerTokenBP[a]
    BY <2>2 DEF IndexAfter
  <2>4. CreditAfter(u, a, 0) = usersData[a].claimableRewardsBP
    BY DEF CreditAfter
  <2>5. AccumAfter(u, a, 0) = usersData[a].accumRewardsBP
    BY <2>2, <2>4 DEF AccumAfter
  <2>6. Boost(u, a, 0) \in StoredBoost
    BY <2>1, <2>3, <2>4, <2>5 DEF Boost, StoredBoost, Activation, UserData
  <2>7. VisitsFit(u, a, 0)
    BY DEF VisitsFit
  <2> QED BY <2>6, <2>7
<1>3. \A a \in Accounts : NoVisits[a] = 0
  BY DEF NoVisits
<1> QED BY <1>1, <1>2, <1>3 DEF SettlementFits

(* What the exit of every staker rests on. *)
ExitInv == /\ TypeOK /\ TotalCoversStakes /\ Backed(usersData)
           /\ EarlierDepositsEmpty /\ FreeOfFees /\ PoolBacksStakes

(* The loop finds a stop, drains at most what the deposits hold, and that  *)
(* is the stake: no more than _totalAmount, and no more than the pool has. *)
LEMMA StakeCanLeave ==
    ASSUME ExitInv, NEW u \in Users
    PROVE  \E k \in Nat : ExitPaysStake(u, k)
<1> DEFINE deposits == usersData[u].deposits
           first    == usersData[u].nextDepositIdToRemove
<1>1. u \in Accounts /\ PoolAddr \in Accounts /\ PoolAddr # u
  BY UsersAreAccounts, PoolAssumption
<1>2. /\ deposits \in Deposits /\ first \in Nat \ {0} /\ withdrawFees \in Fees
      /\ Stake(u) \in Nat /\ balance \in [Accounts -> Nat]
      /\ totalAmount \in Nat
  <2>1. deposits \in Deposits /\ first \in Nat \ {0} /\ Stake(u) \in Nat
    BY <1>1 DEF ExitInv, TypeOK, UserData, Deposits, DepositData, Stake
  <2>2. withdrawFees \in Fees /\ balance \in [Accounts -> Nat]
    BY DEF ExitInv, TypeOK, Fees
  <2>3. totalAmount \in Nat
    BY WidthAssumption DEF ExitInv, TypeOK, Uint128
  <2> QED BY <2>1, <2>2, <2>3
<1>3. /\ first <= Len(deposits) + 1 /\ \A i \in 1..(first - 1) : deposits[i].amount = 0
      /\ Stake(u) = SumOfDeposits(deposits)
      /\ \A i \in DOMAIN withdrawFees : withdrawFees[i].fee = 0
  BY <1>1 DEF ExitInv, EarlierDepositsEmpty, EmptyBefore, Backed, FreeOfFees, Stake
<1>4. Stake(u) <= Stakes /\ Stakes \in Nat
  <2>1. /\ StakesIn(usersData) \in [Accounts -> Nat]
        /\ SumOver(StakesIn(usersData), Accounts) \in Nat
    BY StakesAreTyped DEF ExitInv, TypeOK
  <2>2. StakesIn(usersData)[u] = Stake(u) /\ Stakes = SumOver(StakesIn(usersData), Accounts)
    BY <1>1 DEF Stakes, Stake, StakesIn
  <2> QED BY <1>1, <2>1, <2>2, FiniteAccounts, SumBoundsEach
<1>5. Stake(u) <= totalAmount /\ Stake(u) <= balance[PoolAddr] /\ balance[PoolAddr] \in Nat
  BY <1>1, <1>2, <1>4 DEF ExitInv, TotalCoversStakes, PoolBacksStakes
<1> HIDE DEF deposits, first
<1>6. PICK k \in (first - 1)..Len(deposits) :
         DrainsThrough(deposits, withdrawFees, first, Stake(u), k)
  BY <1>2, <1>3, LoopStops
<1> DEFINE w      == Withdrawal(deposits, withdrawFees, first, Stake(u), k)
           afterW == Transfer(balance, PoolAddr, u, w.paid)
<1>7. /\ FeesFit(deposits, withdrawFees, first, k, w.rest)
      /\ w.paid = Stake(u) /\ w.fee = 0 /\ w.drained + w.rest = Stake(u)
  BY <1>2, <1>3, <1>6, FullWithdrawalPaysAll
<1>8. w.drained \in Nat /\ w.rest \in Nat
  <2>1. k \in Int
    BY <1>2, <1>6, StopsInRange, RowsOfSequence DEF Deposits
  <2>2. NetsFit(deposits, withdrawFees, first, k)
    BY <1>7, <2>1, FittingNets
  <2> QED BY <1>2, <1>6, <2>2, WithdrawalIsTyped
<1> HIDE DEF w
<1>9. StakeDebit(w) <= Stake(u) /\ TotalDebit(w) <= totalAmount
  BY <1>2, <1>5, <1>7, <1>8 DEF StakeDebit, TotalDebit
<1>10. Covers(balance, PoolAddr, w.paid)
  BY <1>5, <1>7 DEF Covers
<1>11. Covers(afterW, PoolAddr, w.fee)
  <2>1. afterW[PoolAddr] = balance[PoolAddr] - w.paid
    <3>1. w.paid \in Nat
      BY <1>2, <1>7
    <3> QED BY ONLY <1>1, <1>2, <3>1, TransferMoves
  <2> HIDE DEF afterW
  <2> QED BY <1>2, <1>5, <1>7, <2>1 DEF Covers
<1>12. k \in Nat
  BY <1>2, <1>6, StopsInRange, RowsOfSequence DEF Deposits
<1>13. ExitPaysStake(u, k)
  BY <1>6, <1>7, <1>9, <1>10, <1>11 DEF ExitPaysStake, w, deposits, first
<1> QED BY <1>12, <1>13

(* The guards of PausedExitOpen.  A paused pool without withdraw fees pays *)
(* every staker the whole stake, whatever deposits, partial withdrawals,   *)
(* boosters and pauses came before, and whoever left first.                *)
THEOREM PausedExitIsCovered ==
    NoWithdrawFees => (Spec => [](paused => \A u \in Users : ExitOpen(u)))
<1> SUFFICES ASSUME NoWithdrawFees
             PROVE  Spec => [](paused => \A u \in Users : ExitOpen(u))
  OBVIOUS
<1>1. Init => EarlierDepositsEmpty
  BY DEF Init, EarlierDepositsEmpty, EmptyBefore, NoUserData
<1>2. Init => FreeOfFees
  BY DEF Init, FreeOfFees, NoWithdrawFees
<1>3. Init => Backed(usersData)
  BY InitIsBacked
<1>4. ExitInv /\ [Next]_vars
        => (TypeOK /\ TotalCoversStakes /\ EarlierDepositsEmpty /\ FreeOfFees)'
  BY NextIsTyped, NextKeepsTotal, NextTakesInOrder, NextIsFreeOfFees DEF ExitInv
<1>5. ExitInv /\ [Next]_vars => Backed(usersData)'
  BY NextKeepsBacked DEF ExitInv
<1>6. ExitInv <=> /\ TypeOK /\ TotalCoversStakes /\ Backed(usersData)
                  /\ EarlierDepositsEmpty /\ FreeOfFees /\ PoolBacksStakes
  BY DEF ExitInv
<1>7. ExitInv => (paused => \A u \in Users : ExitOpen(u))
  BY StakeCanLeave, PausedSettlementFits DEF ExitOpen, ExitInv
<1> QED BY <1>1, <1>2, <1>3, <1>4, <1>5, <1>6, <1>7, TypeCorrect, TotalCorrect,
           StakesAreHeld, PTL DEF Spec
=============================================================================
