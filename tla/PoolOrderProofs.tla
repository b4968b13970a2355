-------------------------- MODULE PoolOrderProofs --------------------------
(***************************************************************************)
(* Theorems about the order in which Pool does things: settlements and     *)
(* activations, the list of boosters and the packs that are burned for it, *)
(* the deposits a withdrawal empties, and what a paused pool lets its      *)
(* users do.  None of the invariants is inductive without TypeOK, which    *)
(* PoolProofs proves.                                                      *)
(***************************************************************************)
EXTENDS PoolProofs

-----------------------------------------------------------------------------
(* What a settlement does to an account. *)

(* A pack that is active after a settlement was active before, since the   *)
(* same block.                                                             *)
LEMMA SettlementKeepsOrExpires ==
    ASSUME NEW caller, NEW visits, NEW a \in Accounts, TypeOK,
           SettledUsers(caller, visits)[a].activeBoosterPack # 0
    PROVE  /\ SettledUsers(caller, visits)[a].activeBoosterPack
                = usersData[a].activeBoosterPack
           /\ SettledUsers(caller, visits)[a].boosterPackActivationBlock
                = usersData[a].boosterPackActivationBlock
<1> DEFINE boost == Boost(caller, a, visits[a])
<1>1. /\ SettledUsers(caller, visits)[a].activeBoosterPack = boost.pack
      /\ SettledUsers(caller, visits)[a].boosterPackActivationBlock = boost.start
  <2>1. usersData[a] \in UserData
    BY DEF TypeOK
  <2>2. SettledUsers(caller, visits)[a] =
          [usersData[a] EXCEPT !.claimableRewardsBP = boost.claimable,
                               !.accumRewardsBP = boost.accum,
                               !.activeBoosterPack = boost.pack,
                               !.boosterPackActivationBlock = boost.start]
    BY DEF SettledUsers
  <2> HIDE DEF boost
  <2> QED BY <2>1, <2>2 DEF UserData
<1>2. \/ boost.pack = 0
      \/ boost.pack = usersData[a].activeBoosterPack
           /\ boost.start = usersData[a].boosterPackActivationBlock
  BY DEF Boost, Expire, Activation
<1> QED BY <1>1, <1>2

(* An account that is not visited earns nothing and keeps its pack. *)
LEMMA UnvisitedKeepsAll ==
    ASSUME NEW caller, NEW visits, NEW a \in Accounts, TypeOK, visits[a] = 0
    PROVE  /\ SettledUsers(caller, visits)[a].accumRewardsBP
                = usersData[a].accumRewardsBP
           /\ SettledUsers(caller, visits)[a].activeBoosterPack
                = usersData[a].activeBoosterPack
           /\ IndexAfter(a, visits[a]) = rewardsPerTokenBP[a]
<1>1. usersData[a] \in UserData /\ rewardsPerTokenBP[a] \in Nat
  BY DEF TypeOK, Uint128
<1>2. IndexAfter(a, visits[a]) = rewardsPerTokenBP[a]
  BY <1>1 DEF IndexAfter
<1> DEFINE boost == Boost(caller, a, visits[a])
<1>3. boost.pack = usersData[a].activeBoosterPack
  BY DEF Boost, Activation
<1>4. boost.accum = usersData[a].accumRewardsBP
  <2>1. usersData[a].accumRewardsBP \in Nat /\ usersData[a].claimableRewardsBP \in Nat
    BY <1>1 DEF UserData, Uint64
  <2>2. boost.accum = AccumAfter(caller, a, visits[a])
    BY DEF Boost
  <2>3. CreditAfter(caller, a, visits[a]) = usersData[a].claimableRewardsBP
    BY DEF CreditAfter
  <2> QED BY <2>1, <2>2, <2>3 DEF AccumAfter
<1>5. SettledUsers(caller, visits)[a] =
          [usersData[a] EXCEPT !.claimableRewardsBP = boost.claimable,
                               !.accumRewardsBP = boost.accum,
                               !.activeBoosterPack = boost.pack,
                               !.boosterPackActivationBlock = boost.start]
  BY DEF SettledUsers
<1> HIDE DEF boost
<1> QED BY <1>1, <1>2, <1>3, <1>4, <1>5 DEF UserData

-----------------------------------------------------------------------------
(* SettlementsInOrder. *)

(* The index never falls, and a settlement never moves the last settled    *)
(* block back.                                                             *)
LEMMA IndexMovesForward ==
    ASSUME TypeOK, SettlementsInOrder, UNCHANGED block,
           UpdateRewardsPerToken \/ UpdateUnlessPaused
    PROVE  /\ rewardsPerToken <= rewardsPerToken'
           /\ lastBlockUpdated <= lastBlockUpdated' /\ lastBlockUpdated' <= block'
<1>1. rewardsPerToken <= rewardsPerToken'
  BY IndexIsTyped
<1>2. lastBlockUpdated' = block \/ lastBlockUpdated' = lastBlockUpdated
  BY DEF UpdateRewardsPerToken, UpdateUnlessPaused, indexVars
<1> QED BY <1>1, <1>2 DEF TypeOK, SettlementsInOrder

(* What has to be shown of a transaction: every account keeps its starting *)
(* index or takes one that is not ahead, and keeps its activation, has     *)
(* none, or activates a pack in a block that is settled.                   *)
LEMMA OrderIsKept ==
    ASSUME TypeOK, TypeOK', SettlementsInOrder, UNCHANGED block,
           UpdateRewardsPerToken \/ UpdateUnlessPaused,
           \A a \in Accounts :
             /\ \/ usersData'[a].rewardsPerToken = usersData[a].rewardsPerToken
                \/ usersData'[a].rewardsPerToken = rewardsPerToken'
             /\ \/ usersData'[a].activeBoosterPack = 0
                \/ /\ usersData'[a].activeBoosterPack = usersData[a].activeBoosterPack
                   /\ usersData'[a].boosterPackActivationBlock
                        = usersData[a].boosterPackActivationBlock
                \/ usersData'[a].boosterPackActivationBlock = lastBlockUpdated'
    PROVE  SettlementsInOrder'
<1>1. /\ rewardsPerToken <= rewardsPerToken'
      /\ lastBlockUpdated <= lastBlockUpdated' /\ lastBlockUpdated' <= block'
  BY IndexMovesForward
<1>2. ASSUME NEW a \in Accounts
      PROVE  usersData'[a].rewardsPerToken <= rewardsPerToken'
  <2>1. /\ usersData[a].rewardsPerToken <= rewardsPerToken
        /\ usersData[a].rewardsPerToken \in Nat
        /\ rewardsPerToken \in Nat /\ rewardsPerToken' \in Nat
    BY DEF SettlementsInOrder, TypeOK, UserData, Uint128
  <2> QED BY <1>1, <2>1
<1>3. ASSUME NEW a \in Accounts, usersData'[a].activeBoosterPack # 0
      PROVE  usersData'[a].boosterPackActivationBlock <= lastBlockUpdated'
  <2>1. /\ lastBlockUpdated \in Nat /\ lastBlockUpdated' \in Nat
        /\ usersData[a].boosterPackActivationBlock \in Nat
    BY DEF TypeOK, UserData
  <2>2. usersData[a].activeBoosterPack # 0
          => usersData[a].boosterPackActivationBlock <= lastBlockUpdated
    BY DEF SettlementsInOrder
  <2> QED BY <1>1, <1>3, <2>1, <2>2
<1> QED BY <1>1, <1>2, <1>3 DEF SettlementsInOrder

(* Nothing is settled at the start. *)
LEMMA InitIsInOrder == Init => SettlementsInOrder
<1> SUFFICES ASSUME Init PROVE SettlementsInOrder
  OBVIOUS
<1>1. \A a \in Accounts : usersData[a] = NoUserData
  BY DEF Init
<1>2. lastBlockUpdated = 0 /\ block = 1 /\ rewardsPerToken = 0
  BY DEF Init
<1> QED BY <1>1, <1>2 DEF SettlementsInOrder, NoUserData

(* A first deposit starts at the index of its own block. *)
LEMMA DepositKeepsOrder ==
    ASSUME TypeOK, TypeOK', SettlementsInOrder,
           NEW u \in Users, NEW amount \in Amounts, Deposit(u, amount)
    PROVE  SettlementsInOrder'
<1> DEFINE deposited == amount - FeeAmount(amount, Thousandths(depositFee))
           settled   == SettledUsers(u, CalcBPRewards)
<1>1. u \in Accounts
  BY UsersAreAccounts
<1>2. /\ settled \in [Accounts -> UserData]
      /\ \A a \in Accounts : settled[a].rewardsPerToken = usersData[a].rewardsPerToken
  BY SettlementIsTyped DEF Deposit
<1>3. \A a \in Accounts : settled[a].activeBoosterPack # 0
        => /\ settled[a].activeBoosterPack = usersData[a].activeBoosterPack
           /\ settled[a].boosterPackActivationBlock
                = usersData[a].boosterPackActivationBlock
  BY SettlementKeepsOrExpires
<1>4. usersData' = [settled EXCEPT
                      ![u] = AfterDeposit(settled[u], deposited, rewardsPerToken')]
  BY DEF Deposit
<1> HIDE DEF settled, deposited
<1>5. \A a \in Accounts :
        /\ usersData'[a].activeBoosterPack = settled[a].activeBoosterPack
        /\ usersData'[a].boosterPackActivationBlock = settled[a].boosterPackActivationBlock
        /\ \/ usersData'[a].rewardsPerToken = settled[a].rewardsPerToken
           \/ usersData'[a].rewardsPerToken = rewardsPerToken'
  BY <1>1, <1>2, <1>4 DEF AfterDeposit, UserData
<1>6. UpdateRewardsPerToken /\ UNCHANGED block
  BY DEF Deposit
<1> QED BY <1>2, <1>3, <1>5, <1>6, OrderIsKept

(* withdraw settles up to the current block, or not at all. *)
LEMMA WithdrawKeepsOrder ==
    ASSUME TypeOK, TypeOK', SettlementsInOrder,
           NEW u \in Users, NEW amount \in Amounts, Withdraw(u, amount)
    PROVE  SettlementsInOrder'
<1> DEFINE settled == SettledUsers(u, VisitsOfWithdraw)
<1>1. u \in Accounts
  BY UsersAreAccounts
<1>2. /\ settled \in [Accounts -> UserData]
      /\ \A a \in Accounts : settled[a].rewardsPerToken = usersData[a].rewardsPerToken
  BY SettlementIsTyped DEF Withdraw
<1>3. \A a \in Accounts : settled[a].activeBoosterPack # 0
        => /\ settled[a].activeBoosterPack = usersData[a].activeBoosterPack
           /\ settled[a].boosterPackActivationBlock
                = usersData[a].boosterPackActivationBlock
  BY SettlementKeepsOrExpires
<1>4. \E w : usersData' = [settled EXCEPT ![u] = AfterWithdrawal(settled[u], w)]
  BY DEF Withdraw
<1> HIDE DEF settled
<1>5. \A a \in Accounts :
        /\ usersData'[a].activeBoosterPack = settled[a].activeBoosterPack
        /\ usersData'[a].boosterPackActivationBlock = settled[a].boosterPackActivationBlock
        /\ usersData'[a].rewardsPerToken = settled[a].rewardsPerToken
  BY <1>1, <1>2, <1>4 DEF AfterWithdrawal, UserData
<1>6. UpdateUnlessPaused /\ UNCHANGED block
  BY DEF Withdraw
<1> QED BY <1>2, <1>3, <1>5, <1>6, OrderIsKept

(* claimRewards activates nothing and moves the index forward. *)
LEMMA ClaimKeepsOrder ==
    ASSUME TypeOK, TypeOK', SettlementsInOrder,
           NEW caller \in Callers, NEW user \in Users, ClaimRewards(caller, user)
    PROVE  SettlementsInOrder'
<1> DEFINE visits  == IF paused THEN NoVisits ELSE CheckBPExpired(user)
           total   == TotalRewards(user, rewardsPerToken')
           settled == SettledUsers(caller, visits)
<1>1. user \in Accounts
  BY UsersAreAccounts
<1>2. Settle(caller, visits)
      /\ usersData' = [settled EXCEPT ![user] = AfterClaim(settled[user], total)]
  BY DEF ClaimRewards
<1> HIDE DEF visits
<1>3. /\ settled \in [Accounts -> UserData]
      /\ \A a \in Accounts : settled[a].rewardsPerToken = usersData[a].rewardsPerToken
  BY <1>2, SettlementIsTyped
<1>4. \A a \in Accounts : settled[a].activeBoosterPack # 0
        => /\ settled[a].activeBoosterPack = usersData[a].activeBoosterPack
           /\ settled[a].boosterPackActivationBlock
                = usersData[a].boosterPackActivationBlock
  BY SettlementKeepsOrExpires
<1> HIDE DEF settled, total
<1>5. \A a \in Accounts :
        /\ usersData'[a].activeBoosterPack = settled[a].activeBoosterPack
        /\ usersData'[a].boosterPackActivationBlock = settled[a].boosterPackActivationBlock
        /\ usersData'[a].rewardsPerToken = settled[a].rewardsPerToken
  BY <1>1, <1>2, <1>3 DEF AfterClaim, UserData
<1>6. UpdateUnlessPaused /\ UNCHANGED block
  BY DEF ClaimRewards
<1> QED BY <1>3, <1>4, <1>5, <1>6, OrderIsKept

(* burnBP settles before it activates. *)
LEMMA BurnKeepsOrder ==
    ASSUME TypeOK, TypeOK', SettlementsInOrder,
           NEW u \in Users, NEW id \in PackIds \cap Slots, BurnBP(u, id)
    PROVE  SettlementsInOrder'
<1> DEFINE settled == SettledUsers(u, CheckBPExpired(u))
<1>1. u \in Accounts
  BY UsersAreAccounts
<1>2. /\ settled \in [Accounts -> UserData]
      /\ \A a \in Accounts : settled[a].rewardsPerToken = usersData[a].rewardsPerToken
  BY SettlementIsTyped DEF BurnBP
<1>3. \A a \in Accounts : settled[a].activeBoosterPack # 0
        => /\ settled[a].activeBoosterPack = usersData[a].activeBoosterPack
           /\ settled[a].boosterPackActivationBlock
                = usersData[a].boosterPackActivationBlock
  BY SettlementKeepsOrExpires
<1>4. usersData' = [settled EXCEPT ![u] = AfterBurn(settled[u], id)]
  BY DEF BurnBP
<1>5. UpdateRewardsPerToken /\ UNCHANGED block /\ lastBlockUpdated' = block
  BY DEF BurnBP, UpdateRewardsPerToken
<1> HIDE DEF settled
<1>6. \A a \in Accounts :
        /\ usersData'[a].rewardsPerToken = settled[a].rewardsPerToken
        /\ \/ /\ usersData'[a].activeBoosterPack = settled[a].activeBoosterPack
              /\ usersData'[a].boosterPackActivationBlock
                   = settled[a].boosterPackActivationBlock
           \/ usersData'[a].boosterPackActivationBlock = block
  BY <1>1, <1>2, <1>4 DEF AfterBurn, UserData
<1> QED BY <1>2, <1>3, <1>5, <1>6, OrderIsKept

(* pause settles as a deposit does. *)
LEMMA PauseKeepsOrder ==
    ASSUME TypeOK, TypeOK', SettlementsInOrder, Pause
    PROVE  SettlementsInOrder'
<1> DEFINE settled == SettledUsers(Owner, CalcBPRewards)
<1>1. \A a \in Accounts : settled[a].rewardsPerToken = usersData[a].rewardsPerToken
  BY SettlementIsTyped DEF Pause
<1>2. \A a \in Accounts : settled[a].activeBoosterPack # 0
        => /\ settled[a].activeBoosterPack = usersData[a].activeBoosterPack
           /\ settled[a].boosterPackActivationBlock
                = usersData[a].boosterPackActivationBlock
  BY SettlementKeepsOrExpires
<1>3. usersData' = settled /\ UpdateRewardsPerToken /\ UNCHANGED block
  BY DEF Pause
<1> HIDE DEF settled
<1> QED BY <1>1, <1>2, <1>3, OrderIsKept

(* The setters of the owner touch neither stakes nor indexes. *)
LEMMA SettersKeepStakes ==
    ASSUME OwnerStep
    PROVE  Pause \/ UNCHANGED <<block, indexVars, stakeVars, boostVars, balance, packVars>>
BY DEF OwnerStep, Unpause, UpdateBaseRateTokensPerBlock, UpdateDepositFee,
       AddRewardsMultiplier, UpdateRewardsMultiplier, RemoveRewardsMultiplier,
       ChangeRewardsMultipliers, AddWithdrawFee, UpdateWithdrawFee,
       RemoveWithdrawFee, ChangeWithdrawFees

(* Every step keeps settlements in order. *)
LEMMA NextKeepsOrder ==
    ASSUME TypeOK, TypeOK', SettlementsInOrder, [Next]_vars
    PROVE  SettlementsInOrder'
<1>1. CASE UserStep
  BY <1>1, DepositKeepsOrder, WithdrawKeepsOrder, ClaimKeepsOrder, BurnKeepsOrder
     DEF UserStep
<1>2. CASE Pause
  BY <1>2, PauseKeepsOrder
<1>3. CASE /\ UNCHANGED <<indexVars, stakeVars>>
           /\ block' = block \/ block' = block + 1
  <2>1. block \in Nat /\ lastBlockUpdated \in Nat
    BY DEF TypeOK
  <2> QED BY <1>3, <2>1 DEF SettlementsInOrder, indexVars, stakeVars
<1>4. UserStep \/ Pause \/ /\ UNCHANGED <<indexVars, stakeVars>>
                           /\ block' = block \/ block' = block + 1
  BY SettersKeepStakes DEF Next, NextBlock, PackStep, vars, poolVars
<1> QED BY <1>1, <1>2, <1>3, <1>4

(* Settlements never run ahead of the chain, no user's starting index is   *)
(* ahead of the pool's (the subtraction in claimRewards cannot underflow   *)
(* there), and the walk that moves the index of an active booster starts   *)
(* at or after its activation.                                             *)
THEOREM OrderCorrect == Spec => []SettlementsInOrder
BY TypeCorrect, InitIsInOrder, NextKeepsOrder, PTL DEF Spec

-----------------------------------------------------------------------------
(* BoosterRegistered. *)

(* Account a has an entry in the list. *)
Registered(list, a) == \E i \in DOMAIN list : list[i] = a

(* The expiry test of one user takes nobody else off the list, and the     *)
(* user only when the pack has expired.                                    *)
LEMMA ListKeepsOthers ==
    ASSUME TypeOK, NEW user \in Accounts, NEW a \in Accounts,
           a # user \/ ~PackExpires(user),
           Registered(usersWithBoosterPacks, a)
    PROVE  Registered(ListAfterCheck(user), a)
<1>1. CASE ~PackExpires(user)
  BY <1>1 DEF ListAfterCheck
<1>2. CASE PackExpires(user) /\ a # user
  <2>1. PICK i \in DOMAIN usersWithBoosterPacks : usersWithBoosterPacks[i] = a
    BY DEF Registered
  <2>2. i \in DOMAIN ListAfterCheck(user) /\ ListAfterCheck(user)[i] = a
    BY <1>2, <2>1 DEF ListAfterCheck
  <2> QED BY <2>2 DEF Registered
<1> QED BY <1>1, <1>2

(* A user whose pack has expired has none after the visit of the test. *)
LEMMA VisitExpiresPack ==
    ASSUME TypeOK, NEW caller, NEW user \in Accounts, PackExpires(user)
    PROVE  SettledUsers(caller, CheckBPExpired(user))[user].activeBoosterPack = 0
<1> DEFINE visits == CheckBPExpired(user)
           boost  == Boost(caller, user, visits[user])
<1>1. visits[user] = 1
  BY DEF CheckBPExpired, NoVisits, PackExpires
<1>2. boost.pack = 0
  BY <1>1 DEF Boost, Expire, PackExpires, Activation, EndOf
<1>3. SettledUsers(caller, visits)[user] =
          [usersData[user] EXCEPT !.claimableRewardsBP = boost.claimable,
                                  !.accumRewardsBP = boost.accum,
                                  !.activeBoosterPack = boost.pack,
                                  !.boosterPackActivationBlock = boost.start]
  BY DEF SettledUsers
<1>4. usersData[user] \in UserData
  BY DEF TypeOK
<1> HIDE DEF boost, visits
<1>5. SettledUsers(caller, visits)[user].activeBoosterPack = 0
  BY <1>2, <1>3, <1>4 DEF UserData
<1> QED BY <1>5 DEF visits

(* Transactions that leave the list alone: no account gets a pack. *)
LEMMA RegisteredIsKept ==
    ASSUME TypeOK, BoosterRegistered, UNCHANGED usersWithBoosterPacks,
           \A a \in Accounts : usersData'[a].activeBoosterPack # 0
             => usersData[a].activeBoosterPack # 0
    PROVE  BoosterRegistered'
BY DEF BoosterRegistered

(* claimRewards takes a user off the list with the pack only. *)
LEMMA ClaimKeepsRegistered ==
    ASSUME TypeOK, BoosterRegistered,
           NEW caller \in Callers, NEW user \in Users, ClaimRewards(caller, user)
    PROVE  BoosterRegistered'
<1> DEFINE visits  == IF paused THEN NoVisits ELSE CheckBPExpired(user)
           total   == TotalRewards(user, rewardsPerToken')
           settled == SettledUsers(caller, visits)
<1>1. user \in Accounts
  BY UsersAreAccounts
<1>2. Settle(caller, visits)
      /\ usersData' = [settled EXCEPT ![user] = AfterClaim(settled[user], total)]
  BY DEF ClaimRewards
<1>3. settled \in [Accounts -> UserData]
  BY <1>2, SettlementIsTyped
<1>4. \A a \in Accounts : settled[a].activeBoosterPack # 0
        => usersData[a].activeBoosterPack # 0
  BY SettlementKeepsOrExpires
<1>5. \A a \in Accounts : usersData'[a].activeBoosterPack = settled[a].activeBoosterPack
  <2> HIDE DEF settled, total
  <2> QED BY <1>1, <1>2, <1>3 DEF AfterClaim, UserData
<1>6. CASE paused
  <2>1. UNCHANGED usersWithBoosterPacks
    BY <1>6 DEF ClaimRewards
  <2> HIDE DEF settled
  <2> QED BY <1>4, <1>5, <2>1, RegisteredIsKept
<1>7. CASE ~paused
  <2>1. usersWithBoosterPacks' = ListAfterCheck(user)
    BY <1>7 DEF ClaimRewards
  <2>2. PackExpires(user) => settled[user].activeBoosterPack = 0
    BY <1>1, <1>7, VisitExpiresPack
  <2> HIDE DEF settled
  <2> SUFFICES ASSUME NEW a \in Accounts, usersData'[a].activeBoosterPack # 0
               PROVE  Registered(ListAfterCheck(user), a)
    BY <2>1 DEF BoosterRegistered, Registered
  <2>3. a # user \/ ~PackExpires(user)
    BY <1>5, <2>2
  <2>4. Registered(usersWithBoosterPacks, a)
    BY <1>4, <1>5 DEF BoosterRegistered, Registered
  <2> QED BY <1>1, <2>3, <2>4, ListKeepsOthers
<1> QED BY <1>6, <1>7

(* burnBP registers the user whose pack it activates. *)
LEMMA BurnRegisters ==
    ASSUME TypeOK, BoosterRegistered,
           NEW u \in Users, NEW id \in PackIds \cap Slots, BurnBP(u, id)
    PROVE  BoosterRegistered'
<1> DEFINE settled == SettledUsers(u, CheckBPExpired(u))
           list    == ListAfterCheck(u)
<1>1. u \in Accounts
  BY UsersAreAccounts
<1>2. settled \in [Accounts -> UserData]
  BY SettlementIsTyped DEF BurnBP
<1>3. \A a \in Accounts : settled[a].activeBoosterPack # 0
        => usersData[a].activeBoosterPack # 0
  BY SettlementKeepsOrExpires
<1>4. usersData' = [settled EXCEPT ![u] = AfterBurn(settled[u], id)]
  BY DEF BurnBP
<1>5. list \in Seq(Accounts) /\ usersWithBoosterPacks' = Append(list, u)
  BY <1>1, ListIsTyped DEF BurnBP
<1>6. ASSUME NEW a \in Accounts, usersData'[a].activeBoosterPack # 0
      PROVE  Registered(Append(list, u), a)
  <2>1. CASE a = u
    <3> HIDE DEF list
    <3>1. Len(list) + 1 \in DOMAIN Append(list, u) /\ Append(list, u)[Len(list) + 1] = u
      BY <1>5
    <3> QED BY <2>1, <3>1 DEF Registered
  <2>2. CASE a # u
    <3>1. settled[a].activeBoosterPack # 0
      <4> HIDE DEF settled
      <4> QED BY <1>1, <1>2, <1>4, <1>6, <2>2
    <3>2. Registered(usersWithBoosterPacks, a)
      BY <1>3, <3>1 DEF BoosterRegistered, Registered
    <3>3. Registered(list, a)
      BY <1>1, <2>2, <3>2, ListKeepsOthers
    <3> HIDE DEF list
    <3>4. PICK i \in DOMAIN list : list[i] = a
      BY <3>3 DEF Registered
    <3>5. i \in DOMAIN Append(list, u) /\ Append(list, u)[i] = a
      BY <1>5, <3>4
    <3> QED BY <3>5 DEF Registered
  <2> QED BY <2>1, <2>2
<1> HIDE DEF list
<1> QED BY <1>5, <1>6 DEF BoosterRegistered, Registered

(* Every step keeps active boosters on the list. *)
LEMMA NextKeepsRegistered ==
    ASSUME TypeOK, BoosterRegistered, [Next]_vars
    PROVE  BoosterRegistered'
<1>1. ASSUME NEW u \in Users, NEW amount \in Amounts, Deposit(u, amount)
      PROVE  BoosterRegistered'
  <2> DEFINE settled == SettledUsers(u, CalcBPRewards)
             deposited == amount - FeeAmount(amount, Thousandths(depositFee))
  <2>1. u \in Accounts /\ settled \in [Accounts -> UserData]
    BY <1>1, UsersAreAccounts, SettlementIsTyped DEF Deposit
  <2>2. /\ usersData' = [settled EXCEPT
                           ![u] = AfterDeposit(settled[u], deposited, rewardsPerToken')]
        /\ UNCHANGED usersWithBoosterPacks
    BY <1>1 DEF Deposit
  <2>3. \A a \in Accounts : settled[a].activeBoosterPack # 0
          => usersData[a].activeBoosterPack # 0
    BY SettlementKeepsOrExpires
  <2> HIDE DEF settled, deposited
  <2>4. \A a \in Accounts : usersData'[a].activeBoosterPack = settled[a].activeBoosterPack
    BY <2>1, <2>2 DEF AfterDeposit, UserData
  <2> QED BY <2>2, <2>3, <2>4, RegisteredIsKept
<1>2. ASSUME NEW u \in Users, NEW amount \in Amounts, Withdraw(u, amount)
      PROVE  BoosterRegistered'
  <2> DEFINE settled == SettledUsers(u, VisitsOfWithdraw)
  <2>1. u \in Accounts /\ settled \in [Accounts -> UserData]
    BY <1>2, UsersAreAccounts, SettlementIsTyped DEF Withdraw
  <2>2. /\ \E w : usersData' = [settled EXCEPT ![u] = AfterWithdrawal(settled[u], w)]
        /\ UNCHANGED usersWithBoosterPacks
    BY <1>2 DEF Withdraw
  <2>3. \A a \in Accounts : settled[a].activeBoosterPack # 0
          => usersData[a].activeBoosterPack # 0
    BY SettlementKeepsOrExpires
  <2> HIDE DEF settled
  <2>4. \A a \in Accounts : usersData'[a].activeBoosterPack = settled[a].activeBoosterPack
    BY <2>1, <2>2 DEF AfterWithdrawal, UserData
  <2> QED BY <2>2, <2>3, <2>4, RegisteredIsKept
<1>3. CASE UserStep
  BY <1>1, <1>2, <1>3, ClaimKeepsRegistered, BurnRegisters DEF UserStep
<1>4. CASE Pause
  <2>1. usersData' = SettledUsers(Owner, CalcBPRewards) /\ UNCHANGED usersWithBoosterPacks
    BY <1>4 DEF Pause
  <2> QED BY <2>1, SettlementKeepsOrExpires, RegisteredIsKept
<1>5. CASE UNCHANGED <<usersData, usersWithBoosterPacks>>
  BY <1>5 DEF BoosterRegistered
<1>6. UserStep \/ Pause \/ UNCHANGED <<usersData, usersWithBoosterPacks>>
  BY SettersKeepStakes
     DEF Next, NextBlock, PackStep, vars, poolVars, stakeVars, boostVars
<1> QED BY <1>3, <1>4, <1>5, <1>6

(* Every user with an active pack is on the list that the settlements of   *)
(* the other transactions walk: the hole that an expired pack leaves never *)
(* takes the place of another user, or of a pack that is still active.     *)
THEOREM BoostersAreRegistered == Spec => []BoosterRegistered
<1>1. Init => BoosterRegistered
  <2> SUFFICES ASSUME Init PROVE BoosterRegistered
    OBVIOUS
  <2>1. \A a \in Accounts : usersData[a] = NoUserData
    BY DEF Init
  <2> QED BY <2>1 DEF BoosterRegistered, NoUserData
<1> QED BY <1>1, TypeCorrect, NextKeepsRegistered, PTL DEF Spec

-----------------------------------------------------------------------------
(* Packs: WhitelistGovernsPacks, OnePackPerActivation, MintedPackExists. *)

Holdings == Accounts \X PackIds

Packs == [Accounts -> [PackIds -> Nat]]

PacksIn(packs) == [p \in Holdings |-> packs[p[1]][p[2]]]

(* The packs together move with the one holding that moves. *)
LEMMA SupplyMovesWithOne ==
    ASSUME NEW packs \in Packs, NEW a \in Accounts, NEW id \in PackIds, NEW n \in Nat
    PROVE  LET after == [packs EXCEPT ![a][id] = n]
           IN  /\ after \in Packs /\ after[a][id] = n
               /\ PackSupply(packs) \in Nat /\ PackSupply(after) \in Nat
               /\ PackSupply(after) - n = PackSupply(packs) - packs[a][id]
<1> DEFINE after == [packs EXCEPT ![a][id] = n]
<1>1. IsFiniteSet(Holdings)
  BY FiniteAccounts, FinitePackIds, FS_Product DEF Holdings
<1>2. after \in Packs /\ after[a][id] = n
  BY DEF Packs
<1>3. /\ PacksIn(packs) \in [Holdings -> Nat]
      /\ PacksIn(after) \in [Holdings -> Nat]
  <2> HIDE DEF after
  <2> QED BY <1>2 DEF PacksIn, Packs, Holdings
<1>4. /\ <<a, id>> \in Holdings
      /\ PacksIn(packs)[<<a, id>>] = packs[a][id]
      /\ PacksIn(after)[<<a, id>>] = n
  <2> HIDE DEF after
  <2> QED BY <1>2 DEF PacksIn, Holdings
<1>5. \A p \in Holdings \ {<<a, id>>} : PacksIn(packs)[p] = PacksIn(after)[p]
  <2>1. \A b \in Accounts, k \in PackIds : b # a \/ k # id => after[b][k] = packs[b][k]
    BY DEF Packs
  <2> HIDE DEF after
  <2>2. TAKE p \in Holdings \ {<<a, id>>}
  <2>3. PICK b \in Accounts, k \in PackIds : p = <<b, k>>
    BY <2>2 DEF Holdings
  <2>4. after[b][k] = packs[b][k]
    BY <2>1, <2>2, <2>3
  <2>5. /\ PacksIn(packs)[<<b, k>>] = packs[b][k]
        /\ PacksIn(after)[<<b, k>>] = after[b][k]
    BY DEF PacksIn, Holdings
  <2> QED BY <2>3, <2>4, <2>5
<1>6. /\ PackSupply(packs) = SumOver(PacksIn(packs), Holdings)
      /\ PackSupply(after) = SumOver(PacksIn(after), Holdings)
  BY DEF PackSupply, PacksIn, Holdings
<1> HIDE DEF after
<1>7. /\ SumOver(PacksIn(packs), Holdings) \in Nat
      /\ SumOver(PacksIn(after), Holdings) \in Nat
  <2>1. /\ \A p \in Holdings : PacksIn(packs)[p] \in Int
        /\ \A p \in Holdings : PacksIn(after)[p] \in Int
    BY <1>3
  <2> QED BY ONLY <1>1, <2>1, UnitsFinite
<1>8. SumOver(PacksIn(after), Holdings) - PacksIn(after)[<<a, id>>]
        = SumOver(PacksIn(packs), Holdings) - PacksIn(packs)[<<a, id>>]
  BY ONLY <1>1, <1>3, <1>4, <1>5, SumMovesWithOne
<1>9. PackSupply(after) - n = PackSupply(packs) - packs[a][id]
  BY ONLY <1>4, <1>6, <1>8
<1> QED BY <1>2, <1>6, <1>7, <1>9 DEF after

(* Only burnBP and the BoosterPack contract write packs. *)
LEMMA OthersKeepPacks ==
    ASSUME [Next]_vars
    PROVE  \/ \E u \in Users, id \in PackIds \cap Slots : BurnBP(u, id)
           \/ PackStep \/ UNCHANGED packVars
<1>1. OwnerStep => UNCHANGED packVars
  BY DEF OwnerStep, Pause, Unpause, UpdateBaseRateTokensPerBlock, UpdateDepositFee,
         AddRewardsMultiplier, UpdateRewardsMultiplier, RemoveRewardsMultiplier,
         ChangeRewardsMultipliers, AddWithdrawFee, UpdateWithdrawFee, RemoveWithdrawFee,
         ChangeWithdrawFees, packVars
<1> QED BY <1>1 DEF Next, UserStep, NextBlock, Deposit, Withdraw, ClaimRewards, vars, packVars

(* The owner of the pool leaves packs and the list alone. *)
LEMMA SettersKeepPacks ==
    ASSUME OwnerStep
    PROVE  Pause \/ UNCHANGED <<packBalance, usersWithBoosterPacks>>
BY DEF OwnerStep, Unpause, UpdateBaseRateTokensPerBlock, UpdateDepositFee,
       AddRewardsMultiplier, UpdateRewardsMultiplier, RemoveRewardsMultiplier,
       ChangeRewardsMultipliers, AddWithdrawFee, UpdateWithdrawFee, RemoveWithdrawFee,
       ChangeWithdrawFees, boostVars, packVars

(* The number of packs is a number. *)
LEMMA SupplyIsAmount ==
    ASSUME TypeOK PROVE PackSupply(packBalance) \in Nat
<1> DEFINE held == PacksIn(packBalance)
<1>1. IsFiniteSet(Holdings)
  BY FiniteAccounts, FinitePackIds, FS_Product DEF Holdings
<1>2. \A p \in Holdings : held[p] \in Int
  BY DEF TypeOK, PackTypeOK, PacksIn, Holdings
<1>3. PackSupply(packBalance) = SumOver(held, Holdings)
  BY DEF PackSupply, PacksIn, Holdings
<1> HIDE DEF held
<1> QED BY ONLY <1>1, <1>2, <1>3, UnitsFinite

(* A step moves no pack and no entry of the list ... *)
PacksKept ==
    /\ PackSupply(packBalance') = PackSupply(packBalance)
    /\ Len(usersWithBoosterPacks') = Len(usersWithBoosterPacks)

(* ... or activates a booster ... *)
PackActivated ==
    /\ PoolAddr \in whitelistedAddrBP
    /\ PackSupply(packBalance') = PackSupply(packBalance) - 1
    /\ Len(usersWithBoosterPacks') = Len(usersWithBoosterPacks) + 1

MintsPacks(caller) ==
    \E to \in Holders, id \in PackIds, amount \in 1..MaxPacks, attr \in AttributeChoices :
        Mint(caller, to, id, amount, attr)

BurnsPacks(caller) ==
    \E id \in PackIds, amount \in 1..MaxPacks : Burn(caller, id, amount)

(* ... or mints or burns packs for somebody on the whitelist. *)
PacksGoverned ==
    /\ UNCHANGED usersWithBoosterPacks
    /\ \E caller \in Accounts : MintsPacks(caller) \/ BurnsPacks(caller)

(* A transfer moves packs between two holdings, or within one. *)
LEMMA TransferKeepsSupply ==
    ASSUME TypeOK, NEW from \in Holders, NEW to \in Holders, NEW id \in PackIds,
           NEW amount \in 1..MaxPacks, SafeTransferFrom(from, to, id, amount)
    PROVE  PackSupply(packBalance') = PackSupply(packBalance)
<1>1. /\ from \in Accounts /\ to \in Accounts /\ amount \in Nat
      /\ packBalance \in Packs
  BY PackAssumption DEF TypeOK, PackTypeOK, Packs
<1>2. /\ packBalance[from][id] \in Nat /\ packBalance[from][id] - amount \in Nat
  BY <1>1 DEF SafeTransferFrom, Packs
<1> DEFINE left  == packBalance[from][id] - amount
           taken == [packBalance EXCEPT ![from][id] = left]
           more  == taken[to][id] + amount
<1>3. packBalance' = [taken EXCEPT ![to][id] = more]
  BY DEF SafeTransferFrom
<1>4. /\ taken \in Packs /\ PackSupply(packBalance) \in Nat /\ PackSupply(taken) \in Nat
      /\ PackSupply(taken) - left = PackSupply(packBalance) - packBalance[from][id]
  <2> HIDE DEF left
  <2> QED BY <1>1, <1>2, SupplyMovesWithOne DEF left
<1> HIDE DEF taken
<1>5. taken[to][id] \in Nat /\ more \in Nat
  BY <1>1, <1>4 DEF Packs
<1> HIDE DEF more
<1>6. /\ PackSupply([taken EXCEPT ![to][id] = more]) \in Nat
      /\ PackSupply([taken EXCEPT ![to][id] = more]) - more
           = PackSupply(taken) - taken[to][id]
  BY <1>1, <1>4, <1>5, SupplyMovesWithOne
<1>7. PackSupply(packBalance') \in Nat
      /\ PackSupply(packBalance') - more = PackSupply(taken) - taken[to][id]
  BY <1>3, <1>6
<1>8. more = taken[to][id] + amount
  BY DEF more
<1> QED BY <1>1, <1>2, <1>4, <1>5, <1>7, <1>8

(* burnBP burns one pack and adds one entry. *)
LEMMA BurnActivatesOne ==
    ASSUME TypeOK, NEW u \in Users, NEW id \in PackIds \cap Slots, BurnBP(u, id)
    PROVE  PackActivated
<1>1. /\ u \in Accounts /\ id \in PackIds /\ packBalance \in Packs
  BY UsersAreAccounts DEF TypeOK, PackTypeOK, Packs
<1>2. /\ PoolAddr \in whitelistedAddrBP
      /\ packBalance[u][id] >= 1
      /\ packBalance' = [packBalance EXCEPT ![u][id] = packBalance[u][id] - 1]
      /\ usersWithBoosterPacks' = Append(ListAfterCheck(u), u)
  BY DEF BurnBP, TransferAndBurn
<1>3. packBalance[u][id] \in Nat /\ packBalance[u][id] - 1 \in Nat
  BY <1>1, <1>2 DEF Packs
<1>4. PackSupply(packBalance') = PackSupply(packBalance) - 1
  <2> DEFINE left  == packBalance[u][id] - 1
             taken == [packBalance EXCEPT ![u][id] = left]
  <2>1. /\ PackSupply(packBalance) \in Nat /\ PackSupply(taken) \in Nat
        /\ PackSupply(taken) - left = PackSupply(packBalance) - packBalance[u][id]
    <3> HIDE DEF left
    <3> QED BY <1>1, <1>3, SupplyMovesWithOne DEF left
  <2>2. packBalance' = taken
    BY <1>2
  <2> HIDE DEF taken
  <2> QED BY <1>3, <2>1, <2>2
<1>5. Len(usersWithBoosterPacks') = Len(usersWithBoosterPacks) + 1
  <2>1. /\ ListAfterCheck(u) \in Seq(Accounts)
        /\ Len(ListAfterCheck(u)) = Len(usersWithBoosterPacks)
    BY <1>1, ListIsTyped
  <2>2. Len(Append(ListAfterCheck(u), u)) = Len(ListAfterCheck(u)) + 1
    BY <1>1, <2>1
  <2> QED BY <1>2, <2>1, <2>2
<1> QED BY <1>2, <1>4, <1>5 DEF PackActivated

(* Every step does one of the three. *)
LEMMA NextMovesPacks ==
    ASSUME TypeOK, [Next]_vars
    PROVE  PacksKept \/ PackActivated \/ PacksGoverned
<1>1. ASSUME NEW u \in Users, NEW id \in PackIds \cap Slots, BurnBP(u, id)
      PROVE  PackActivated
  BY <1>1, BurnActivatesOne
<1>2. ASSUME NEW caller \in Callers, NEW user \in Users, ClaimRewards(caller, user)
      PROVE  PacksKept
  <2>1. Len(ListAfterCheck(user)) = Len(usersWithBoosterPacks)
    BY UsersAreAccounts, ListIsTyped
  <2> QED BY <1>2, <2>1 DEF ClaimRewards, PacksKept, packVars
<1>3. ASSUME NEW u \in Users, NEW amount \in Amounts, Deposit(u, amount) \/ Withdraw(u, amount)
      PROVE  PacksKept
  BY <1>3 DEF Deposit, Withdraw, PacksKept, packVars
<1>4. CASE Pause
  BY <1>4 DEF Pause, PacksKept, packVars
<1>5. CASE PackStep
  <2>1. UNCHANGED usersWithBoosterPacks
    BY <1>5 DEF PackStep, poolVars, boostVars
  <2>2. ASSUME NEW from \in Holders, NEW to \in Holders, NEW id \in PackIds,
               NEW amount \in 1..MaxPacks, SafeTransferFrom(from, to, id, amount)
        PROVE  PacksKept
    BY <2>1, <2>2, TransferKeepsSupply DEF PacksKept
  <2>3. ASSUME NEW addr, AddWhitelistedAddrBP(addr) \/ RemoveWhitelistedAddrBP(addr)
        PROVE  PacksKept
    BY <2>1, <2>3 DEF AddWhitelistedAddrBP, RemoveWhitelistedAddrBP, PacksKept
  <2>4. ASSUME NEW id, NEW attr, SetAttributes(id, attr) PROVE PacksKept
    BY <2>1, <2>4 DEF SetAttributes, PacksKept
  <2>5. ASSUME NEW caller \in Accounts, MintsPacks(caller) \/ BurnsPacks(caller)
        PROVE  PacksGoverned
    BY <2>1, <2>5 DEF PacksGoverned
  <2> HIDE DEF PacksKept, PacksGoverned
  <2>6. PackNext
    BY <1>5 DEF PackStep
  <2> QED BY <2>2, <2>3, <2>4, <2>5, <2>6 DEF PackNext, MintsPacks, BurnsPacks
<1>6. CASE UNCHANGED <<packBalance, usersWithBoosterPacks>>
  BY <1>6 DEF PacksKept
<1>7. UserStep \/ Pause \/ PackStep \/ UNCHANGED <<packBalance, usersWithBoosterPacks>>
  BY SettersKeepPacks DEF Next, NextBlock, vars, poolVars, boostVars, packVars
<1> HIDE DEF PacksKept, PackActivated, PacksGoverned
<1> QED BY <1>1, <1>2, <1>3, <1>4, <1>5, <1>6, <1>7 DEF UserStep

(* The number of packs changes only while somebody is on the whitelist;    *)
(* the pool activates a booster only while it is on it, and burns exactly  *)
(* one pack for it.                                                        *)
THEOREM WhitelistGoverns == Spec => WhitelistGovernsPacks
<1> DEFINE Governs ==
             /\ PackSupply(packBalance') # PackSupply(packBalance)
                  => whitelistedAddrBP # {}
             /\ Len(usersWithBoosterPacks') > Len(usersWithBoosterPacks)
                  => /\ PoolAddr \in whitelistedAddrBP
                     /\ PackSupply(packBalance') = PackSupply(packBalance) - 1
<1>1. TypeOK /\ [Next]_vars => Governs
  <2> SUFFICES ASSUME TypeOK, [Next]_vars PROVE Governs
    OBVIOUS
  <2>1. usersWithBoosterPacks \in Seq(Accounts)
    BY DEF TypeOK
  <2>2. CASE PacksKept
    BY <2>1, <2>2 DEF PacksKept
  <2>3. CASE PackActivated
    BY <2>1, <2>3 DEF PackActivated
  <2>4. CASE PacksGoverned
    <3>1. whitelistedAddrBP # {} /\ usersWithBoosterPacks' = usersWithBoosterPacks
      BY <2>4 DEF PacksGoverned, MintsPacks, BurnsPacks, Mint, Burn
    <3> QED BY <2>1, <3>1
  <2> QED BY <2>2, <2>3, <2>4, NextMovesPacks
<1>2. TypeOK /\ [Next]_vars => [Governs]_vars
  BY <1>1
<1> QED BY <1>2, TypeCorrect, PTL DEF Spec, WhitelistGovernsPacks

(* Packs are burned by the pool only: nobody else is or gets on the        *)
(* whitelist, the pool holds no packs and none are minted or sent to it.   *)
OnlyPoolBurns ==
    /\ InitWhitelist \cup Whitelistable \subseteq {PoolAddr}
    /\ \A id \in PackIds : InitPackBalance[PoolAddr][id] = 0
    /\ PoolAddr \notin Holders
    /\ Holders = {} \/ AttributeChoices = {}

(* The pool owns no pack that it could burn on its own. *)
PoolHoldsNoPack ==
    /\ whitelistedAddrBP \subseteq {PoolAddr}
    /\ \A id \in PackIds : packBalance[PoolAddr][id] = 0

(* It never gets one. *)
LEMMA PoolGetsNoPack ==
    ASSUME OnlyPoolBurns, TypeOK, PoolHoldsNoPack, [Next]_vars
    PROVE  PoolHoldsNoPack' /\ ~PacksGoverned
<1>1. packBalance \in Packs /\ PoolAddr \in Accounts
  BY PoolAssumption DEF TypeOK, PackTypeOK, Packs
<1>2. ASSUME NEW caller \in Accounts PROVE ~MintsPacks(caller)
  BY DEF MintsPacks, OnlyPoolBurns
<1>3. ASSUME NEW caller \in Accounts PROVE ~BurnsPacks(caller)
  <2> SUFFICES ASSUME NEW id \in PackIds, NEW amount \in 1..MaxPacks,
                      Burn(caller, id, amount)
               PROVE  FALSE
    BY DEF BurnsPacks
  <2>1. caller = PoolAddr
    BY DEF Burn, PoolHoldsNoPack
  <2>2. amount >= 1 /\ amount <= packBalance[PoolAddr][id]
    BY <2>1, PackAssumption DEF Burn
  <2>3. packBalance[PoolAddr][id] = 0
    BY DEF PoolHoldsNoPack
  <2> QED BY <2>2, <2>3, PackAssumption
<1>4. ASSUME PackStep PROVE PoolHoldsNoPack'
  <2>1. ASSUME NEW from \in Holders, NEW to \in Holders, NEW id \in PackIds,
               NEW amount \in 1..MaxPacks, SafeTransferFrom(from, to, id, amount)
        PROVE  PoolHoldsNoPack'
    <3>1. from # PoolAddr /\ to # PoolAddr
      BY DEF OnlyPoolBurns
    <3>2. packBalance'[PoolAddr] = packBalance[PoolAddr]
      BY <1>1, <2>1, <3>1 DEF SafeTransferFrom, Packs
    <3> QED BY <2>1, <3>2 DEF SafeTransferFrom, PoolHoldsNoPack
  <2>2. ASSUME NEW addr \in Whitelistable,
               AddWhitelistedAddrBP(addr) \/ RemoveWhitelistedAddrBP(addr)
        PROVE  PoolHoldsNoPack'
    BY <2>2 DEF AddWhitelistedAddrBP, RemoveWhitelistedAddrBP, PoolHoldsNoPack,
                OnlyPoolBurns
  <2>3. ASSUME NEW id, NEW attr, SetAttributes(id, attr) PROVE PoolHoldsNoPack'
    BY <2>3 DEF SetAttributes, PoolHoldsNoPack
  <2>4. ASSUME NEW caller \in Accounts, NEW to \in Holders, NEW id \in PackIds,
               NEW amount \in 1..MaxPacks, NEW attr \in AttributeChoices,
               Mint(caller, to, id, amount, attr)
        PROVE  FALSE
    BY ONLY <1>2, <2>4 DEF MintsPacks
  <2>5. ASSUME NEW caller \in Accounts, NEW id \in PackIds, NEW amount \in 1..MaxPacks,
               Burn(caller, id, amount)
        PROVE  FALSE
    BY ONLY <1>3, <2>5 DEF BurnsPacks
  <2>6. PackNext
    BY <1>4 DEF PackStep
  <2> HIDE DEF PoolHoldsNoPack
  <2> QED BY ONLY <2>1, <2>2, <2>3, <2>4, <2>5, <2>6 DEF PackNext
<1>5. ASSUME NEW u \in Users, NEW id \in PackIds \cap Slots, BurnBP(u, id)
      PROVE  PoolHoldsNoPack'
  <2>1. u # PoolAddr
    BY PoolAssumption
  <2>2. /\ packBalance' = [packBalance EXCEPT ![u][id] = packBalance[u][id] - 1]
        /\ whitelistedAddrBP' = whitelistedAddrBP
    BY <1>5 DEF BurnBP, TransferAndBurn
  <2>3. packBalance'[PoolAddr] = packBalance[PoolAddr]
    BY ONLY <1>1, <2>1, <2>2 DEF Packs
  <2> QED BY <2>2, <2>3 DEF PoolHoldsNoPack
<1>6. ASSUME UNCHANGED packVars PROVE PoolHoldsNoPack'
  BY <1>6 DEF packVars, PoolHoldsNoPack
<1>7. \/ \E u \in Users, id \in PackIds \cap Slots : BurnBP(u, id)
      \/ PackStep \/ UNCHANGED packVars
  BY OthersKeepPacks
<1> HIDE DEF PoolHoldsNoPack
<1>8. PoolHoldsNoPack'
  BY <1>4, <1>5, <1>6, <1>7
<1> QED BY <1>2, <1>3, <1>8 DEF PacksGoverned

(* The list has one entry or hole for each pack that was burned, where     *)
(* packs are neither minted nor burned outside the pool: whatever expires, *)
(* is deleted from the list or activated twice.                            *)
THEOREM PacksAreBurnedOnce == OnlyPoolBurns => (Spec => []OnePackPerActivation)
<1> SUFFICES ASSUME OnlyPoolBurns PROVE Spec => []OnePackPerActivation
  OBVIOUS
<1> DEFINE PackInv == PoolHoldsNoPack /\ OnePackPerActivation
<1>1. Init => PackInv
  <2> SUFFICES ASSUME Init PROVE PackInv
    OBVIOUS
  <2>1. /\ packBalance = InitPackBalance /\ Len(usersWithBoosterPacks) = 0
        /\ whitelistedAddrBP = InitWhitelist
    BY DEF Init
  <2>2. PackSupply(packBalance) \in Nat
    <3>1. TypeOK
      BY InitIsTyped
    <3> QED BY <3>1, SupplyIsAmount
  <2> QED BY <2>1, <2>2 DEF PoolHoldsNoPack, OnePackPerActivation, OnlyPoolBurns
<1>2. TypeOK /\ PackInv /\ [Next]_vars => PackInv'
  <2> SUFFICES ASSUME TypeOK, PackInv, [Next]_vars PROVE PackInv'
    OBVIOUS
  <2>1. PoolHoldsNoPack' /\ (PacksKept \/ PackActivated)
    BY PoolGetsNoPack, NextMovesPacks
  <2>2. PackSupply(packBalance) \in Nat /\ Len(usersWithBoosterPacks) \in Nat
    BY SupplyIsAmount DEF TypeOK
  <2>3. PackSupply(packBalance') + Len(usersWithBoosterPacks')
          = PackSupply(packBalance) + Len(usersWithBoosterPacks)
    BY <2>1, <2>2 DEF PacksKept, PackActivated
  <2> QED BY <2>1, <2>3 DEF OnePackPerActivation
<1> QED BY <1>1, <1>2, TypeCorrect, PTL DEF Spec

(* Nobody gives a pack the expiration date 0, and nobody has before. *)
DatesGiven ==
    /\ \A attr \in AttributeChoices : attr.expirationDate # 0
    /\ \A a \in Accounts, id \in PackIds :
         InitPackBalance[a][id] > 0 => InitAttributes[Slot(id)].expirationDate # 0

(* Whatever somebody holds has a date. *)
HeldPacksExist ==
    \A a \in Accounts, id \in PackIds :
        packBalance[a][id] > 0 => attributes[Slot(id)].expirationDate # 0

(* A pack exists when somebody holds it. *)
LEMMA ExistingIsHeld ==
    ASSUME TypeOK, HeldPacksExist
    PROVE  MintedPackExists
<1> SUFFICES ASSUME NEW id \in PackIds, PacksOf(id) > 0
             PROVE  attributes[Slot(id)].expirationDate # 0
  BY DEF MintedPackExists
<1>1. PICK a \in Accounts : packBalance[a][id] # 0
  <2> SUFFICES ASSUME \A a \in Accounts : packBalance[a][id] = 0 PROVE FALSE
    OBVIOUS
  <2> DEFINE held == [a \in Accounts |-> packBalance[a][id]]
  <2>1. \A a \in Accounts : held[a] = 0
    OBVIOUS
  <2>2. PacksOf(id) = SumOver(held, Accounts)
    BY DEF PacksOf, SumOfAccounts
  <2> HIDE DEF held
  <2>3. SumOver(held, Accounts) = 0
    BY ONLY <2>1, SumOfZeros
  <2> QED BY <2>2, <2>3
<1>2. packBalance[a][id] > 0
  BY <1>1 DEF TypeOK, PackTypeOK
<1> QED BY <1>2 DEF HeldPacksExist

(* Every step gives a date to what it mints. *)
LEMMA NextKeepsDates ==
    ASSUME DatesGiven, TypeOK, HeldPacksExist, [Next]_vars
    PROVE  HeldPacksExist'
<1>1. /\ packBalance \in Packs /\ attributes \in [Slots -> Attributes]
      /\ \A id \in PackIds : Slot(id) \in Slots
  BY PackAssumption DEF TypeOK, PackTypeOK, Packs, Slot, Slots
<1> DEFINE Dated(slots) ==
             /\ \A s \in Slots : attributes[s].expirationDate # 0
                                   => slots[s].expirationDate # 0
<1>2. ASSUME NEW id \in PackIds, NEW attr \in AttributeChoices,
             attributes' = [attributes EXCEPT ![Slot(id)] = attr]
      PROVE  /\ attributes'[Slot(id)].expirationDate # 0
             /\ Dated(attributes')
  BY <1>1, <1>2 DEF DatesGiven
<1>3. ASSUME Dated(attributes'),
             \A a \in Accounts, id \in PackIds :
               packBalance'[a][id] > 0
                 => \/ \E b \in Accounts : packBalance[b][id] > 0
                    \/ attributes'[Slot(id)].expirationDate # 0
      PROVE  HeldPacksExist'
  BY <1>1, <1>3 DEF HeldPacksExist
<1>4. attributes' = attributes => Dated(attributes')
  OBVIOUS
<1> HIDE DEF Dated
<1>5. ASSUME NEW caller \in Accounts, NEW to \in Holders, NEW id \in PackIds,
             NEW amount \in 1..MaxPacks, NEW attr \in AttributeChoices,
             Mint(caller, to, id, amount, attr)
      PROVE  HeldPacksExist'
  <2>1. /\ attributes'[Slot(id)].expirationDate # 0 /\ Dated(attributes')
    BY <1>2, <1>5 DEF Mint
  <2>2. \A a \in Accounts, k \in PackIds : k # id => packBalance'[a][k] = packBalance[a][k]
    BY <1>1, <1>5, PackAssumption DEF Mint, Packs
  <2> QED BY <1>3, <2>1, <2>2
<1>6. ASSUME NEW a \in Accounts, NEW id \in PackIds, NEW n \in Nat,
             n < packBalance[a][id], attributes' = attributes,
             packBalance' = [packBalance EXCEPT ![a][id] = n]
      PROVE  HeldPacksExist'
  <2>1. \A b \in Accounts, k \in PackIds :
          \/ packBalance'[b][k] = packBalance[b][k]
          \/ b = a /\ k = id
    BY <1>1, <1>6 DEF Packs
  <2>2. packBalance[a][id] > 0
    BY <1>1, <1>6 DEF Packs
  <2> QED BY <1>3, <1>4, <1>6, <2>1, <2>2
<1>7. ASSUME NEW caller \in Accounts, NEW id \in PackIds, NEW amount \in 1..MaxPacks,
             Burn(caller, id, amount)
      PROVE  HeldPacksExist'
  <2>1. /\ amount \in Nat /\ amount >= 1 /\ amount <= packBalance[caller][id]
        /\ packBalance' = [packBalance EXCEPT ![caller][id] = packBalance[caller][id] - amount]
        /\ attributes' = attributes
    BY <1>7, PackAssumption DEF Burn
  <2>2. packBalance[caller][id] \in Nat
    BY <1>1 DEF Packs
  <2>3. PICK n \in Nat : n = packBalance[caller][id] - amount
    BY <2>1, <2>2
  <2>4. /\ n < packBalance[caller][id]
        /\ packBalance' = [packBalance EXCEPT ![caller][id] = n]
    BY <2>1, <2>2, <2>3
  <2> QED BY ONLY <1>6, <2>1, <2>4
<1>8. ASSUME NEW from \in Holders, NEW to \in Holders, NEW id \in PackIds,
             NEW amount \in 1..MaxPacks, SafeTransferFrom(from, to, id, amount)
      PROVE  HeldPacksExist'
  <2>1. from \in Accounts /\ to \in Accounts /\ amount \in Nat /\ amount >= 1
    BY PackAssumption
  <2>2. packBalance[from][id] > 0
    BY <1>1, <1>8, <2>1 DEF SafeTransferFrom, Packs
  <2>3. \A a \in Accounts, k \in PackIds : k # id => packBalance'[a][k] = packBalance[a][k]
    BY <1>1, <1>8, <2>1 DEF SafeTransferFrom, Packs
  <2>4. attributes' = attributes
    BY <1>8 DEF SafeTransferFrom
  <2> QED BY <1>3, <1>4, <2>1, <2>2, <2>3, <2>4
<1>9. ASSUME NEW u \in Users, NEW id \in PackIds \cap Slots, BurnBP(u, id)
      PROVE  HeldPacksExist'
  <2>1. /\ u \in Accounts /\ packBalance[u][id] \in Nat /\ packBalance[u][id] >= 1
        /\ packBalance' = [packBalance EXCEPT ![u][id] = packBalance[u][id] - 1]
        /\ attributes' = attributes
    BY <1>1, <1>9, UsersAreAccounts DEF BurnBP, TransferAndBurn, Packs
  <2>2. PICK n \in Nat : n = packBalance[u][id] - 1
    BY <2>1
  <2>3. n < packBalance[u][id] /\ packBalance' = [packBalance EXCEPT ![u][id] = n]
    BY <2>1, <2>2
  <2>4. u \in Accounts /\ id \in PackIds
    BY <2>1
  <2> QED BY ONLY <1>6, <2>1, <2>3, <2>4
<1>10. CASE PackStep
  <2>1. ASSUME NEW id \in PackIds, NEW attr \in AttributeChoices, SetAttributes(id, attr)
        PROVE  HeldPacksExist'
    <3>1. Dated(attributes') /\ packBalance' = packBalance
      BY <1>2, <2>1 DEF SetAttributes
    <3> QED BY <1>3, <3>1
  <2>2. ASSUME NEW addr, AddWhitelistedAddrBP(addr) \/ RemoveWhitelistedAddrBP(addr)
        PROVE  HeldPacksExist'
    BY <2>2 DEF AddWhitelistedAddrBP, RemoveWhitelistedAddrBP, HeldPacksExist
  <2>3. PackNext
    BY <1>10 DEF PackStep
  <2> HIDE DEF HeldPacksExist
  <2> QED BY <1>5, <1>7, <1>8, <2>1, <2>2, <2>3 DEF PackNext
<1>11. CASE UNCHANGED packVars
  BY <1>11 DEF packVars, HeldPacksExist
<1> HIDE DEF HeldPacksExist
<1> QED BY <1>9, <1>10, <1>11, OthersKeepPacks

(* A pack that somebody holds reads as existing when the pool looks it up, *)
(* where nobody gives a pack the expiration date 0: minting and setting    *)
(* attributes write the same slot, also for an id that shares it.          *)
THEOREM PacksExist == DatesGiven => (Spec => []MintedPackExists)
<1> SUFFICES ASSUME DatesGiven PROVE Spec => []MintedPackExists
  OBVIOUS
<1>1. Init => HeldPacksExist
  BY DEF Init, HeldPacksExist, DatesGiven
<1>2. TypeOK /\ HeldPacksExist /\ [Next]_vars => HeldPacksExist'
  BY NextKeepsDates
<1>3. TypeOK /\ HeldPacksExist => MintedPackExists
  BY ExistingIsHeld
<1> QED BY <1>1, <1>2, <1>3, TypeCorrect, PTL DEF Spec

-----------------------------------------------------------------------------
(* FirstInFirstOut. *)

(* What the property needs of the states: nextDepositIdToRemove is at most *)
(* one past the deposits, and every deposit before it is empty.            *)
EmptyBefore(user) ==
    /\ user.nextDepositIdToRemove <= Len(user.deposits) + 1
    /\ \A i \in 1..(user.nextDepositIdToRemove - 1) : user.deposits[i].amount = 0

EarlierDepositsEmpty == \A a \in Accounts : EmptyBefore(usersData[a])

(* A withdrawal empties every deposit that comes before one it touches,    *)
(* and stops where what is behind it is empty.                             *)
LEMMA WithdrawalTakesInOrder ==
    ASSUME NEW deposits \in Deposits, NEW first \in Nat \ {0},
           NEW k \in (first - 1)..Len(deposits), NEW rest \in Nat,
           first <= Len(deposits) + 1,
           \A i \in 1..(first - 1) : deposits[i].amount = 0
    PROVE  LET left == DepositsLeft(deposits, first, k, rest)
               next == NextToRemove(deposits, first, k)
           IN  /\ DOMAIN left = DOMAIN deposits
               /\ \A i \in DOMAIN deposits : left[i] # deposits[i]
                    => \A j \in 1..(i-1) : left[j].amount = 0
               /\ next <= Len(deposits) + 1
               /\ \A i \in 1..(next - 1) : left[i].amount = 0
<1> DEFINE left == DepositsLeft(deposits, first, k, rest)
           next == NextToRemove(deposits, first, k)
           n    == Len(deposits)
<1>1. /\ DOMAIN deposits = 1..n /\ n \in Nat
      /\ \A i \in 1..n : deposits[i] \in [blockNumber : Nat, amount : Nat]
  BY RowsOfSequence DEF Deposits
<1>2. k \in Nat /\ first \in Nat /\ first > 0 /\ k <= n /\ first - 1 <= k /\ k + 1 > 0
  <2>1. first - 1 <= k
    OBVIOUS
  <2> QED BY <1>1, <2>1, StopsInRange
<1>3. DOMAIN left = 1..n
  BY <1>1 DEF DepositsLeft
<1>4. \A i \in 1..n :
        left[i] = [deposits[i] EXCEPT !.amount = IF i \in first..k THEN 0
                                                 ELSE IF i = k + 1 THEN @ - rest ELSE @]
  BY <1>1 DEF DepositsLeft
<1>5. ASSUME NEW i \in 1..n, i <= k PROVE left[i].amount = 0
  <2>1. CASE i \in first..k
    BY <1>1, <1>4, <2>1
  <2>2. CASE i \notin first..k
    <3>1. i \in 1..(first - 1) /\ i # k + 1
      BY <1>1, <1>2, <1>5, <2>2
    <3>2. deposits[i].amount = 0 /\ deposits[i] \in [blockNumber : Nat, amount : Nat]
      BY <1>1, <3>1
    <3> QED BY <1>4, <2>2, <3>1, <3>2
  <2> QED BY <2>1, <2>2
<1>6. ASSUME NEW i \in 1..n, k + 1 < i PROVE left[i] = deposits[i]
  <2>1. i \notin first..k /\ i # k + 1
    BY <1>1, <1>2, <1>6
  <2>2. deposits[i] \in [blockNumber : Nat, amount : Nat]
    BY <1>1
  <2>3. left[i] = [deposits[i] EXCEPT !.amount = @]
    BY <1>4, <2>1
  <2> HIDE DEF left
  <2> QED BY <2>2, <2>3
<1>7. ASSUME NEW i \in 1..n, left[i] # deposits[i], NEW j \in 1..(i-1)
      PROVE  left[j].amount = 0
  <2>1. i <= k + 1
    BY <1>1, <1>2, <1>6, <1>7
  <2>2. j \in 1..n /\ j <= k
    BY <1>1, <1>2, <2>1
  <2> QED BY <1>5, <2>2
<1>8. next \in Nat /\ next <= n + 1 /\ next <= k + 1
  <2> HIDE DEF n
  <2>1. CASE k < first
    <3>1. next = first
      BY <2>1 DEF NextToRemove
    <3> QED BY <1>1, <1>2, <3>1 DEF n
  <2>2. CASE ~(k < first)
    <3>1. next = k \/ next = k + 1
      BY <2>2, Zenon DEF NextToRemove
    <3> HIDE DEF next
    <3> QED BY <1>1, <1>2, <3>1
  <2> QED BY <2>1, <2>2
<1>9. ASSUME NEW i \in 1..(next - 1) PROVE left[i].amount = 0
  <2> HIDE DEF next, left, n
  <2>1. i \in 1..n /\ i <= k
    BY <1>1, <1>2, <1>8
  <2> QED BY <1>5, <2>1
<1> QED BY <1>1, <1>3, <1>7, <1>8, <1>9

(* The deposits of a user after a withdrawal. *)
LEMMA WithdrawTakesInOrder ==
    ASSUME TypeOK, EarlierDepositsEmpty,
           NEW u \in Users, NEW amount \in Amounts, Withdraw(u, amount)
    PROVE  /\ EmptyBefore(usersData'[u])
           /\ \A a \in Accounts \ {u} :
                /\ usersData'[a].deposits = usersData[a].deposits
                /\ usersData'[a].nextDepositIdToRemove = usersData[a].nextDepositIdToRemove
           /\ \A i \in DOMAIN usersData[u].deposits :
                usersData'[u].deposits[i] # usersData[u].deposits[i]
                  => \A j \in 1..(i-1) : usersData'[u].deposits[j].amount = 0
<1> DEFINE deposits == usersData[u].deposits
           first    == usersData[u].nextDepositIdToRemove
           settled  == SettledUsers(u, VisitsOfWithdraw)
<1>1. u \in Accounts /\ amount \in Nat
  BY UsersAreAccounts, PoolAssumption
<1>2. /\ settled \in [Accounts -> UserData]
      /\ \A a \in Accounts :
           /\ settled[a].deposits = usersData[a].deposits
           /\ settled[a].nextDepositIdToRemove = usersData[a].nextDepositIdToRemove
  BY SettlementIsTyped DEF Withdraw
<1>3. PICK k \in (first - 1)..Len(deposits) :
         LET w == Withdrawal(deposits, withdrawFees, first, amount, k)
         IN  /\ DrainsThrough(deposits, withdrawFees, first, amount, k)
             /\ NetsFit(deposits, withdrawFees, first, k)
             /\ usersData' = [settled EXCEPT ![u] = AfterWithdrawal(settled[u], w)]
  BY WithdrawalGoesThrough
<1> DEFINE w    == Withdrawal(deposits, withdrawFees, first, amount, k)
           rest == Remainder(deposits, withdrawFees, first, amount, k)
           left == DepositsLeft(deposits, first, k, rest)
           next == NextToRemove(deposits, first, k)
<1>4. deposits \in Deposits /\ first \in Nat \ {0} /\ withdrawFees \in Fees
  BY <1>1 DEF TypeOK, UserData, Deposits, DepositData, Fees
<1>5. rest \in Nat
  BY <1>1, <1>3, <1>4, RemainderIsCovered
<1>6. first <= Len(deposits) + 1 /\ \A i \in 1..(first - 1) : deposits[i].amount = 0
  BY <1>1 DEF EarlierDepositsEmpty, EmptyBefore
<1>7. /\ DOMAIN left = DOMAIN deposits
      /\ \A i \in DOMAIN deposits : left[i] # deposits[i]
           => \A j \in 1..(i-1) : left[j].amount = 0
      /\ next <= Len(deposits) + 1
      /\ \A i \in 1..(next - 1) : left[i].amount = 0
  <2> HIDE DEF deposits, first, rest
  <2> QED BY <1>4, <1>5, <1>6, WithdrawalTakesInOrder
<1>8. w.left = left /\ w.next = next
  BY DEF Withdrawal
<1>9. usersData' = [settled EXCEPT ![u] = AfterWithdrawal(settled[u], w)]
  BY <1>3
<1>10. Len(left) = Len(deposits)
  <2>1. left \in Deposits
    <3>1. w.left \in Deposits
      BY <1>1, <1>3, <1>4, WithdrawalIsTyped
    <3> QED BY <1>8, <3>1
  <2> HIDE DEF left, deposits
  <2> QED BY <1>4, <1>7, <2>1, RowsOfSequence DEF Deposits
<1> HIDE DEF settled, w, left, next
<1>11. /\ usersData'[u].deposits = left
       /\ usersData'[u].nextDepositIdToRemove = next
       /\ \A a \in Accounts \ {u} : usersData'[a] = settled[a]
  BY <1>1, <1>2, <1>8, <1>9 DEF AfterWithdrawal, UserData
<1> QED BY <1>2, <1>7, <1>10, <1>11 DEF EmptyBefore

(* A deposit is appended behind the others. *)
LEMMA DepositIsBehind ==
    ASSUME TypeOK, EarlierDepositsEmpty,
           NEW u \in Users, NEW amount \in Amounts, Deposit(u, amount)
    PROVE  /\ EmptyBefore(usersData'[u])
           /\ \A a \in Accounts \ {u} :
                /\ usersData'[a].deposits = usersData[a].deposits
                /\ usersData'[a].nextDepositIdToRemove = usersData[a].nextDepositIdToRemove
           /\ \A i \in DOMAIN usersData[u].deposits :
                usersData'[u].deposits[i] = usersData[u].deposits[i]
<1> DEFINE deposits == usersData[u].deposits
           first    == usersData[u].nextDepositIdToRemove
           settled  == SettledUsers(u, CalcBPRewards)
           deposited == amount - FeeAmount(amount, Thousandths(depositFee))
           added    == [blockNumber |-> block, amount |-> deposited]
           next     == IF deposits = <<>> THEN 1 ELSE first
<1>1. u \in Accounts
  BY UsersAreAccounts
<1>2. /\ settled \in [Accounts -> UserData]
      /\ \A a \in Accounts :
           /\ settled[a].deposits = usersData[a].deposits
           /\ settled[a].nextDepositIdToRemove = usersData[a].nextDepositIdToRemove
  BY SettlementIsTyped DEF Deposit
<1>3. usersData' = [settled EXCEPT
                      ![u] = AfterDeposit(settled[u], deposited, rewardsPerToken')]
  BY DEF Deposit
<1> HIDE DEF settled, deposited
<1>4. /\ usersData'[u].deposits = Append(deposits, added)
      /\ usersData'[u].nextDepositIdToRemove = next
      /\ \A a \in Accounts \ {u} : usersData'[a] = settled[a]
  BY <1>1, <1>2, <1>3 DEF AfterDeposit, UserData
<1>5. /\ deposits \in Seq(DepositData) /\ first \in Nat \ {0}
      /\ first <= Len(deposits) + 1
      /\ \A i \in 1..(first - 1) : deposits[i].amount = 0
  BY <1>1 DEF TypeOK, UserData, EarlierDepositsEmpty, EmptyBefore
<1> HIDE DEF deposits, first, added
<1>6. /\ Len(Append(deposits, added)) = Len(deposits) + 1
      /\ \A i \in 1..Len(deposits) : Append(deposits, added)[i] = deposits[i]
      /\ DOMAIN deposits = 1..Len(deposits) /\ Len(deposits) \in Nat
  BY <1>5
<1>7. /\ next <= Len(deposits) + 2
      /\ \A i \in 1..(next - 1) : Append(deposits, added)[i].amount = 0
  <2>1. CASE deposits = <<>>
    BY <1>5, <1>6, <2>1
  <2>2. CASE deposits # <<>>
    <3>1. 1..(first - 1) \subseteq 1..Len(deposits)
      BY <1>5, <1>6
    <3>2. next = first
      BY <2>2
    <3>3. \A i \in 1..(first - 1) : Append(deposits, added)[i].amount = 0
      BY <1>5, <1>6, <3>1
    <3> QED BY <1>5, <1>6, <3>2, <3>3
  <2> QED BY <2>1, <2>2
<1>8. EmptyBefore(usersData'[u])
  <2> HIDE DEF next
  <2>1. Len(Append(deposits, added)) + 1 = Len(deposits) + 2
    BY <1>6
  <2> QED BY <1>4, <1>7, <2>1 DEF EmptyBefore
<1>9. \A i \in DOMAIN deposits : usersData'[u].deposits[i] = deposits[i]
  BY <1>4, <1>6
<1> QED BY <1>2, <1>4, <1>8, <1>9 DEF deposits

(* The other steps leave the deposits of every account alone. *)
LEMMA OthersKeepDeposits ==
    ASSUME TypeOK, [Next]_vars,
           ~ \E u \in Users, amount \in Amounts : Deposit(u, amount) \/ Withdraw(u, amount)
    PROVE  \A a \in Accounts :
             /\ usersData'[a].deposits = usersData[a].deposits
             /\ usersData'[a].nextDepositIdToRemove = usersData[a].nextDepositIdToRemove
<1> DEFINE Kept ==
             \A a \in Accounts :
               /\ usersData'[a].deposits = usersData[a].deposits
               /\ usersData'[a].nextDepositIdToRemove = usersData[a].nextDepositIdToRemove
<1>1. ASSUME NEW caller \in Callers, NEW user \in Users, ClaimRewards(caller, user)
      PROVE  Kept
  <2> DEFINE visits  == IF paused THEN NoVisits ELSE CheckBPExpired(user)
             total   == TotalRewards(user, rewardsPerToken')
             settled == SettledUsers(caller, visits)
  <2>1. user \in Accounts
    BY UsersAreAccounts
  <2>2. /\ Settle(caller, visits)
        /\ usersData' = [settled EXCEPT ![user] = AfterClaim(settled[user], total)]
    BY <1>1 DEF ClaimRewards
  <2>3. /\ settled \in [Accounts -> UserData]
        /\ \A a \in Accounts :
             /\ settled[a].deposits = usersData[a].deposits
             /\ settled[a].nextDepositIdToRemove = usersData[a].nextDepositIdToRemove
    <3> HIDE DEF visits
    <3> QED BY <2>2, SettlementIsTyped
  <2> HIDE DEF settled, total
  <2> QED BY <2>1, <2>2, <2>3 DEF AfterClaim, UserData
<1>2. ASSUME NEW u \in Users, NEW id \in PackIds \cap Slots, BurnBP(u, id)
      PROVE  Kept
  <2> DEFINE settled == SettledUsers(u, CheckBPExpired(u))
  <2>1. u \in Accounts
    BY UsersAreAccounts
  <2>2. /\ Settle(u, CheckBPExpired(u))
        /\ usersData' = [settled EXCEPT ![u] = AfterBurn(settled[u], id)]
    BY <1>2 DEF BurnBP
  <2>3. /\ settled \in [Accounts -> UserData]
        /\ \A a \in Accounts :
             /\ settled[a].deposits = usersData[a].deposits
             /\ settled[a].nextDepositIdToRemove = usersData[a].nextDepositIdToRemove
    BY <2>2, SettlementIsTyped
  <2> HIDE DEF settled
  <2> QED BY <2>1, <2>2, <2>3 DEF AfterBurn, UserData
<1>3. CASE Pause
  BY <1>3, SettlementIsTyped DEF Pause
<1>4. CASE UNCHANGED usersData
  BY <1>4
<1>5. \/ \E caller \in Callers, user \in Users : ClaimRewards(caller, user)
      \/ \E u \in Users, id \in PackIds \cap Slots : BurnBP(u, id)
      \/ Pause
      \/ UNCHANGED usersData
  BY SettersKeepStakes DEF Next, UserStep, NextBlock, PackStep, vars, poolVars, stakeVars
<1> QED BY <1>1, <1>2, <1>3, <1>4, <1>5

(* One step of FirstInFirstOut. *)
FirstInFirstOutStep ==
    \A u \in Accounts : \A i \in DOMAIN usersData[u].deposits :
         usersData'[u].deposits[i] # usersData[u].deposits[i]
           => \A j \in 1..(i-1) : usersData'[u].deposits[j].amount = 0

(* Every step takes deposits in order. *)
LEMMA NextTakesInOrder ==
    ASSUME TypeOK, EarlierDepositsEmpty, [Next]_vars
    PROVE  EarlierDepositsEmpty' /\ FirstInFirstOutStep
<1>1. ASSUME NEW u \in Users, NEW amount \in Amounts, Deposit(u, amount)
      PROVE  EarlierDepositsEmpty' /\ FirstInFirstOutStep
  BY <1>1, DepositIsBehind DEF EarlierDepositsEmpty, EmptyBefore, FirstInFirstOutStep
<1>2. ASSUME NEW u \in Users, NEW amount \in Amounts, Withdraw(u, amount)
      PROVE  EarlierDepositsEmpty' /\ FirstInFirstOutStep
  BY <1>2, WithdrawTakesInOrder DEF EarlierDepositsEmpty, EmptyBefore, FirstInFirstOutStep
<1>3. CASE ~ \E u \in Users, amount \in Amounts : Deposit(u, amount) \/ Withdraw(u, amount)
  BY <1>3, OthersKeepDeposits DEF EarlierDepositsEmpty, EmptyBefore, FirstInFirstOutStep
<1> QED BY <1>1, <1>2, <1>3

(* Deposits leave first in, first out: a withdrawal touches a deposit only *)
(* when every earlier one of the same user is empty afterwards.            *)
THEOREM WithdrawalsAreFirstInFirstOut == Spec => FirstInFirstOut
<1>1. Init => EarlierDepositsEmpty
  <2> SUFFICES ASSUME Init PROVE EarlierDepositsEmpty
    OBVIOUS
  <2>1. \A a \in Accounts : usersData[a] = NoUserData
    BY DEF Init
  <2> QED BY <2>1 DEF EarlierDepositsEmpty, EmptyBefore, NoUserData
<1>2. FirstInFirstOutStep => [\A u \in Accounts : \A i \in DOMAIN usersData[u].deposits :
         usersData'[u].deposits[i] # usersData[u].deposits[i]
           => \A j \in 1..(i-1) : usersData'[u].deposits[j].amount = 0]_vars
  BY DEF FirstInFirstOutStep
<1> QED BY <1>1, <1>2, TypeCorrect, NextTakesInOrder, PTL DEF Spec, FirstInFirstOut

-----------------------------------------------------------------------------
(* PausedUsersOnlyLeave. *)

(* One step of PausedUsersOnlyLeave. *)
OnlyLeave ==
    /\ UNCHANGED <<indexVars, rewardsPerTokenBP, packBalance>>
    /\ \A a \in Accounts :
         /\ usersData'[a].totalAmountDeposited <= Stake(a)
         /\ usersData'[a].accumRewardsBP = usersData[a].accumRewardsBP
         /\ usersData'[a].activeBoosterPack = usersData[a].activeBoosterPack

(* A transaction without visits settles nothing. *)
LEMMA NoVisitsSettleNothing ==
    ASSUME TypeOK, NEW caller, Settle(caller, NoVisits)
    PROVE  /\ UNCHANGED rewardsPerTokenBP
           /\ SettledUsers(caller, NoVisits) \in [Accounts -> UserData]
           /\ \A a \in Accounts :
                LET settled == SettledUsers(caller, NoVisits)
                IN  /\ settled[a].totalAmountDeposited = Stake(a)
                    /\ settled[a].accumRewardsBP = usersData[a].accumRewardsBP
                    /\ settled[a].activeBoosterPack = usersData[a].activeBoosterPack
<1>1. \A a \in Accounts : NoVisits[a] = 0
  BY DEF NoVisits
<1>2. rewardsPerTokenBP' = [a \in Accounts |-> IndexAfter(a, NoVisits[a])]
  BY DEF Settle
<1>3. \A a \in Accounts : IndexAfter(a, NoVisits[a]) = rewardsPerTokenBP[a]
  BY <1>1, UnvisitedKeepsAll
<1>4. rewardsPerTokenBP' = rewardsPerTokenBP
  BY <1>2, <1>3 DEF TypeOK
<1> QED BY <1>1, <1>4, SettlementIsTyped, UnvisitedKeepsAll

(* A transaction of a user of a paused pool does no more than that. *)
LEMMA PausedUserOnlyLeaves ==
    ASSUME TypeOK, paused, UserStep
    PROVE  OnlyLeave
<1>1. ~ \E u \in Users, amount \in Amounts : Deposit(u, amount)
  BY DEF Deposit, WhenNotPaused
<1>2. ~ \E u \in Users, id \in PackIds \cap Slots : BurnBP(u, id)
  BY DEF BurnBP, WhenNotPaused
<1>3. ASSUME NEW u \in Users, NEW amount \in Amounts, Withdraw(u, amount)
      PROVE  OnlyLeave
  <2> DEFINE deposits == usersData[u].deposits
             first    == usersData[u].nextDepositIdToRemove
             settled  == SettledUsers(u, NoVisits)
  <2>1. u \in Accounts /\ amount \in Nat
    BY UsersAreAccounts, PoolAssumption
  <2>2. VisitsOfWithdraw = NoVisits
    BY DEF VisitsOfWithdraw
  <2>3. /\ UNCHANGED <<indexVars, packVars>>
        /\ Settle(u, NoVisits)
    BY <1>3, <2>2 DEF Withdraw, UpdateUnlessPaused
  <2>4. PICK k \in (first - 1)..Len(deposits) :
           LET w == Withdrawal(deposits, withdrawFees, first, amount, k)
           IN  /\ DrainsThrough(deposits, withdrawFees, first, amount, k)
               /\ NetsFit(deposits, withdrawFees, first, k)
               /\ usersData' = [settled EXCEPT ![u] = AfterWithdrawal(settled[u], w)]
    BY <1>3, <2>2, WithdrawalGoesThrough
  <2> DEFINE w == Withdrawal(deposits, withdrawFees, first, amount, k)
  <2>5. StakeDebit(w) \in Nat
    <3>1. deposits \in Deposits /\ first \in Nat \ {0} /\ withdrawFees \in Fees
      BY <2>1 DEF TypeOK, UserData, Deposits, DepositData, Fees
    <3>2. w.drained \in Nat /\ w.rest \in Nat
      BY <2>1, <2>4, <3>1, WithdrawalIsTyped
    <3> HIDE DEF w
    <3> QED BY <3>2 DEF StakeDebit
  <2>6. usersData' = [settled EXCEPT ![u] = AfterWithdrawal(settled[u], w)]
    BY <2>4
  <2>7. /\ UNCHANGED rewardsPerTokenBP
        /\ settled \in [Accounts -> UserData]
        /\ \A a \in Accounts :
             /\ settled[a].totalAmountDeposited = Stake(a) /\ Stake(a) \in Nat
             /\ settled[a].accumRewardsBP = usersData[a].accumRewardsBP
             /\ settled[a].activeBoosterPack = usersData[a].activeBoosterPack
    BY <2>3, NoVisitsSettleNothing DEF Stake, TypeOK, UserData
  <2> HIDE DEF w, settled
  <2>8. /\ \A a \in Accounts \ {u} : usersData'[a] = settled[a]
        /\ usersData'[u].totalAmountDeposited
             = settled[u].totalAmountDeposited - StakeDebit(w)
        /\ usersData'[u].accumRewardsBP = settled[u].accumRewardsBP
        /\ usersData'[u].activeBoosterPack = settled[u].activeBoosterPack
    BY <2>1, <2>6, <2>7 DEF AfterWithdrawal, UserData
  <2>9. usersData'[u].totalAmountDeposited <= Stake(u)
    BY <2>1, <2>5, <2>7, <2>8
  <2>10. \A a \in Accounts : usersData'[a].totalAmountDeposited <= Stake(a)
    BY <2>7, <2>8, <2>9
  <2> QED BY <2>3, <2>7, <2>8, <2>10 DEF OnlyLeave, packVars
<1>4. ASSUME NEW caller \in Callers, NEW user \in Users, ClaimRewards(caller, user)
      PROVE  OnlyLeave
  <2> DEFINE total   == TotalRewards(user, rewardsPerToken')
             settled == SettledUsers(caller, NoVisits)
  <2>1. user \in Accounts
    BY UsersAreAccounts
  <2>2. /\ UNCHANGED <<indexVars, packVars>>
        /\ Settle(caller, NoVisits)
        /\ usersData' = [settled EXCEPT ![user] = AfterClaim(settled[user], total)]
    BY <1>4 DEF ClaimRewards, UpdateUnlessPaused
  <2>3. /\ UNCHANGED rewardsPerTokenBP
        /\ settled \in [Accounts -> UserData]
        /\ \A a \in Accounts :
             /\ settled[a].totalAmountDeposited = Stake(a) /\ Stake(a) \in Nat
             /\ settled[a].accumRewardsBP = usersData[a].accumRewardsBP
             /\ settled[a].activeBoosterPack = usersData[a].activeBoosterPack
    BY <2>2, NoVisitsSettleNothing DEF Stake, TypeOK, UserData
  <2> HIDE DEF settled, total
  <2>4. \A a \in Accounts :
          /\ usersData'[a].totalAmountDeposited = settled[a].totalAmountDeposited
          /\ usersData'[a].accumRewardsBP = settled[a].accumRewardsBP
          /\ usersData'[a].activeBoosterPack = settled[a].activeBoosterPack
    BY <2>1, <2>2, <2>3 DEF AfterClaim, UserData
  <2> QED BY <2>2, <2>3, <2>4 DEF OnlyLeave, packVars
<1> QED BY <1>1, <1>2, <1>3, <1>4 DEF UserStep

(* While the pool is paused no transaction of a user moves an index,       *)
(* raises a stake, credits a booster or activates one.                     *)
THEOREM PausedPoolIsFrozenForUsers == Spec => PausedUsersOnlyLeave
<1>1. TypeOK /\ [Next]_vars =>
        [paused /\ UserStep =>
           /\ UNCHANGED <<indexVars, rewardsPerTokenBP, packBalance>>
           /\ \A a \in Accounts :
                /\ usersData'[a].totalAmountDeposited <= Stake(a)
                /\ usersData'[a].accumRewardsBP = usersData[a].accumRewardsBP
                /\ usersData'[a].activeBoosterPack = usersData[a].activeBoosterPack]_vars
  BY PausedUserOnlyLeaves DEF OnlyLeave
<1> QED BY <1>1, TypeCorrect, PTL DEF Spec, PausedUsersOnlyLeave

=============================================================================
