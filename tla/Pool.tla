-------------------------------- MODULE Pool --------------------------------
(***************************************************************************)
(* src/Pool.sol: one reward pool, with the ERC-20 it accepts (`balance')   *)
(* and the booster packs it burns (module BoosterPack).                    *)
(*                                                                         *)
(* A transaction is one action: the EVM runs it alone and to its end, and  *)
(* a transaction that reverts leaves no trace, so its action is disabled.  *)
(* What remains concurrent is the order in which users, the owner and the  *)
(* blocks take turns.  Every action stands for the whole function it is    *)
(* named for, with the settlements it runs first.                          *)
(***************************************************************************)
EXTENDS PoolMath, BoosterPack

CONSTANTS
    Users,              \* accounts that deposit, withdraw, claim and burn
    Owner,              \* Ownable.owner() of the pool
    FeeRecipient,       \* _depositFeeRecipient
    PoolAddr,           \* address(this)
    InitBaseRate,       \* constructor arguments
    InitDepositFee,
    InitMultipliers,
    InitFees,
    InitBalance,        \* deposit asset held by each account at the start
    InitPackBalance,    \* packs minted before the pool is used ...
    InitAttributes,     \* ... and their attributes
    InitWhitelist,      \* addresses allowed to mint and burn packs
    Amounts,            \* amounts passed to deposit and withdraw
    BaseRates,          \* values the owner passes to the setters
    DepositFees,
    Tiers,
    FeeRows,
    MaxBlock,           \* bound: highest block number
    MaxDeposits,        \* bound: deposits of one user
    MaxBurns,           \* bound: packs burned for this pool
    MaxRows,            \* bound: rows of the schedule and of the fee table
    MaxBalance          \* bound: balance up to which a user claims

ASSUME PoolAssumption ==
    /\ Users \cup {Owner, FeeRecipient, Zero, PoolAddr} \subseteq Accounts
    /\ Zero \notin Users \cup {Owner, FeeRecipient, PoolAddr}
    /\ PoolAddr \notin Users \cup {Owner, FeeRecipient}
    /\ InitBaseRate \in Nat /\ InitDepositFee \in Nat
    /\ InitMultipliers \in Seq([blockNumber : Nat, multiplier : Nat])
    /\ InitFees \in Seq([blockNumber : Nat, fee : Nat])
    /\ InitBalance \in [Accounts -> Nat]
    /\ InitBalance[PoolAddr] = 0
    /\ InitPackBalance \in [Accounts -> [PackIds -> Nat]]
    /\ InitAttributes \in [Slots -> Attributes]
    /\ InitWhitelist \subseteq Accounts
    /\ Amounts \subseteq Nat
    /\ BaseRates \subseteq Nat /\ DepositFees \subseteq Nat
    /\ Tiers \subseteq [blockNumber : Nat \ {0}, multiplier : Nat \ {0}]
    /\ FeeRows \subseteq [blockNumber : Nat \ {0}, fee : Nat \ {0}]
    /\ MaxBlock \in Nat /\ MaxDeposits \in Nat /\ MaxBurns \in Nat
    /\ MaxRows \in Nat /\ MaxBalance \in Nat

(* Addresses have 160 bits, token ids 256. *)
ASSUME FiniteAccounts == IsFiniteSet(Accounts)
ASSUME FinitePackIds  == IsFiniteSet(PackIds)

VARIABLES
    block,                  \* block.number
    paused,
    baseRate,               \* _baseRateTokensPerBlock
    depositFee,
    rewardsMultipliers,
    withdrawFees,
    totalAmount,
    rewardsPerToken,
    lastBlockUpdated,
    usersData,
    usersWithBoosterPacks,
    rewardsPerTokenBP,      \* _rewardsPerTokenBoosterPack
    balance                 \* the deposit asset's ERC-20 balances

configVars == <<paused, baseRate, depositFee, rewardsMultipliers, withdrawFees>>
indexVars  == <<rewardsPerToken, lastBlockUpdated>>
stakeVars  == <<totalAmount, usersData>>
boostVars  == <<usersWithBoosterPacks, rewardsPerTokenBP>>
poolVars   == <<configVars, indexVars, stakeVars, boostVars>>
vars       == <<block, poolVars, balance, packVars>>

-----------------------------------------------------------------------------
DepositData == [blockNumber : Nat, amount : Nat]

UserData ==
    [accumRewards               : Uint64,
     accumRewardsBP             : Uint64,
     claimableRewardsBP         : Uint64,
     totalAmountDeposited       : Nat,
     activeBoosterPack          : Slots,
     boosterPackActivationBlock : Nat,
     nextDepositIdToRemove      : Nat \ {0},
     rewardsPerToken            : Nat,
     deposits                   : Seq(DepositData)]

(* A mapping entry that was never written. *)
NoUserData ==
    [accumRewards |-> 0, accumRewardsBP |-> 0, claimableRewardsBP |-> 0,
     totalAmountDeposited |-> 0, activeBoosterPack |-> 0,
     boosterPackActivationBlock |-> 0, nextDepositIdToRemove |-> 1,
     rewardsPerToken |-> 0, deposits |-> <<>>]

(* The state the constructor leaves. *)
Init ==
    /\ block = 1
    /\ paused = FALSE
    /\ baseRate = InitBaseRate
    /\ depositFee = InitDepositFee
    /\ rewardsMultipliers = InitMultipliers
    /\ withdrawFees = InitFees
    /\ totalAmount = 0
    /\ rewardsPerToken = 0
    /\ lastBlockUpdated = 0
    /\ usersData = [a \in Accounts |-> NoUserData]
    /\ usersWithBoosterPacks = <<>>
    /\ rewardsPerTokenBP = [a \in Accounts |-> 0]
    /\ balance = InitBalance
    /\ packBalance = InitPackBalance
    /\ attributes = InitAttributes
    /\ whitelistedAddrBP = InitWhitelist

Stake(u) == usersData[u].totalAmountDeposited

Stakes == SumOver([a \in Accounts |-> Stake(a)], Accounts)

(* The modifier. *)
WhenNotPausedMutant == TRUE

WhenNotPaused == ~paused

-----------------------------------------------------------------------------
(* The reward index. *)

AccruedTo(to) ==
    Accrual(rewardsMultipliers, baseRate, totalAmount, lastBlockUpdated, to)

AccruedToFits(to) ==
    AccrualFits(rewardsMultipliers, baseRate, totalAmount, lastBlockUpdated, to)

(* An empty pool is not settled. *)
UpdateRewardsPerTokenMutant ==
    /\ AccruedToFits(block)
    /\ rewardsPerToken' = rewardsPerToken + AccruedTo(block)
    /\ lastBlockUpdated' = IF totalAmount = 0 THEN lastBlockUpdated ELSE block

UpdateRewardsPerToken ==
    /\ AccruedToFits(block)
    /\ AccruedTo(block) \in Uint128
    /\ rewardsPerToken + AccruedTo(block) <= MaxUint128
    /\ rewardsPerToken' = rewardsPerToken + AccruedTo(block)
    /\ lastBlockUpdated' = block

UpdateUnlessPausedMutant == UpdateRewardsPerToken

(* withdraw and claimRewards: paused, the pool updates no rewards. *)
UpdateUnlessPaused ==
    IF paused THEN UNCHANGED indexVars ELSE UpdateRewardsPerToken

-----------------------------------------------------------------------------
(* Booster settlement.  Settling an account (_calcBPRewardsUser, followed   *)
(* by the expiry test of its two callers) reads and writes only what       *)
(* belongs to that account, so a transaction is described by how often it  *)
(* visits each one.  Visits of different accounts commute.                 *)

Activation(a) ==
    [pack  |-> usersData[a].activeBoosterPack,
     start |-> usersData[a].boosterPackActivationBlock]

EndOf(activation) == activation.start + attributes[activation.pack].duration

Expire(activation) ==
    IF EndOf(activation) < block THEN [pack |-> 0, start |-> 0] ELSE activation

(* What the n-th visit finds: the expiry test of the first visit is the    *)
(* only one that can change anything.                                      *)
ActivationAt(a, n) == IF n <= 1 THEN Activation(a) ELSE Expire(Activation(a))

(* The block up to which the n-th visit moves the index of the account. *)
BoostedUntil(a, n) == Min({block, EndOf(ActivationAt(a, n))})

(* The index of account a after n visits.  Each visit adds the same blocks *)
(* again: lastBlockUpdated moves only when the last visit is over.         *)
IndexAfter(a, n) ==
    rewardsPerTokenBP[a] +
        (IF n = 0 THEN 0
         ELSE AccruedTo(BoostedUntil(a, 1)) + (n - 1) * AccruedTo(BoostedUntil(a, 2)))

(* Measured from the reward index of msg.sender, not of account a. *)
ScaledRewards(caller, a, n) ==
    (IndexAfter(a, n) - usersData[caller].rewardsPerToken) * Stake(a)

(* claimableRewardsBP after n visits: each overwrites it. *)
CreditAfter(caller, a, n) ==
    IF n = 0 THEN usersData[a].claimableRewardsBP
    ELSE ToUint64(ScaledRewards(caller, a, n) \div MULTIPLIER)
           * attributes[ActivationAt(a, n).pack].multiplier

(* No checked operation of the first n visits reverts. *)
VisitsFit(caller, a, n) ==
    \A i \in 1..n :
        /\ EndOf(ActivationAt(a, i)) <= MaxUint64
        /\ AccruedToFits(BoostedUntil(a, i))
        /\ usersData[caller].rewardsPerToken <= IndexAfter(a, i)
        /\ ScaledRewards(caller, a, i) <= MaxUint128
        /\ CreditAfter(caller, a, i - 1) <= CreditAfter(caller, a, i)

(* What is already claimable is added again. *)
AccumAfterMutant(caller, a, n) ==
    usersData[a].accumRewardsBP + CreditAfter(caller, a, n)

(* accumRewardsBP after n visits. *)
AccumAfter(caller, a, n) ==
    usersData[a].accumRewardsBP
      + (CreditAfter(caller, a, n) - usersData[a].claimableRewardsBP)

(* What is written back after n visits. *)
Boost(caller, a, n) ==
    LET activation == IF n = 0 THEN Activation(a) ELSE Expire(Activation(a))
    IN  [index     |-> IndexAfter(a, n),
         claimable |-> CreditAfter(caller, a, n),
         accum     |-> AccumAfter(caller, a, n),
         pack      |-> activation.pack,
         start     |-> activation.start]

StoredBoost == [index : Uint128, claimable : Uint64, accum : Uint64,
                pack : Slots, start : Nat]

SettlementFits(caller, visits) ==
    \A a \in Accounts : /\ VisitsFit(caller, a, visits[a])
                        /\ Boost(caller, a, visits[a]) \in StoredBoost

Settle(caller, visits) ==
    /\ SettlementFits(caller, visits)
    /\ rewardsPerTokenBP' = [a \in Accounts |-> IndexAfter(a, visits[a])]

(* usersData after the visits. *)
SettledUsers(caller, visits) ==
    [a \in Accounts |->
        LET boost == Boost(caller, a, visits[a])
        IN  [usersData[a] EXCEPT !.claimableRewardsBP = boost.claimable,
                                 !.accumRewardsBP = boost.accum,
                                 !.activeBoosterPack = boost.pack,
                                 !.boosterPackActivationBlock = boost.start]]

NoVisits == [a \in Accounts |-> 0]

(* _calcBPRewards: one visit for each entry of the list, holes included. *)
CalcBPRewards ==
    [a \in Accounts |-> Cardinality({i \in DOMAIN usersWithBoosterPacks :
                                        usersWithBoosterPacks[i] = a})]

(* _checkBPExpired: one visit, when the user has an active pack. *)
CheckBPExpired(user) ==
    IF usersData[user].activeBoosterPack = 0 THEN NoVisits
    ELSE [NoVisits EXCEPT ![user] = 1]

(* The entry of a user is deleted while the pack is still active. *)
PackExpiresMutant(user) == usersData[user].activeBoosterPack # 0

PackExpires(user) ==
    usersData[user].activeBoosterPack # 0 /\ EndOf(Activation(user)) < block

(* The entries of the user are cut out of the list. *)
ListAfterCheckMutant(user) ==
    LET Others(a) == a # user
    IN  IF PackExpires(user) THEN SelectSeq(usersWithBoosterPacks, Others)
        ELSE usersWithBoosterPacks

(* The list after _checkBPExpired: when the pack has expired, the first    *)
(* entry of the user is deleted, which leaves address(0) in its place.     *)
ListAfterCheck(user) ==
    IF PackExpires(user)
    THEN [i \in DOMAIN usersWithBoosterPacks |->
            IF /\ usersWithBoosterPacks[i] = user
               /\ \A j \in 1..(i-1) : usersWithBoosterPacks[j] # user
            THEN Zero ELSE usersWithBoosterPacks[i]]
    ELSE usersWithBoosterPacks

-----------------------------------------------------------------------------
(* User transactions. *)

(* The first deposit keeps the index of an account that was never written. *)
AfterDepositMutant(user, amount, index) ==
    [user EXCEPT !.deposits = Append(@, [blockNumber |-> block, amount |-> amount]),
                 !.totalAmountDeposited = @ + amount]

(* user with one more deposit; the first one also fixes the index that the *)
(* user's rewards are measured from.                                       *)
AfterDeposit(user, amount, index) ==
    LET isFirst == user.deposits = <<>>
    IN  [user EXCEPT !.deposits = Append(@, [blockNumber |-> block, amount |-> amount]),
                     !.totalAmountDeposited = @ + amount,
                     !.nextDepositIdToRemove = IF isFirst THEN 1 ELSE @,
                     !.rewardsPerToken = IF isFirst THEN index ELSE @]

Deposit(u, amount) ==
    LET deposited == amount - FeeAmount(amount, Thousandths(depositFee))
        afterFee  == Transfer(balance, u, FeeRecipient, amount - deposited)
    IN
    /\ WhenNotPaused
    /\ Len(usersData[u].deposits) < MaxDeposits
    /\ Settle(u, CalcBPRewards)
    /\ UpdateRewardsPerToken
    /\ depositFee * MULTIPLIER <= MaxUint128
    /\ amount * Thousandths(depositFee) <= MaxUint128
    /\ deposited >= 0
    /\ Covers(balance, u, deposited)
    /\ Covers(balance, u, amount - deposited)
    /\ Covers(afterFee, u, deposited)
    /\ balance' = Transfer(afterFee, u, PoolAddr, deposited)
    /\ totalAmount + deposited <= MaxUint128
    /\ totalAmount' = totalAmount + deposited
    /\ usersData' = [SettledUsers(u, CalcBPRewards) EXCEPT
                       ![u] = AfterDeposit(@, deposited, rewardsPerToken')]
    /\ UNCHANGED <<block, configVars, usersWithBoosterPacks, packVars>>

VisitsOfWithdrawMutant == CalcBPRewards

(* Paused, the pool pays out stakes and settles no rewards. *)
VisitsOfWithdraw == IF paused THEN NoVisits ELSE CalcBPRewards

(* The part taken out of the last deposit is not debited. *)
StakeDebitMutant(w) == w.drained

(* What withdrawal w takes from totalAmountDeposited ... *)
StakeDebit(w) == w.drained + w.rest

(* The fee is debited as well. *)
TotalDebitMutant(w) == w.drained + w.fee

(* ... and from _totalAmount: only the deposits it empties. *)
TotalDebit(w) == w.drained

AfterWithdrawal(user, w) ==
    [user EXCEPT !.deposits = w.left,
                 !.totalAmountDeposited = @ - StakeDebit(w),
                 !.nextDepositIdToRemove = w.next]

Withdraw(u, amount) ==
    LET deposits == usersData[u].deposits
        first    == usersData[u].nextDepositIdToRemove
    IN
    /\ Settle(u, VisitsOfWithdraw)
    /\ UpdateUnlessPaused
    /\ amount <= Stake(u)
    /\ \E k \in (first - 1)..Len(deposits) :
         LET w       == Withdrawal(deposits, withdrawFees, first, amount, k)
             afterW  == Transfer(balance, PoolAddr, u, w.paid)
         IN
         /\ DrainsThrough(deposits, withdrawFees, first, amount, k)
         /\ FeesFit(deposits, withdrawFees, first, k, w.rest)
         /\ StakeDebit(w) <= Stake(u)
         /\ TotalDebit(w) <= totalAmount
         /\ totalAmount' = totalAmount - TotalDebit(w)
         /\ Covers(balance, PoolAddr, w.paid)
         /\ Covers(afterW, PoolAddr, w.fee)
         /\ balance' = Transfer(afterW, PoolAddr, FeeRecipient, w.fee)
         /\ usersData' = [SettledUsers(u, VisitsOfWithdraw) EXCEPT
                            ![u] = AfterWithdrawal(@, w)]
    /\ UNCHANGED <<block, configVars, usersWithBoosterPacks, packVars>>

(* The rewards of user's whole stake since the first deposit of the user. *)
TotalRewards(user, index) ==
    ToUint64(((index - usersData[user].rewardsPerToken) * Stake(user)) \div MULTIPLIER)

AfterClaim(user, total) ==
    [user EXCEPT !.accumRewards = total, !.claimableRewardsBP = 0]

(* Called by the user or by anyone else on the user's behalf. *)
ClaimRewards(caller, user) ==
    LET visits == IF paused THEN NoVisits ELSE CheckBPExpired(user)
        total  == TotalRewards(user, rewardsPerToken')
        payout == total - usersData[user].accumRewards
                    + CreditAfter(caller, user, visits[user])
    IN
    /\ Settle(caller, visits)
    /\ UpdateUnlessPaused
    /\ usersData[user].rewardsPerToken <= rewardsPerToken'
    /\ (rewardsPerToken' - usersData[user].rewardsPerToken) * Stake(user) <= MaxUint128
    /\ usersData[user].accumRewards <= total
    /\ balance[user] + payout <= MaxBalance
    /\ balance' = [balance EXCEPT ![user] = @ + payout]
    /\ usersData' = [SettledUsers(caller, visits) EXCEPT ![user] = AfterClaim(@, total)]
    /\ usersWithBoosterPacks' = IF paused THEN usersWithBoosterPacks
                                ELSE ListAfterCheck(user)
    /\ UNCHANGED <<block, configVars, totalAmount, packVars>>

AfterBurn(user, id) ==
    [user EXCEPT !.activeBoosterPack = id, !.boosterPackActivationBlock = block]

BurnBP(u, id) ==
    /\ WhenNotPaused
    /\ Len(usersWithBoosterPacks) < MaxBurns
    /\ Settle(u, CheckBPExpired(u))
    /\ UpdateRewardsPerToken
    /\ SettledUsers(u, CheckBPExpired(u))[u].activeBoosterPack = 0
    /\ attributes[id].expirationDate # 0
    /\ attributes[id].expirationDate >= block
    /\ TransferAndBurn(u, PoolAddr, id)
    /\ usersData' = [SettledUsers(u, CheckBPExpired(u)) EXCEPT ![u] = AfterBurn(@, id)]
    /\ usersWithBoosterPacks' = Append(ListAfterCheck(u), u)
    /\ UNCHANGED <<block, configVars, totalAmount, balance>>

-----------------------------------------------------------------------------
(* Owner transactions.  The setters are closed while the pool is paused and *)
(* settle nothing before the new value takes effect.                        *)

(* pause() settles first, also when the pool is paused already. *)
Pause ==
    /\ paused' = TRUE
    /\ Settle(Owner, CalcBPRewards)
    /\ UpdateRewardsPerToken
    /\ usersData' = SettledUsers(Owner, CalcBPRewards)
    /\ UNCHANGED <<block, baseRate, depositFee, rewardsMultipliers, withdrawFees,
                   totalAmount, usersWithBoosterPacks, balance, packVars>>

Unpause ==
    /\ paused' = FALSE
    /\ UNCHANGED <<block, baseRate, depositFee, rewardsMultipliers, withdrawFees,
                   indexVars, stakeVars, boostVars, balance, packVars>>

UpdateBaseRateTokensPerBlock(rate) ==
    /\ WhenNotPaused
    /\ baseRate' = rate
    /\ UNCHANGED <<block, paused, depositFee, rewardsMultipliers, withdrawFees,
                   indexVars, stakeVars, boostVars, balance, packVars>>

UpdateDepositFee(fee) ==
    /\ WhenNotPaused
    /\ depositFee' = fee
    /\ UNCHANGED <<block, paused, baseRate, rewardsMultipliers, withdrawFees,
                   indexVars, stakeVars, boostVars, balance, packVars>>

ChangeRewardsMultipliers(newRows) ==
    /\ WhenNotPaused
    /\ rewardsMultipliers' = newRows
    /\ UNCHANGED <<block, paused, baseRate, depositFee, withdrawFees,
                   indexVars, stakeVars, boostVars, balance, packVars>>

ChangeWithdrawFees(newRows) ==
    /\ WhenNotPaused
    /\ withdrawFees' = newRows
    /\ UNCHANGED <<block, paused, baseRate, depositFee, rewardsMultipliers,
                   indexVars, stakeVars, boostVars, balance, packVars>>

AddRewardsMultiplier(row) ==
    /\ Len(rewardsMultipliers) < MaxRows
    /\ ChangeRewardsMultipliers(Append(rewardsMultipliers, row))

(* The modifier lets id = length through; the array bound does not. *)
UpdateRewardsMultiplier(id, row) ==
    /\ id \in DOMAIN rewardsMultipliers
    /\ ChangeRewardsMultipliers([rewardsMultipliers EXCEPT ![id] = row])

(* `delete' zeroes the row and keeps its place. *)
RemoveRewardsMultiplier(id) ==
    /\ id \in DOMAIN rewardsMultipliers
    /\ ChangeRewardsMultipliers(
         [rewardsMultipliers EXCEPT ![id] = [blockNumber |-> 0, multiplier |-> 0]])

AddWithdrawFee(row) ==
    /\ Len(withdrawFees) < MaxRows
    /\ ChangeWithdrawFees(Append(withdrawFees, row))

UpdateWithdrawFee(id, row) ==
    /\ id \in DOMAIN withdrawFees
    /\ ChangeWithdrawFees([withdrawFees EXCEPT ![id] = row])

RemoveWithdrawFee(id) ==
    /\ id \in DOMAIN withdrawFees
    /\ ChangeWithdrawFees([withdrawFees EXCEPT ![id] = [blockNumber |-> 0, fee |-> 0]])

-----------------------------------------------------------------------------
NextBlock ==
    /\ block < MaxBlock
    /\ block' = block + 1
    /\ UNCHANGED <<poolVars, balance, packVars>>

(* Transactions sent to the BoosterPack contract itself. *)
PackStep == PackNext /\ UNCHANGED <<block, poolVars, balance>>

Callers == Users \cup {Owner}

UserStep ==
    \/ \E u \in Users, amount \in Amounts : Deposit(u, amount) \/ Withdraw(u, amount)
    \/ \E caller \in Callers, user \in Users : ClaimRewards(caller, user)
    \/ \E u \in Users, id \in PackIds \cap Slots : BurnBP(u, id)

OwnerStep ==
    \/ Pause
    \/ Unpause
    \/ \E rate \in BaseRates : UpdateBaseRateTokensPerBlock(rate)
    \/ \E fee \in DepositFees : UpdateDepositFee(fee)
    \/ \E row \in Tiers : AddRewardsMultiplier(row)
    \/ \E row \in Tiers, id \in 1..MaxRows : UpdateRewardsMultiplier(id, row)
    \/ \E id \in 1..MaxRows : RemoveRewardsMultiplier(id)
    \/ \E row \in FeeRows : AddWithdrawFee(row)
    \/ \E row \in FeeRows, id \in 1..MaxRows : UpdateWithdrawFee(id, row)
    \/ \E id \in 1..MaxRows : RemoveWithdrawFee(id)

Next == NextBlock \/ UserStep \/ OwnerStep \/ PackStep

Spec == Init /\ [][Next]_vars
=============================================================================
