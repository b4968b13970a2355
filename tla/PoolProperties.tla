--------------------------- MODULE PoolProperties ---------------------------
(***************************************************************************)
(* What Pool promises: invariants of its states and properties of its      *)
(* steps, and what the documentation of the contract promises beyond that. *)
(***************************************************************************)
EXTENDS Pool

(* Every variable has its type, and the counters the code checks never     *)
(* leave the width of their storage.                                       *)
TypeOK ==
    /\ block \in Nat
    /\ paused \in BOOLEAN
    /\ baseRate \in Nat
    /\ depositFee \in Nat
    /\ rewardsMultipliers \in Seq([blockNumber : Nat, multiplier : Nat])
    /\ withdrawFees \in Seq([blockNumber : Nat, fee : Nat])
    /\ totalAmount \in Uint128
    /\ rewardsPerToken \in Uint128
    /\ lastBlockUpdated \in Nat
    /\ usersData \in [Accounts -> UserData]
    /\ usersWithBoosterPacks \in Seq(Accounts)
    /\ rewardsPerTokenBP \in [Accounts -> Uint128]
    /\ balance \in [Accounts -> Nat]
    /\ PackTypeOK

-----------------------------------------------------------------------------
(* Stakes and deposits. *)

DepositedBy(u) ==
    LET deposits == usersData[u].deposits
    IN  SumOver([i \in DOMAIN deposits |-> deposits[i].amount], DOMAIN deposits)

(* A user's recorded stake is what the user's deposits still hold, however *)
(* deposits, partial and full withdrawals were interleaved.                *)
DepositsBackStakes == \A u \in Accounts : Stake(u) = DepositedBy(u)

(* The pool's total is never below the stakes it is made of, although a    *)
(* partial withdrawal lowers only the stake: the checked subtraction from  *)
(* _totalAmount in withdraw cannot revert.                                 *)
TotalCoversStakes == Stakes <= totalAmount

(* A withdrawal touches a deposit only when every earlier deposit of the   *)
(* same user is empty afterwards: deposits leave first in, first out, and  *)
(* nextDepositIdToRemove never skips one that holds something.             *)
FirstInFirstOut ==
    [][\A u \in Accounts : \A i \in DOMAIN usersData[u].deposits :
         usersData'[u].deposits[i] # usersData[u].deposits[i]
           => \A j \in 1..(i-1) : usersData'[u].deposits[j].amount = 0]_vars

(* Whatever leaves the pool in one step is at least the stake debited in   *)
(* it, and exceeds that stake by no more than the highest withdraw fee on  *)
(* it: the fee of a deposit that is consumed in part is paid by the pool.  *)
OverdraftBoundedByFee ==
    [][LET out   == balance[PoolAddr] - balance'[PoolAddr]
           debit == Stakes - Stakes'
           fees  == {0} \cup {withdrawFees[i].fee : i \in DOMAIN withdrawFees}
       IN  out > 0 \/ debit > 0 =>
             debit <= out /\ out <= debit + FeeAmount(debit, Thousandths(Max(fees)))]_vars

Ledger == INSTANCE StakeLedger WITH
    stake   <- [a \in Accounts |-> Stake(a)],
    custody <- balance[PoolAddr],
    frozen  <- paused

(* The pool implements the abstract ledger: a step changes the stake of    *)
(* one account at most, no stake grows while the pool is paused, and what  *)
(* one account does never moves the stake of another.                      *)
ImplementsLedger == Ledger!Spec

(* The pool holds the tokens of every stake.  Holds where no withdraw fee  *)
(* is charged; with fees see OverdraftBoundedByFee.                        *)
PoolBacksStakes == Stakes <= balance[PoolAddr]

(* A paused pool lets every staker leave with the whole stake, whatever    *)
(* state the boosters are in.  Holds where no withdraw fee is charged.     *)
PausedExitOpen ==
    paused => \A u \in Users : ENABLED Withdraw(u, Stake(u))

-----------------------------------------------------------------------------
(* Rewards. *)

SumOfAccounts(f) == SumOver(f, Accounts)

(* Every token beyond the initial supply was minted by claimRewards and is *)
(* recorded: in accumRewards, or in accumRewardsBP once it is no longer    *)
(* claimable.  Deposits, withdrawals and fees create and destroy nothing.  *)
EveryMintAccounted ==
    SumOfAccounts(balance)
      + SumOfAccounts([a \in Accounts |-> usersData[a].claimableRewardsBP])
    = SumOfAccounts(InitBalance)
      + SumOfAccounts([a \in Accounts |-> usersData[a].accumRewards])
      + SumOfAccounts([a \in Accounts |-> usersData[a].accumRewardsBP])

(* Settlements never run ahead of the chain, and no user's starting index  *)
(* is ahead of the pool's: the checked subtractions of claimRewards and of *)
(* the reward walk cannot revert there.  An active pack was activated at   *)
(* or before the last settlement: the walk that moves an active booster's  *)
(* index starts at or after its activation.  (That is about the index, not *)
(* about credits: a claim resets claimableRewardsBP, and the next one      *)
(* credits the index from 0 again, blocks of earlier packs included.)      *)
SettlementsInOrder ==
    /\ lastBlockUpdated <= block
    /\ \A u \in Accounts :
         /\ usersData[u].rewardsPerToken <= rewardsPerToken
         /\ usersData[u].activeBoosterPack # 0
              => usersData[u].boosterPackActivationBlock <= lastBlockUpdated

(* What the schedule in force emits in block b: the base rate times the    *)
(* multiplier of the first tier that reaches b, and nothing past the last  *)
(* tier.  README says otherwise, see EmissionPerBlock.                     *)
BlockEmission(b) ==
    LET reaching == {i \in DOMAIN rewardsMultipliers :
                        b <= rewardsMultipliers[i].blockNumber}
    IN  IF reaching = {} THEN 0
        ELSE baseRate * rewardsMultipliers[Min(reaching)].multiplier

EmissionOver(blocks) == SumOver([b \in blocks |-> BlockEmission(b)], blocks)

(* What the schedule of the constructor emits in block b. *)
InitEmission(b) ==
    LET reaching == {i \in DOMAIN InitMultipliers :
                        b <= InitMultipliers[i].blockNumber}
    IN  IF reaching = {} THEN 0
        ELSE InitBaseRate * InitMultipliers[Min(reaching)].multiplier

(* All users together never claim more than the schedule has emitted,      *)
(* however deposits, partial withdrawals, claims and pauses take turns: no *)
(* user is paid for blocks before the first deposit of the user, and none  *)
(* twice.  Holds where the owner never raises the emission, and where each *)
(* user deposits once (a second deposit is paid for the blocks before it). *)
ClaimsWithinEmission ==
    SumOfAccounts([a \in Accounts |-> usersData[a].accumRewards])
      <= SumOver([b \in 1..block |-> InitEmission(b)], 1..block)

(* A step of the reward index pays for no block before the last settlement *)
(* and for none after the current one, and pays each at most what the base *)
(* rate and the schedule in force at this settlement give it, however the  *)
(* owner has edited them.  Whether those are the rate and the tier that    *)
(* README promises for the block is the subject of EmissionPerBlock and    *)
(* EmittedBlocksKeepTheirRate.                                             *)
EachBlockPaidAtMostOnce ==
    [][/\ rewardsPerToken <= rewardsPerToken'
       /\ (rewardsPerToken' - rewardsPerToken) * totalAmount
            <= EmissionOver((lastBlockUpdated + 1)..block) * MULTIPLIER
       /\ rewardsPerToken # rewardsPerToken'
            => totalAmount > 0 /\ lastBlockUpdated' = block]_vars

(* While the pool is paused the users' transactions only let them leave:   *)
(* no index moves, no stake grows, no booster earns or is activated.  (The *)
(* owner's pause() still settles: see UnpauseOwesNothing.)                 *)
PausedUsersOnlyLeave ==
    [][paused /\ UserStep =>
         /\ UNCHANGED <<indexVars, rewardsPerTokenBP, packBalance>>
         /\ \A a \in Accounts :
              /\ usersData'[a].totalAmountDeposited <= Stake(a)
              /\ usersData'[a].accumRewardsBP = usersData[a].accumRewardsBP
              /\ usersData'[a].activeBoosterPack = usersData[a].activeBoosterPack]_vars

(* A user with an active pack is on the list that the settlements of the   *)
(* other transactions walk, whatever holes and duplicates the list has.    *)
BoosterRegistered ==
    \A u \in Accounts : usersData[u].activeBoosterPack # 0 =>
        \E i \in DOMAIN usersWithBoosterPacks : usersWithBoosterPacks[i] = u

PackSupply(packs) ==
    SumOver([p \in Accounts \X PackIds |-> packs[p[1]][p[2]]], Accounts \X PackIds)

(* The list has one entry or hole for each pack that was burned for this   *)
(* pool: no activation without a burned pack, none counted twice.  Holds   *)
(* where packs are neither minted nor burned outside the pool.             *)
OnePackPerActivation ==
    PackSupply(packBalance) + Len(usersWithBoosterPacks) = PackSupply(InitPackBalance)

(* The whitelist of BoosterPack governs every pack: the number of packs    *)
(* changes only while somebody is on it, and the pool activates a booster  *)
(* only while the pool is on it, and destroys exactly one pack for it.     *)
WhitelistGovernsPacks ==
    [][/\ PackSupply(packBalance') # PackSupply(packBalance)
            => whitelistedAddrBP # {}
       /\ Len(usersWithBoosterPacks') > Len(usersWithBoosterPacks)
            => /\ PoolAddr \in whitelistedAddrBP
               /\ PackSupply(packBalance') = PackSupply(packBalance) - 1]_vars

PacksOf(id) == SumOfAccounts([a \in Accounts |-> packBalance[a][id]])

(* A pack that exists reads as existing when the pool looks it up, also    *)
(* when another id shares its attributes.  Holds where nobody gives a pack *)
(* the expiration date 0.                                                  *)
MintedPackExists ==
    \A id \in PackIds : PacksOf(id) > 0 => attributes[Slot(id)].expirationDate # 0

-----------------------------------------------------------------------------
(* What README.md and comments say of the contract and its code does not   *)
(* do: each is the property of a run that ends in a counterexample.        *)

(* README: users can claim their pending rewards at any time.  In the code *)
(* claimRewards reverts once a withdrawal has brought the rewards computed *)
(* from the remaining stake below those already claimed.                   *)
ClaimOpen == \A u \in Users : ENABLED ClaimRewards(u, u)

(* README: freezing stops the accrual of new rewards.  When a pool is      *)
(* unpaused nothing should be owed for the paused blocks; in the code they *)
(* are credited by the next settlement.                                    *)
UnpauseOwesNothing ==
    [][paused /\ ~paused' => AccruedTo(block) = 0]_vars

(* The index after a settlement in this block: what the pool has promised  *)
(* to each deposited unit so far.                                          *)
IndexOwed == rewardsPerToken + AccruedTo(block)

(* The multiplier README gives block b: 1x where the schedule has no tier. *)
DocumentedMultiplier(b) ==
    LET reaching == {i \in DOMAIN rewardsMultipliers :
                        b <= rewardsMultipliers[i].blockNumber}
    IN  IF reaching = {} THEN 1 ELSE rewardsMultipliers[Min(reaching)].multiplier

(* README: in each block the number of tokens emitted is the base rate     *)
(* times the multiplier of the period, and a block of no period has 1x.    *)
(* Up to the rounding of the index.  In the code a block past the last     *)
(* tier emits nothing; nor does, inside the schedule, the first block of a *)
(* tier that the walk reaches from an earlier one.                         *)
EmissionPerBlock ==
    [][block' # block /\ ~paused /\ totalAmount > 0 =>
         LET emitted  == (IndexOwed' - IndexOwed) * totalAmount
             promised == baseRate * DocumentedMultiplier(block') * MULTIPLIER
         IN  promised - totalAmount < emitted /\ emitted < promised + totalAmount]_vars

(* README: the emission of a block is the base rate times the multiplier,  *)
(* and the owner can change the rate.  No transaction changes what was     *)
(* emitted in the blocks so far; in the code the setters do not settle,    *)
(* and a new rate prices every block since the last settlement.            *)
EmittedBlocksKeepTheirRate ==
    [][block' = block /\ ~paused => IndexOwed' = IndexOwed]_vars

(* README: the fee depends on how long the tokens were locked, and none is *)
(* due where no period is defined.  In the code it depends on the block of *)
(* the deposit alone.                                                      *)
NoFeeAfterLastPeriod ==
    \A u \in Users : \A i \in DOMAIN usersData[u].deposits :
        LET deposit == usersData[u].deposits[i]
        IN  (\A row \in DOMAIN withdrawFees :
                withdrawFees[row].blockNumber < block - deposit.blockNumber)
              => CalcWithdrawFeePerBlock(withdrawFees, deposit.blockNumber) = 0

(* README: it is possible for the owner to freeze the pool.  In the code   *)
(* pause() settles every booster first, and reverts when a user whose      *)
(* booster credit is not claimed yet has withdrawn the whole stake since.  *)
(* Nothing that user does ends it: the user's claim and deposit settle the *)
(* booster as well, and revert at the same place.                          *)
FreezeOpen == ENABLED Pause
=============================================================================
