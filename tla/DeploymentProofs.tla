-------------------------- MODULE DeploymentProofs --------------------------
(***************************************************************************)
(* Theorems about Deployment: the records of the three contracts, and what *)
(* becomes of a pool that the manager made.                                *)
(***************************************************************************)
EXTENDS Deployment, PoolMathProofs

-----------------------------------------------------------------------------
(* What the records agree on, with what keeps them in agreement: the       *)
(* manager keeps the two contracts it deployed, and only what is deployed  *)
(* has an owner.                                                           *)
Contracts == {Manager, Factory, BoosterPacks} \cup Tokens

OwnersKnown ==
    /\ owner = [c \in Contracts \cup created |-> owner[c]]
    /\ owner[Factory] = Manager /\ owner[BoosterPacks] = Manager
    /\ created \subseteq {PoolA, PoolB}
    /\ pools \in Seq({PoolA, PoolB}) /\ ToSet(pools) \subseteq created

RecordsInv == OwnersKnown /\ RecordsAgree

(* Pools, users and tokens never change who owns what or what is listed.   *)
OwnersKept == UNCHANGED <<registry, whitelistedAddrBP>>

(* No transaction sent to a pool touches the whitelist of the packs.       *)
LEMMA PoolsKeepWhitelist ==
    ASSUME StepA \/ StepB PROVE OwnersKept
<1>1. ASSUME StepA PROVE whitelistedAddrBP' = whitelistedAddrBP
  <2> DEFINE Kept == whitelistedAddrBP' = whitelistedAddrBP
  <2>1. ASSUME NEW u, NEW amount, A!Deposit(u, amount) \/ A!Withdraw(u, amount) PROVE Kept
    BY <2>1 DEF A!Deposit, A!Withdraw, A!packVars
  <2>2. ASSUME NEW u, NEW id, A!BurnBP(u, id) PROVE Kept
    BY <2>2 DEF A!BurnBP, A!TransferAndBurn
  <2>3. ASSUME NEW caller, NEW u, A!ClaimRewards(caller, u) PROVE Kept
    BY <2>3 DEF A!ClaimRewards, A!packVars
  <2>4. ASSUME A!OwnerStep PROVE Kept
    BY <2>4 DEF A!packVars, A!OwnerStep, A!Pause, A!Unpause,
       A!UpdateBaseRateTokensPerBlock, A!UpdateDepositFee, A!AddRewardsMultiplier,
       A!UpdateRewardsMultiplier, A!RemoveRewardsMultiplier, A!ChangeRewardsMultipliers,
       A!AddWithdrawFee, A!UpdateWithdrawFee, A!RemoveWithdrawFee, A!ChangeWithdrawFees
  <2> HIDE DEF Kept
  <2>5. Kept
    BY <1>1, <2>1, <2>2, <2>3, <2>4 DEF StepA, OwnerStepA
  <2> QED BY <2>5 DEF Kept
<1>2. ASSUME StepB PROVE whitelistedAddrBP' = whitelistedAddrBP
  <2> DEFINE Kept == whitelistedAddrBP' = whitelistedAddrBP
  <2>1. ASSUME NEW u, NEW amount, B!Deposit(u, amount) \/ B!Withdraw(u, amount) PROVE Kept
    BY <2>1 DEF B!Deposit, B!Withdraw, B!packVars
  <2>2. ASSUME NEW u, NEW id, B!BurnBP(u, id) PROVE Kept
    BY <2>2 DEF B!BurnBP, B!TransferAndBurn
  <2>3. ASSUME NEW caller, NEW u, B!ClaimRewards(caller, u) PROVE Kept
    BY <2>3 DEF B!ClaimRewards, B!packVars
  <2>4. ASSUME B!OwnerStep PROVE Kept
    BY <2>4 DEF B!packVars, B!OwnerStep, B!Pause, B!Unpause,
       B!UpdateBaseRateTokensPerBlock, B!UpdateDepositFee, B!AddRewardsMultiplier,
       B!UpdateRewardsMultiplier, B!RemoveRewardsMultiplier, B!ChangeRewardsMultipliers,
       B!AddWithdrawFee, B!UpdateWithdrawFee, B!RemoveWithdrawFee, B!ChangeWithdrawFees
  <2> HIDE DEF Kept
  <2>5. Kept
    BY <1>2, <2>1, <2>2, <2>3, <2>4 DEF StepB, OwnerStepB
  <2> QED BY <2>5 DEF Kept
<1>3. UNCHANGED registry
  BY DEF StepA, StepB
<1> QED BY <1>1, <1>2, <1>3 DEF OwnersKept

(* The factory and the BoosterPack belong to the manager, a pool that is   *)
(* listed to the factory: no account can call what their owner may call.   *)
LEMMA OwnersHaveNoKey ==
    ASSUME RecordsInv, NEW caller
    PROVE  /\ ~OnlyOwner(Factory, caller) /\ ~OnlyOwner(BoosterPacks, caller)
           /\ \A p \in ToSet(pools) : /\ p \in created /\ owner[p] = Factory
                                      /\ owner[p] \notin EOAs
BY DeploymentAssumption DEF RecordsInv, OwnersKnown, RecordsAgree, OnlyOwner

(* The whitelist of the packs is the manager's alone.                      *)
LEMMA PackTransactionsKeepOwners ==
    ASSUME RecordsInv, StepPacks PROVE OwnersKept
<1>1. PICK caller \in EOAs :
         \/ \E id \in PackIds, n \in 0..MaxPacks :
              \/ Packs!Burn(caller, id, n)
              \/ \E to \in Holders : Packs!SafeTransferFrom(caller, to, id, n)
              \/ \E to \in Holders, attr \in AttributeChoices :
                   Packs!Mint(caller, to, id, n, attr)
         \/ OnlyOwner(BoosterPacks, caller)
  BY DEF StepPacks, OwnerStepPacks
<1>2. ~OnlyOwner(BoosterPacks, caller)
  BY OwnersHaveNoKey
<1>3. whitelistedAddrBP' = whitelistedAddrBP
  BY <1>1, <1>2 DEF Packs!Burn, Packs!SafeTransferFrom, Packs!Mint
<1> QED BY <1>3 DEF StepPacks, OwnersKept

(* The manager claims without a trace in the records.                      *)
LEMMA ClaimsKeepOwners ==
    ASSUME NEW u, NEW list, BatchClaim(u, list) PROVE OwnersKept
BY DEF BatchClaim, OwnersKept, packs

-----------------------------------------------------------------------------
(* The transactions that write the records.                                *)

(* createPool enters the pool in all three records.                        *)
LEMMA CreateKeepsRecords ==
    ASSUME RecordsInv, NEW caller \in EOAs, NEW pool \in {PoolA, PoolB},
           CreatePool(caller, pool)
    PROVE  RecordsInv'
<1>1. /\ pool \notin created /\ pool \notin Contracts /\ pool \notin DOMAIN owner
      /\ pools \in Seq({PoolA, PoolB}) /\ pool \notin ToSet(pools)
  BY DeploymentAssumption
     DEF RecordsInv, OwnersKnown, RecordsAgree, CreatePool, Contracts, Tokens
<1>2. /\ created' = created \cup {pool}
      /\ owner' = Owned(pool, Factory)
      /\ pools' = Append(pools, pool)
      /\ whitelistedAddrBP' = whitelistedAddrBP \cup {pool}
  BY DEF CreatePool, OwnerOfNewPool, MayBurnAfter
<1>3. /\ DOMAIN owner' = DOMAIN owner \cup {pool}
      /\ owner' = [c \in DOMAIN owner' |-> owner'[c]]
      /\ owner'[pool] = Factory
      /\ \A c \in DOMAIN owner : owner'[c] = owner[c]
  BY <1>1, <1>2 DEF Owned
<1>4. DOMAIN owner = Contracts \cup created
  BY DEF RecordsInv, OwnersKnown
<1>5. pools' \in Seq({PoolA, PoolB}) /\ Len(pools') = Len(pools) + 1
  BY <1>1, <1>2
<1>6. ToSet(pools') = ToSet(pools) \cup {pool}
  <2>1. /\ DOMAIN pools = 1..Len(pools) /\ DOMAIN pools' = 1..(Len(pools) + 1)
        /\ Len(pools) \in Nat
    BY <1>1, <1>2
  <2>2. /\ \A i \in 1..Len(pools) : pools'[i] = pools[i]
        /\ pools'[Len(pools) + 1] = pool
    BY <1>1, <1>2
  <2> DEFINE n == Len(pools)
  <2> HIDE DEF n
  <2>3. n \in Nat => 1..(n + 1) = 1..n \cup {n + 1}
    OBVIOUS
  <2>4. DOMAIN pools' = DOMAIN pools \cup {Len(pools) + 1}
    BY <2>1, <2>3 DEF n
  <2> QED BY <2>1, <2>2, <2>4 DEF ToSet
<1>7. OwnersKnown'
  <2>1. owner' = [c \in Contracts \cup created' |-> owner'[c]]
    BY <1>2, <1>3, <1>4
  <2>2. owner'[Factory] = Manager /\ owner'[BoosterPacks] = Manager
    BY <1>3, <1>4 DEF RecordsInv, OwnersKnown, Contracts
  <2> QED BY <1>2, <1>5, <1>6, <2>1, <2>2 DEF RecordsInv, OwnersKnown
<1>8. ToSet(pools') = whitelistedAddrBP'
  BY <1>2, <1>6 DEF RecordsInv, RecordsAgree
<1>9. \A p \in ToSet(pools') : owner'[p] = Factory
  BY <1>3, <1>4, <1>6 DEF RecordsInv, OwnersKnown, RecordsAgree
<1>10. Len(pools') = Cardinality(ToSet(pools'))
  <2>1. IsFiniteSet(ToSet(pools))
    <3>1. ToSet(pools) \subseteq {PoolA, PoolB}
      BY DEF RecordsInv, OwnersKnown, RecordsAgree
    <3>2. IsFiniteSet({PoolA, PoolB})
      <4>1. IsFiniteSet({PoolA} \cup {PoolB})
        BY FS_Singleton, FS_AddElement
      <4>2. {PoolA} \cup {PoolB} = {PoolA, PoolB}
        OBVIOUS
      <4> QED BY <4>1, <4>2
    <3> QED BY <3>1, <3>2, FS_Subset
  <2>2. Cardinality(ToSet(pools) \cup {pool}) = Cardinality(ToSet(pools)) + 1
    BY <1>1, <2>1, FS_AddElement
  <2> QED BY <1>5, <1>6, <2>2 DEF RecordsInv, RecordsAgree
<1> QED BY <1>7, <1>8, <1>9, <1>10 DEF RecordsInv, RecordsAgree

(* A pool deployed without the manager is in none of them.                 *)
LEMMA DeployKeepsRecords ==
    ASSUME RecordsInv, NEW caller \in EOAs, NEW pool \in {PoolA, PoolB},
           DeployPool(caller, pool)
    PROVE  RecordsInv'
<1>1. /\ pool \notin created /\ pool \notin Contracts /\ pool \notin DOMAIN owner
  BY DeploymentAssumption
     DEF RecordsInv, OwnersKnown, RecordsAgree, DeployPool, Contracts, Tokens
<1>2. /\ created' = created \cup {pool}
      /\ owner' = Owned(pool, caller)
      /\ UNCHANGED <<pools, whitelistedAddrBP>>
  BY DEF DeployPool, packs
<1>3. /\ DOMAIN owner' = DOMAIN owner \cup {pool}
      /\ owner' = [c \in DOMAIN owner' |-> owner'[c]]
      /\ \A c \in DOMAIN owner : owner'[c] = owner[c]
  BY <1>1, <1>2, DeploymentAssumption DEF Owned
<1>4. DOMAIN owner = Contracts \cup created
  BY DEF RecordsInv, OwnersKnown
<1>5. OwnersKnown'
  <2>1. owner' = [c \in Contracts \cup created' |-> owner'[c]]
    BY <1>2, <1>3, <1>4
  <2>2. owner'[Factory] = Manager /\ owner'[BoosterPacks] = Manager
    BY <1>3, <1>4 DEF RecordsInv, OwnersKnown, Contracts
  <2> QED BY <1>2, <2>1, <2>2 DEF RecordsInv, OwnersKnown
<1>6. \A p \in ToSet(pools') : owner'[p] = Factory
  BY <1>2, <1>3, <1>4 DEF RecordsInv, OwnersKnown, RecordsAgree
<1> QED BY <1>2, <1>5, <1>6 DEF RecordsInv, RecordsAgree

(* A handover moves neither a listed pool nor the contracts of the manager.*)
LEMMA HandoverKeepsRecords ==
    ASSUME RecordsInv, NEW caller \in EOAs, NEW h \in Handovers,
           TransferOwnership(caller, h[1], h[2])
    PROVE  RecordsInv'
<1>1. /\ OnlyOwner(h[1], caller)
      /\ owner' = [owner EXCEPT ![h[1]] = h[2]]
      /\ UNCHANGED <<created, pools, whitelistedAddrBP>>
  BY DEF TransferOwnership, packs
<1>2. h[1] # Factory /\ h[1] # BoosterPacks
  BY <1>1, OwnersHaveNoKey
<1>3. owner[h[1]] # Factory
  BY <1>1, DeploymentAssumption DEF OnlyOwner
<1>4. /\ DOMAIN owner' = DOMAIN owner
      /\ \A c \in DOMAIN owner : owner'[c] = IF c = h[1] THEN h[2] ELSE owner[c]
      /\ owner' = [c \in DOMAIN owner |-> owner'[c]]
  BY <1>1
<1>5. DOMAIN owner = Contracts \cup created
  BY DEF RecordsInv, OwnersKnown
<1>6. OwnersKnown'
  <2>1. owner' = [c \in Contracts \cup created' |-> owner'[c]]
    BY <1>1, <1>4, <1>5
  <2>2. owner'[Factory] = Manager /\ owner'[BoosterPacks] = Manager
    BY <1>2, <1>4, <1>5 DEF RecordsInv, OwnersKnown, Contracts
  <2> QED BY <1>1, <2>1, <2>2 DEF RecordsInv, OwnersKnown
<1>7. \A p \in ToSet(pools') : owner'[p] = Factory
  BY <1>1, <1>3, <1>4, <1>5 DEF RecordsInv, OwnersKnown, RecordsAgree
<1> QED BY <1>1, <1>6, <1>7 DEF RecordsInv, RecordsAgree

(* Every transaction keeps the records in agreement.                       *)
LEMMA NextKeepsRecords ==
    ASSUME RecordsInv, [DeploymentNext]_vars
    PROVE  RecordsInv'
<1>1. CASE OwnersKept \/ UNCHANGED <<owner, pools, created, whitelistedAddrBP>>
  BY <1>1 DEF OwnersKept, registry, RecordsInv, OwnersKnown, RecordsAgree
<1>2. ASSUME NEW caller \in EOAs, NEW pool \in {PoolA, PoolB},
             CreatePool(caller, pool) \/ DeployPool(caller, pool)
      PROVE  RecordsInv'
  BY <1>2, CreateKeepsRecords, DeployKeepsRecords
<1>3. ASSUME NEW caller \in EOAs, NEW h \in Handovers,
             TransferOwnership(caller, h[1], h[2])
      PROVE  RecordsInv'
  BY <1>3, HandoverKeepsRecords
<1>4. CASE StepA \/ StepB \/ StepPacks
  BY <1>1, <1>4, PoolsKeepWhitelist, PackTransactionsKeepOwners
<1>5. ASSUME NEW u, NEW list, BatchClaim(u, list)
      PROVE  RecordsInv'
  BY <1>1, <1>5, ClaimsKeepOwners
<1>6. ASSUME NEW caller, NEW token,
             AddWhitelistedToken(caller, token) \/ RemoveWhitelistedToken(caller, token)
      PROVE  RecordsInv'
  BY <1>1, <1>6 DEF AddWhitelistedToken, RemoveWhitelistedToken, packs
<1>7. ASSUME NEW caller, NEW to, NEW n, MintA(caller, to, n)
      PROVE  RecordsInv'
  BY <1>1, <1>7 DEF MintA, packs, registry
<1>8. CASE NextBlock \/ UNCHANGED vars
  BY <1>1, <1>8 DEF NextBlock, vars, packs, registry
<1> QED BY <1>2, <1>3, <1>4, <1>5, <1>6, <1>7, <1>8 DEF DeploymentNext

(* Before the first createPool the records are empty.                      *)
LEMMA InitRecordsAgree == DeploymentInit => RecordsInv
<1> SUFFICES ASSUME DeploymentInit PROVE RecordsInv
  OBVIOUS
<1>1. /\ owner = [c \in Contracts |->
                    IF c \in {Factory, BoosterPacks} THEN Manager ELSE Deployer]
      /\ pools = <<>> /\ created = {}
  BY DEF DeploymentInit, Contracts
<1>2. whitelistedAddrBP = {}
  BY DEF DeploymentInit, A!Init, InitWhitelist
<1>3. ToSet(pools) = {} /\ Len(pools) = 0
  BY <1>1 DEF ToSet
<1>4. OwnersKnown
  BY <1>1, <1>3 DEF OwnersKnown, Contracts
<1>5. Cardinality({}) = 0
  BY FS_EmptySet
<1> QED BY <1>1, <1>2, <1>3, <1>4, <1>5 DEF RecordsInv, RecordsAgree

(* The list of the manager and the whitelist of the BoosterPack name the   *)
(* same pools, the list each once, and the factory owns them all, whoever  *)
(* holds the manager and whatever is deployed without it or handed to the  *)
(* factory.                                                                *)
THEOREM RecordsAlwaysAgree == DeploymentSpec => []RecordsAgree
<1>1. RecordsInv => RecordsAgree
  BY DEF RecordsInv
<1> QED BY <1>1, InitRecordsAgree, NextKeepsRecords, PTL DEF DeploymentSpec

-----------------------------------------------------------------------------
(* Pools that the manager made.  README says that their owner can freeze   *)
(* them and change their rate and fees; the theorems of this section and   *)
(* the next say what the code does instead.                                *)

configA == <<pausedA, baseRateA, depositFeeA, rewardsMultipliersA, withdrawFeesA>>
configB == <<pausedB, baseRateB, depositFeeB, rewardsMultipliersB, withdrawFeesB>>

(* A pool that the manager lists keeps its parameters in every step.       *)
ManagedPoolsNeverChange ==
    [][\A p \in ToSet(pools) : IF p = PoolA THEN UNCHANGED configA
                                            ELSE UNCHANGED configB]_vars

(* What a step sent to the first pool changes of its parameters needs the  *)
(* owner of the pool ...                                                   *)
LEMMA ConfigNeedsOwnerA ==
    ASSUME StepA, owner[PoolA] \notin EOAs PROVE UNCHANGED configA
<1>1. ~OwnerStepA
  BY DEF OwnerStepA, OnlyOwner
<1> QED BY <1>1 DEF StepA, configA, A!Deposit, A!Withdraw, A!ClaimRewards,
                    A!BurnBP, A!configVars

(* ... and so for the second.                                              *)
LEMMA ConfigNeedsOwnerB ==
    ASSUME StepB, owner[PoolB] \notin EOAs PROVE UNCHANGED configB
<1>1. ~OwnerStepB
  BY DEF OwnerStepB, OnlyOwner
<1> QED BY <1>1 DEF StepB, configB, B!Deposit, B!Withdraw, B!ClaimRewards,
                    B!BurnBP, B!configVars

(* No other transaction touches the parameters of a pool.                  *)
LEMMA OthersKeepConfig ==
    ASSUME [DeploymentNext]_vars
    PROVE  /\ StepA \/ UNCHANGED configA
           /\ StepB \/ UNCHANGED configB
<1>1. ASSUME NEW u, NEW list, BatchClaim(u, list)
      PROVE  UNCHANGED <<configA, configB>>
  BY <1>1 DEF BatchClaim, poolA, poolB, configA, configB,
              A!ClaimRewards, B!ClaimRewards, A!configVars, B!configVars
<1>2. ASSUME NEW caller, NEW to, NEW n, MintA(caller, to, n)
      PROVE  UNCHANGED <<configA, configB>>
  BY <1>2 DEF MintA, poolB, configA, configB
<1>3. StepA => UNCHANGED configB
  BY DEF StepA, poolB, configB
<1>4. StepB => UNCHANGED configA
  BY DEF StepB, poolA, configA
<1>5. CASE UNCHANGED <<poolA, poolB>>
  BY <1>5 DEF poolA, poolB, configA, configB
<1>6. \/ StepA \/ StepB \/ UNCHANGED <<poolA, poolB>>
      \/ \E u \in Users, list \in (SUBSET {PoolA, PoolB}) \ {{}} : BatchClaim(u, list)
      \/ \E caller \in EOAs, to \in Users, n \in MintAmounts : MintA(caller, to, n)
  BY DEF DeploymentNext, AddWhitelistedToken, RemoveWhitelistedToken, CreatePool,
         DeployPool, TransferOwnership, StepPacks, NextBlock, vars
<1> QED BY <1>1, <1>2, <1>3, <1>4, <1>5, <1>6

(* The parameters of a pool that the manager made are those of its         *)
(* constructor for ever, and it is never paused: the factory owns it.      *)
THEOREM ManagedPoolsAreFixed == DeploymentSpec => ManagedPoolsNeverChange
<1> DEFINE Kept == \A p \in ToSet(pools) : IF p = PoolA THEN UNCHANGED configA
                                                       ELSE UNCHANGED configB
<1>1. ASSUME RecordsInv, [DeploymentNext]_vars PROVE Kept
  <2> SUFFICES ASSUME NEW p \in ToSet(pools)
               PROVE  IF p = PoolA THEN UNCHANGED configA ELSE UNCHANGED configB
    OBVIOUS
  <2>1. /\ p \in {PoolA, PoolB} /\ owner[p] \notin EOAs
    BY <1>1, OwnersHaveNoKey DEF RecordsInv, OwnersKnown
  <2>2. CASE p = PoolA
    BY <1>1, <2>1, <2>2, ConfigNeedsOwnerA, OthersKeepConfig
  <2>3. CASE p = PoolB
    BY <1>1, <2>1, <2>3, ConfigNeedsOwnerB, OthersKeepConfig, DeploymentAssumption
  <2> QED BY <2>1, <2>2, <2>3
<1>2. RecordsInv /\ [DeploymentNext]_vars => Kept
  BY <1>1
<1> QED BY <1>2, InitRecordsAgree, NextKeepsRecords, PTL
        DEF DeploymentSpec, ManagedPoolsNeverChange
-----------------------------------------------------------------------------
(* Pools without boosters.  No pack of the manager's BoosterPack exists,   *)
(* so in both pools there is never a booster to settle, a user's index and *)
(* stake are amounts, and transfers keep the sum of the purses.  tlapm     *)
(* cannot cite a lemma through INSTANCE: what the balances and the records *)
(* go through is stated once, over values, and what the actions of a pool  *)
(* do with them for each of the two.                                       *)

DepositData == [blockNumber : Nat, amount : Nat]

(* The record of a user who has no booster and never had one.              *)
IdleUser ==
    [accumRewards : Nat, accumRewardsBP : {0}, claimableRewardsBP : {0},
     totalAmountDeposited : Nat, activeBoosterPack : {0},
     boosterPackActivationBlock : {0}, nextDepositIdToRemove : Nat \ {0},
     rewardsPerToken : Nat, deposits : Seq(DepositData)]

PoolIdle(data, bal, index, list, fee, fees) ==
    /\ data \in [Accounts -> IdleUser] /\ bal \in [Accounts -> Nat]
    /\ index \in Nat /\ list = <<>>
    /\ fee \in Nat /\ fees \in Fees

IdleA == PoolIdle(usersDataA, balanceA, rewardsPerTokenA, usersWithBoosterPacksA,
                  depositFeeA, withdrawFeesA)
IdleB == PoolIdle(usersDataB, balanceB, rewardsPerTokenB, usersWithBoosterPacksB,
                  depositFeeB, withdrawFeesB)

(* Nobody holds a pack.                                                    *)
NoPackHeld == packBalance = InitPackBalance

(* Everybody who is paid has an account, and there are finitely many.      *)
LEMMA AccountsAreFinite ==
    /\ IsFiniteSet(Accounts) /\ Users \subseteq Accounts
    /\ {FeeRecipient, PoolA, PoolB} \subseteq Accounts
<1>1. \A x : IsFiniteSet({x})
  BY FS_Singleton
<1>2. IsFiniteSet(Users)
  BY AmountsAssumption
<1>3. IsFiniteSet({Deployer} \cup {FeeRecipient} \cup {Zero} \cup {Manager}
                    \cup {PoolA} \cup {PoolB})
  BY <1>1, FS_Union
<1>4. Accounts = Users \cup ({Deployer} \cup {FeeRecipient} \cup {Zero} \cup {Manager}
                               \cup {PoolA} \cup {PoolB})
  BY DEF Accounts, EOAs
<1>5. IsFiniteSet(Accounts)
  BY <1>2, <1>3, <1>4, FS_Union
<1> QED BY <1>4, <1>5

(* Writing back what is there.                                             *)
LEMMA IdleUserIsKept ==
    ASSUME NEW r \in IdleUser
    PROVE  [r EXCEPT !.claimableRewardsBP = 0, !.accumRewardsBP = 0,
                     !.activeBoosterPack = 0, !.boosterPackActivationBlock = 0] = r
BY DEF IdleUser

(* Two payments, each covered when its turn comes.                         *)
LEMMA TwoTransfers ==
    ASSUME NEW bal \in [Accounts -> Nat],
           NEW from \in Accounts, NEW to \in Accounts, NEW amount \in Nat,
           NEW payer \in Accounts, NEW payee \in Accounts, NEW n \in Nat,
           Covers(bal, from, amount), Covers(Transfer(bal, from, to, amount), payer, n)
    PROVE  LET after == Transfer(Transfer(bal, from, to, amount), payer, payee, n)
           IN  /\ after \in [Accounts -> Nat]
               /\ SumOver(after, Accounts) = SumOver(bal, Accounts)
<1> DEFINE between == Transfer(bal, from, to, amount)
<1>1. /\ between \in [Accounts -> Nat]
      /\ SumOver(between, Accounts) = SumOver(bal, Accounts)
  BY AccountsAreFinite, TransferLeavesAmounts, TransferLeavesSum
<1>2. Covers(between, payer, n)
  OBVIOUS
<1> HIDE DEF between
<1>3. /\ Transfer(between, payer, payee, n) \in [Accounts -> Nat]
      /\ SumOver(Transfer(between, payer, payee, n), Accounts) = SumOver(between, Accounts)
  BY <1>1, <1>2, AccountsAreFinite, TransferLeavesAmounts, TransferLeavesSum
<1> QED BY <1>1, <1>3 DEF between

(* deposit, in any pool, moves tokens and writes one record.               *)
LEMMA DepositMoves ==
    ASSUME NEW r \in IdleUser, NEW bal \in [Accounts -> Nat],
           NEW u \in Users, NEW amount \in Nat, NEW fee \in Nat, NEW index \in Nat,
           NEW pool \in Accounts, NEW deposited,
           deposited = amount - FeeAmount(amount, fee), deposited >= 0,
           Covers(bal, u, amount - deposited),
           Covers(Transfer(bal, u, FeeRecipient, amount - deposited), u, deposited),
           block \in Nat
    PROVE  LET after == Transfer(Transfer(bal, u, FeeRecipient, amount - deposited),
                                 u, pool, deposited)
           IN  /\ after \in [Accounts -> Nat]
               /\ SumOver(after, Accounts) = SumOver(bal, Accounts)
               /\ A!AfterDeposit(r, deposited, index) \in IdleUser
<1>1. u \in Accounts /\ FeeRecipient \in Accounts
  BY AccountsAreFinite
<1>2. FeeAmount(amount, fee) \in Nat
  BY FeeIsAmount
<1>3. deposited \in Nat /\ amount - deposited \in Nat
  BY <1>2
<1>4. PICK charged \in Nat : charged = amount - deposited
  BY <1>3
<1> DEFINE after == Transfer(Transfer(bal, u, FeeRecipient, charged), u, pool, deposited)
<1>5. after \in [Accounts -> Nat] /\ SumOver(after, Accounts) = SumOver(bal, Accounts)
  <2>1. Covers(bal, u, charged) /\ Covers(Transfer(bal, u, FeeRecipient, charged), u, deposited)
    BY <1>4
  <2> QED BY <1>1, <1>3, <2>1, TwoTransfers
<1>6. A!AfterDeposit(r, deposited, index) \in IdleUser
  <2> DEFINE added == [blockNumber |-> block, amount |-> deposited]
             rows  == Append(r.deposits, added)
             next  == IF r.deposits = <<>> THEN 1 ELSE r.nextDepositIdToRemove
             start == IF r.deposits = <<>> THEN index ELSE r.rewardsPerToken
  <2>1. added \in DepositData
    BY <1>3 DEF DepositData
  <2> HIDE DEF added
  <2>2. /\ rows \in Seq(DepositData) /\ next \in Nat \ {0} /\ start \in Nat
        /\ r.totalAmountDeposited + deposited \in Nat
    BY <1>3, <2>1 DEF IdleUser
  <2>3. A!AfterDeposit(r, deposited, index) =
          [r EXCEPT !.deposits = rows,
                    !.totalAmountDeposited = r.totalAmountDeposited + deposited,
                    !.nextDepositIdToRemove = next,
                    !.rewardsPerToken = start]
    BY DEF A!AfterDeposit, added
  <2> HIDE DEF rows, next, start
  <2> QED BY <2>2, <2>3 DEF IdleUser
<1> QED BY <1>4, <1>5, <1>6

(* A withdrawal debits no more than the stake and leaves a typed record.   *)
LEMMA WithdrawalKeepsIdle ==
    ASSUME NEW r \in IdleUser,
           NEW w \in [paid : Nat, fee : Nat, drained : Nat, rest : Nat,
                      next : Nat \ {0}, left : Deposits],
           w.drained + w.rest <= r.totalAmountDeposited
    PROVE  A!AfterWithdrawal(r, w) \in IdleUser
<1> DEFINE debit == w.drained + w.rest
<1>1. A!AfterWithdrawal(r, w) =
        [r EXCEPT !.deposits = w.left,
                  !.totalAmountDeposited = r.totalAmountDeposited - debit,
                  !.nextDepositIdToRemove = w.next]
  BY DEF A!AfterWithdrawal, A!StakeDebit
<1>2. debit \in Nat /\ debit <= r.totalAmountDeposited
  OBVIOUS
<1> HIDE DEF debit
<1>3. r.totalAmountDeposited - debit \in Nat
  BY <1>2 DEF IdleUser
<1>4. w.left \in Seq(DepositData) /\ w.next \in Nat \ {0}
  BY DEF Deposits, DepositData
<1> QED BY <1>1, <1>3, <1>4 DEF IdleUser

(* So does a claim, of any total.                                          *)
LEMMA ClaimKeepsIdle ==
    ASSUME NEW r \in IdleUser, NEW total \in Nat
    PROVE  /\ A!AfterClaim(r, total) \in IdleUser
           /\ A!AfterClaim(r, total).accumRewards = total
BY DEF A!AfterClaim, IdleUser

(* Rewards are amounts.                                                    *)
LEMMA RewardsAreAmounts ==
    ASSUME NEW index \in Nat, NEW start \in Nat, start <= index, NEW stake \in Nat
    PROVE  ToUint64(((index - start) * stake) \div MULTIPLIER) \in Nat
<1>1. index - start \in Nat
  OBVIOUS
<1>2. \A n \in Nat, m \in Nat : (n * m) \div 1000 \in Nat
  OBVIOUS
<1>3. ((index - start) * stake) \div MULTIPLIER \in Nat
  BY <1>1, <1>2 DEF MULTIPLIER
<1>4. \A n \in Nat, m \in Nat \ {0} : n % m \in Nat
  OBVIOUS
<1>5. MaxUint64 + 1 \in Nat \ {0}
  BY WidthAssumption
<1> QED BY <1>3, <1>4, <1>5 DEF ToUint64

(* What moves in one purse alone moves in the supply.                      *)
LEMMA SupplyMovesWithPurse ==
    ASSUME NEW bal \in [Accounts -> Nat], NEW after \in [Accounts -> Nat],
           NEW u \in Accounts, \A a \in Accounts \ {u} : bal[a] = after[a]
    PROVE  SumOver(after, Accounts) - SumOver(bal, Accounts) = after[u] - bal[u]
<1>1. SumOver(after, Accounts) - after[u] = SumOver(bal, Accounts) - bal[u]
  BY AccountsAreFinite, SumMovesWithOne
<1>2. SumOver(after, Accounts) \in Nat /\ SumOver(bal, Accounts) \in Nat
  <2>1. (\A a \in Accounts : after[a] \in Int) /\ (\A a \in Accounts : bal[a] \in Int)
    OBVIOUS
  <2> QED BY <2>1, AccountsAreFinite, UnitsFinite
<1>3. after[u] \in Nat /\ bal[u] \in Nat
  OBVIOUS
<1>4. \A p, q, m, n \in Nat : p - m = q - n => p - q = m - n
  OBVIOUS
<1> QED BY <1>1, <1>2, <1>3, <1>4

-----------------------------------------------------------------------------
(* The first pool.                                                        *)

(* The arithmetic of the first pool is that of PoolMath.                   *)
LEMMA ArithmeticOfA ==
    /\ \A amount, rate : A!FeeAmount(amount, rate) = FeeAmount(amount, rate)
    /\ \A bal, from, amount : A!Covers(bal, from, amount) = Covers(bal, from, amount)
    /\ \A bal, from, to, amount :
         A!Transfer(bal, from, to, amount) = Transfer(bal, from, to, amount)
    /\ \A percent : A!Thousandths(percent) = Thousandths(percent)
    /\ \A deposits, fees, first, k, rest :
         A!FeesFit(deposits, fees, first, k, rest) = FeesFit(deposits, fees, first, k, rest)
    /\ \A deposits, fees, first, amount, k :
         /\ A!DrainsThrough(deposits, fees, first, amount, k)
              = DrainsThrough(deposits, fees, first, amount, k)
         /\ A!Withdrawal(deposits, fees, first, amount, k)
              = Withdrawal(deposits, fees, first, amount, k)
<1>0. \A percent : A!Thousandths(percent) = Thousandths(percent)
  BY DEF Thousandths, A!Thousandths, MULTIPLIER, A!MULTIPLIER
<1>1. \A amount, rate : A!FeeAmount(amount, rate) = FeeAmount(amount, rate)
  BY DEF FeeAmount, A!FeeAmount, MULTIPLIER, A!MULTIPLIER
<1>2. \A fees, blockNumber : A!WithdrawFeeRate(fees, blockNumber)
                               = WithdrawFeeRate(fees, blockNumber)
  <2>1. \A fees, blockNumber : A!CalcWithdrawFeePerBlock(fees, blockNumber)
                                 = CalcWithdrawFeePerBlock(fees, blockNumber)
    BY DEF CalcWithdrawFeePerBlock, A!CalcWithdrawFeePerBlock, Min, A!Min
  <2>2. \A n : A!ToUint64(n) = ToUint64(n)
    BY DEF ToUint64, A!ToUint64
  <2> QED BY <1>0, <2>1, <2>2 DEF WithdrawFeeRate, A!WithdrawFeeRate
<1>3. \A deposit, fees : A!DepositFeeAmount(deposit, fees) = DepositFeeAmount(deposit, fees)
  BY <1>1, <1>2 DEF DepositFeeAmount, A!DepositFeeAmount
<1>4. \A deposit, fees : A!NetAmount(deposit, fees) = NetAmount(deposit, fees)
  BY <1>3 DEF NetAmount, A!NetAmount
<1>5. \A deposits, fees : A!NetAmounts(deposits, fees) = NetAmounts(deposits, fees)
  BY <1>4 DEF NetAmounts, A!NetAmounts
<1>6. \A f, S : A!SumOver(f, S) = SumOver(f, S)
  <2>1. \A f, S : A!Units(f, S) = Units(f, S)
    BY DEF Units, A!Units
  <2>2. \A S : A!Cardinality(S) = Cardinality(S)
    BY DEF Cardinality, A!Cardinality, IsFiniteSet, A!IsFiniteSet
  <2> QED BY <2>1, <2>2 DEF SumOver, A!SumOver
<1>7. \A deposits, fees, first, k, rest :
         A!FeesFit(deposits, fees, first, k, rest) = FeesFit(deposits, fees, first, k, rest)
  BY <1>2, <1>4 DEF FeesFit, A!FeesFit, FeeFits, A!FeeFits
<1>8. \A nets, first, amount, i :
         A!Drains(nets, first, amount, i) = Drains(nets, first, amount, i)
  BY <1>6 DEF Drains, A!Drains
<1>9. \A deposits, fees, first, amount, k :
         A!DrainsThrough(deposits, fees, first, amount, k)
           = DrainsThrough(deposits, fees, first, amount, k)
  BY <1>5, <1>8 DEF DrainsThrough, A!DrainsThrough
<1>10. \A deposits, fees, first, amount, k :
         A!Remainder(deposits, fees, first, amount, k)
           = Remainder(deposits, fees, first, amount, k)
  BY <1>5, <1>6 DEF Remainder, A!Remainder
<1>11. \A deposits, fees, first, k, rest :
         A!WithdrawalFee(deposits, fees, first, k, rest)
           = WithdrawalFee(deposits, fees, first, k, rest)
  <2> SUFFICES ASSUME NEW deposits, NEW fees, NEW first, NEW k, NEW rest
               PROVE  A!WithdrawalFee(deposits, fees, first, k, rest)
                        = WithdrawalFee(deposits, fees, first, k, rest)
    OBVIOUS
  <2>1. [i \in DOMAIN deposits |-> A!DepositFeeAmount(deposits[i], fees)]
          = [i \in DOMAIN deposits |-> DepositFeeAmount(deposits[i], fees)]
    BY <1>3
  <2> QED BY <1>1, <1>2, <1>6, <2>1 DEF WithdrawalFee, A!WithdrawalFee
<1>12. \A deposits, fees, first, amount, k :
         A!Withdrawal(deposits, fees, first, amount, k)
           = Withdrawal(deposits, fees, first, amount, k)
  BY <1>5, <1>6, <1>10, <1>11
     DEF Withdrawal, DepositsLeft, NextToRemove,
         A!Withdrawal, A!DepositsLeft, A!NextToRemove
<1> QED BY <1>0, <1>1, <1>7, <1>9, <1>12 DEF Covers, Transfer, A!Covers, A!Transfer

(* Without boosters there is nothing to settle.                            *)
LEMMA NothingToSettleA ==
    ASSUME IdleA, NEW caller
    PROVE  /\ A!SettledUsers(caller, A!NoVisits) = usersDataA
           /\ \A a \in Accounts : A!CreditAfter(caller, a, A!NoVisits[a]) = 0
           /\ A!CalcBPRewards = A!NoVisits
           /\ A!VisitsOfWithdraw = A!NoVisits
           /\ \A a \in Accounts : /\ A!CheckBPExpired(a) = A!NoVisits
                                  /\ A!ListAfterCheck(a) = <<>>
<1>1. usersDataA \in [Accounts -> IdleUser] /\ usersWithBoosterPacksA = <<>>
  BY DEF IdleA, PoolIdle
<1>2. \A a \in Accounts : /\ usersDataA[a] \in IdleUser
                          /\ usersDataA[a].activeBoosterPack = 0
                          /\ usersDataA[a].boosterPackActivationBlock = 0
                          /\ usersDataA[a].claimableRewardsBP = 0
                          /\ usersDataA[a].accumRewardsBP = 0
  BY <1>1 DEF IdleUser
<1>3. \A a \in Accounts : A!NoVisits[a] = 0
  BY DEF A!NoVisits
<1>4. \A a \in Accounts : A!CreditAfter(caller, a, A!NoVisits[a]) = 0
  BY <1>2, <1>3 DEF A!CreditAfter
<1>5. A!SettledUsers(caller, A!NoVisits) = usersDataA
  <2> DEFINE settled == A!SettledUsers(caller, A!NoVisits)
  <2>1. ASSUME NEW a \in Accounts PROVE settled[a] = usersDataA[a]
    <3> DEFINE b == A!Boost(caller, a, A!NoVisits[a])
    <3>1. /\ b.claimable = 0 /\ b.accum = 0 /\ b.pack = 0 /\ b.start = 0
      BY <1>2, <1>3, <1>4 DEF A!Boost, A!AccumAfter, A!Activation
    <3>2. settled[a] = [usersDataA[a] EXCEPT !.claimableRewardsBP = b.claimable,
                                      !.accumRewardsBP = b.accum,
                                      !.activeBoosterPack = b.pack,
                                      !.boosterPackActivationBlock = b.start]
      BY DEF A!SettledUsers
    <3> HIDE DEF b, settled
    <3> QED BY <1>2, <3>1, <3>2, IdleUserIsKept
  <2>2. settled = [a \in Accounts |-> settled[a]]
    BY DEF A!SettledUsers
  <2> HIDE DEF settled
  <2> QED BY <1>1, <2>1, <2>2 DEF settled
<1>6. A!CalcBPRewards = A!NoVisits
  <2>1. \A a : {i \in DOMAIN usersWithBoosterPacksA : usersWithBoosterPacksA[i] = a} = {}
    BY <1>1
  <2>2. A!Cardinality({}) = 0
    <3>1. A!Cardinality({}) = Cardinality({})
      BY DEF Cardinality, A!Cardinality, IsFiniteSet, A!IsFiniteSet
    <3> QED BY <3>1, FS_EmptySet
  <2> QED BY <2>1, <2>2 DEF A!CalcBPRewards, A!NoVisits
<1>7. \A a \in Accounts : /\ A!CheckBPExpired(a) = A!NoVisits
                          /\ A!ListAfterCheck(a) = <<>>
  BY <1>1, <1>2 DEF A!CheckBPExpired, A!ListAfterCheck, A!PackExpires
<1> QED BY <1>4, <1>5, <1>6, <1>7 DEF A!VisitsOfWithdraw

(* The index of the first pool stays an amount.                            *)
LEMMA IndexMovesA ==
    ASSUME IdleA, A!UpdateUnlessPaused
    PROVE  /\ rewardsPerTokenA' \in Nat
           /\ rewardsPerTokenA' =
                rewardsPerTokenA + (IF pausedA THEN 0 ELSE A!AccruedTo(block))
<1>1. rewardsPerTokenA \in Nat
  BY DEF IdleA, PoolIdle
<1>2. CASE pausedA
  BY <1>1, <1>2 DEF A!UpdateUnlessPaused, A!indexVars
<1>3. CASE ~pausedA
  <2>1. /\ A!AccruedTo(block) \in Nat
        /\ rewardsPerTokenA' = rewardsPerTokenA + A!AccruedTo(block)
    BY <1>3 DEF A!UpdateUnlessPaused, A!UpdateRewardsPerToken, A!Uint128
  <2> QED BY <1>1, <1>3, <2>1
<1> QED BY <1>2, <1>3

(* A deposit keeps the pool without boosters, and the supply.              *)
LEMMA DepositIsIdleA ==
    ASSUME IdleA, block \in Nat, NEW u \in Users, NEW amount \in Amounts, A!Deposit(u, amount)
    PROVE  IdleA' /\ SumOver(balanceA', Accounts) = SumOver(balanceA, Accounts)
<1> DEFINE deposited == amount - FeeAmount(amount, Thousandths(depositFeeA))
           after     == Transfer(Transfer(balanceA, u, FeeRecipient, amount - deposited),
                                 u, PoolA, deposited)
           written   == A!AfterDeposit(usersDataA[u], deposited, rewardsPerTokenA')
<1>1. /\ u \in Accounts /\ PoolA \in Accounts /\ amount \in Nat
      /\ usersDataA \in [Accounts -> IdleUser] /\ balanceA \in [Accounts -> Nat]
      /\ depositFeeA \in Nat
  BY AccountsAreFinite, AmountsAssumption DEF IdleA, PoolIdle
<1>2. rewardsPerTokenA' \in Nat
  BY IndexMovesA DEF A!Deposit, A!WhenNotPaused, A!UpdateUnlessPaused
<1>3. /\ deposited >= 0
      /\ Covers(balanceA, u, amount - deposited)
      /\ Covers(Transfer(balanceA, u, FeeRecipient, amount - deposited), u, deposited)
      /\ balanceA' = after
  BY ArithmeticOfA DEF A!Deposit
<1>4. usersDataA' = [usersDataA EXCEPT ![u] = written]
  <2>1. usersDataA' = [usersDataA EXCEPT
          ![u] = A!AfterDeposit(usersDataA[u], amount - A!FeeAmount(amount, Thousandths(depositFeeA)),
                             rewardsPerTokenA')]
    BY NothingToSettleA, ArithmeticOfA DEF A!Deposit
  <2> QED BY <2>1, ArithmeticOfA
<1>5. /\ after \in [Accounts -> Nat] /\ written \in IdleUser
      /\ SumOver(after, Accounts) = SumOver(balanceA, Accounts)
  <2>1. PICK rate \in Nat : rate = Thousandths(depositFeeA)
    BY <1>1, ThousandthsAreTyped
  <2>2. deposited = amount - FeeAmount(amount, rate)
    BY <2>1
  <2> HIDE DEF deposited
  <2> QED BY <1>1, <1>2, <1>3, <2>2, DepositMoves
<1>6. UNCHANGED <<depositFeeA, withdrawFeesA, usersWithBoosterPacksA>>
  BY DEF A!Deposit, A!configVars
<1> HIDE DEF after, written
<1> QED BY <1>1, <1>2, <1>3, <1>4, <1>5, <1>6 DEF IdleA, PoolIdle

(* A withdrawal does, paused or not.                                       *)
LEMMA WithdrawIsIdleA ==
    ASSUME IdleA, NEW u \in Users, NEW amount \in Amounts, A!Withdraw(u, amount)
    PROVE  IdleA' /\ SumOver(balanceA', Accounts) = SumOver(balanceA, Accounts)
<1> DEFINE deposits == usersDataA[u].deposits
           first    == usersDataA[u].nextDepositIdToRemove
<1>1. /\ u \in Accounts /\ PoolA \in Accounts /\ amount \in Nat
      /\ usersDataA \in [Accounts -> IdleUser] /\ balanceA \in [Accounts -> Nat]
      /\ withdrawFeesA \in Fees
  BY AccountsAreFinite, AmountsAssumption DEF IdleA, PoolIdle
<1>2. rewardsPerTokenA' \in Nat
  BY IndexMovesA DEF A!Withdraw
<1>3. A!SettledUsers(u, A!VisitsOfWithdraw) = usersDataA
  BY NothingToSettleA
<1>4. PICK k \in (first - 1)..Len(deposits) :
         LET w      == A!Withdrawal(deposits, withdrawFeesA, first, amount, k)
             afterW == A!Transfer(balanceA, PoolA, u, w.paid)
         IN
         /\ A!DrainsThrough(deposits, withdrawFeesA, first, amount, k)
         /\ A!FeesFit(deposits, withdrawFeesA, first, k, w.rest)
         /\ A!StakeDebit(w) <= A!Stake(u)
         /\ A!Covers(balanceA, PoolA, w.paid)
         /\ A!Covers(afterW, PoolA, w.fee)
         /\ balanceA' = A!Transfer(afterW, PoolA, FeeRecipient, w.fee)
         /\ usersDataA' = [usersDataA EXCEPT
                               ![u] = A!AfterWithdrawal(usersDataA[u], w)]
  BY <1>3 DEF A!Withdraw
<1>5. PICK w :
         /\ w = Withdrawal(deposits, withdrawFeesA, first, amount, k)
         /\ DrainsThrough(deposits, withdrawFeesA, first, amount, k)
         /\ FeesFit(deposits, withdrawFeesA, first, k, w.rest)
         /\ w.drained + w.rest <= usersDataA[u].totalAmountDeposited
         /\ Covers(balanceA, PoolA, w.paid)
         /\ Covers(Transfer(balanceA, PoolA, u, w.paid), PoolA, w.fee)
         /\ balanceA' = Transfer(Transfer(balanceA, PoolA, u, w.paid),
                                 PoolA, FeeRecipient, w.fee)
         /\ usersDataA' = [usersDataA EXCEPT
                               ![u] = A!AfterWithdrawal(usersDataA[u], w)]
  BY <1>4, ArithmeticOfA DEF A!StakeDebit, A!Stake
<1>6. w \in [paid : Nat, fee : Nat, drained : Nat, rest : Nat,
             next : Nat \ {0}, left : Deposits]
  <2>1. PICK ds \in Deposits, n \in Nat \ {0} : ds = deposits /\ n = first
    BY <1>1 DEF IdleUser, Deposits, DepositData
  <2>2. /\ k \in (n - 1)..Len(ds)
        /\ DrainsThrough(ds, withdrawFeesA, n, amount, k)
        /\ FeesFit(ds, withdrawFeesA, n, k, w.rest)
        /\ w = Withdrawal(ds, withdrawFeesA, n, amount, k)
    BY <1>4, <1>5, <2>1
  <2>3. NetsFit(ds, withdrawFeesA, n, k)
    BY <2>2, FittingNets
  <2> HIDE DEF deposits, first
  <2> QED BY <1>1, <2>2, <2>3, WithdrawalIsTyped
<1>7. PICK paid \in Nat, kept \in Nat : paid = w.paid /\ kept = w.fee
  BY <1>6
<1>8. /\ balanceA' \in [Accounts -> Nat]
      /\ SumOver(balanceA', Accounts) = SumOver(balanceA, Accounts)
  <2>1. /\ Covers(balanceA, PoolA, paid)
        /\ Covers(Transfer(balanceA, PoolA, u, paid), PoolA, kept)
    BY <1>5, <1>7
  <2> DEFINE after == Transfer(Transfer(balanceA, PoolA, u, paid), PoolA, FeeRecipient, kept)
  <2>2. /\ after \in [Accounts -> Nat]
        /\ SumOver(after, Accounts) = SumOver(balanceA, Accounts)
    BY <1>1, <2>1, AccountsAreFinite, TwoTransfers
  <2>3. balanceA' = after
    BY <1>5, <1>7
  <2> HIDE DEF after
  <2> QED BY <2>2, <2>3
<1>9. A!AfterWithdrawal(usersDataA[u], w) \in IdleUser
  BY <1>1, <1>5, <1>6, WithdrawalKeepsIdle
<1>10. UNCHANGED <<depositFeeA, withdrawFeesA, usersWithBoosterPacksA>>
  BY DEF A!Withdraw, A!configVars
<1> QED BY <1>1, <1>2, <1>5, <1>8, <1>9, <1>10 DEF IdleA, PoolIdle

(* A claim pays what is due, whoever sends it, and creates what it records. *)
LEMMA ClaimIsIdleA ==
    ASSUME IdleA, NEW caller, NEW u \in Users, A!ClaimRewards(caller, u)
    PROVE  /\ IdleA'
           /\ balanceA'[u] - balanceA[u] = DueInA(u)
           /\ SumOver(balanceA', Accounts) - SumOver(balanceA, Accounts)
                = usersDataA'[u].accumRewards - usersDataA[u].accumRewards
<1> DEFINE index == rewardsPerTokenA'
           r     == usersDataA[u]
<1>1. /\ u \in Accounts
      /\ usersDataA \in [Accounts -> IdleUser] /\ balanceA \in [Accounts -> Nat]
      /\ usersWithBoosterPacksA = <<>>
  BY AccountsAreFinite DEF IdleA, PoolIdle
<1>2. /\ index \in Nat
      /\ index = rewardsPerTokenA + (IF pausedA THEN 0 ELSE A!AccruedTo(block))
  BY IndexMovesA DEF A!ClaimRewards
<1> DEFINE visits == IF pausedA THEN A!NoVisits ELSE A!CheckBPExpired(u)
           credit == A!CreditAfter(caller, u, visits[u])
<1>3. /\ visits = A!NoVisits /\ credit = 0
      /\ A!SettledUsers(caller, visits) = usersDataA
  BY <1>1, NothingToSettleA
<1>4. PICK total : total = A!TotalRewards(u, index)
  OBVIOUS
<1>5. /\ balanceA' = [balanceA EXCEPT ![u] = @ + (total - r.accumRewards + credit)]
      /\ usersDataA' = [A!SettledUsers(caller, visits) EXCEPT
                            ![u] = A!AfterClaim(A!SettledUsers(caller, visits)[u], total)]
      /\ r.rewardsPerToken <= index /\ r.accumRewards <= total
      /\ usersWithBoosterPacksA' = IF pausedA THEN usersWithBoosterPacksA
                                   ELSE A!ListAfterCheck(u)
      /\ UNCHANGED <<depositFeeA, withdrawFeesA>>
  BY <1>4 DEF A!ClaimRewards, A!configVars
<1>6. total = ToUint64(((index - r.rewardsPerToken) * r.totalAmountDeposited) \div MULTIPLIER)
  BY <1>4 DEF A!TotalRewards, A!Stake, A!ToUint64, A!MULTIPLIER, ToUint64, MULTIPLIER
<1>7. DueInA(u) = total - r.accumRewards
  BY <1>2, <1>4 DEF DueInA
<1>8. /\ usersDataA' = [usersDataA EXCEPT ![u] = A!AfterClaim(r, total)]
      /\ usersWithBoosterPacksA' = <<>>
  BY <1>1, <1>3, <1>5, NothingToSettleA
<1> HIDE DEF visits, credit, index
<1> DEFINE paid  == total - r.accumRewards
           after == [balanceA EXCEPT ![u] = @ + paid]
<1>9. total \in Nat /\ r \in IdleUser
  <2>1. r \in IdleUser /\ r.rewardsPerToken \in Nat /\ r.totalAmountDeposited \in Nat
    BY <1>1 DEF IdleUser
  <2>2. PICK i \in Nat, start \in Nat, stake \in Nat :
           i = index /\ start = r.rewardsPerToken /\ stake = r.totalAmountDeposited
    BY <1>2, <2>1
  <2>3. start <= i /\ total = ToUint64(((i - start) * stake) \div MULTIPLIER)
    BY <1>5, <1>6, <2>2 DEF index
  <2>4. ToUint64(((i - start) * stake) \div MULTIPLIER) \in Nat
    BY <2>3, RewardsAreAmounts
  <2> QED BY <2>1, <2>3, <2>4
<1>10. paid \in Nat
  BY <1>5, <1>9 DEF IdleUser
<1> HIDE DEF paid
<1>11. /\ after \in [Accounts -> Nat] /\ after[u] - balanceA[u] = paid
       /\ SumOver(after, Accounts) - SumOver(balanceA, Accounts) = paid
  <2>1. /\ after \in [Accounts -> Nat] /\ after[u] = balanceA[u] + paid
        /\ balanceA[u] \in Nat
        /\ \A a \in Accounts \ {u} : balanceA[a] = after[a]
    BY <1>1, <1>10
  <2> HIDE DEF after
  <2>2. SumOver(after, Accounts) - SumOver(balanceA, Accounts) = after[u] - balanceA[u]
    BY <1>1, <2>1, SupplyMovesWithPurse
  <2> QED BY <1>10, <2>1, <2>2
<1>12. A!AfterClaim(r, total) \in IdleUser /\ A!AfterClaim(r, total).accumRewards = total
  BY <1>9, ClaimKeepsIdle
<1>13. balanceA' = after
  <2>1. total - r.accumRewards + credit = paid
    BY <1>3, <1>9, <1>10 DEF paid
  <2> QED BY <1>5, <2>1
<1>14. usersDataA'[u].accumRewards = total
  BY <1>1, <1>8, <1>12
<1> HIDE DEF after, r
<1>15. IdleA'
  BY <1>1, <1>2, <1>5, <1>8, <1>11, <1>12, <1>13 DEF IdleA, PoolIdle, index
<1> QED BY <1>7, <1>11, <1>13, <1>14, <1>15 DEF r, paid

(* Nor does the owner start a booster or move a token.                     *)
LEMMA OwnerIsIdleA ==
    ASSUME IdleA, A!OwnerStep
    PROVE  IdleA' /\ UNCHANGED balanceA
<1>1. CASE A!Pause
  <2>1. rewardsPerTokenA' \in Nat
    <3>1. /\ rewardsPerTokenA \in Nat /\ A!AccruedTo(block) \in Nat
          /\ rewardsPerTokenA' = rewardsPerTokenA + A!AccruedTo(block)
      BY <1>1 DEF A!Pause, A!UpdateRewardsPerToken, A!Uint128, IdleA, PoolIdle
    <3> QED BY <3>1
  <2>2. UNCHANGED <<usersDataA, balanceA, usersWithBoosterPacksA, depositFeeA, withdrawFeesA>>
    BY <1>1, NothingToSettleA DEF A!Pause
  <2> QED BY <2>1, <2>2 DEF IdleA, PoolIdle
<1> DEFINE Others == UNCHANGED <<usersDataA, balanceA, rewardsPerTokenA,
                                 usersWithBoosterPacksA>>
<1>2. ASSUME NEW fee \in DepositFees, A!UpdateDepositFee(fee)
      PROVE  IdleA' /\ UNCHANGED balanceA
  <2>1. Others /\ depositFeeA' = fee /\ UNCHANGED withdrawFeesA
    BY <1>2 DEF A!UpdateDepositFee, A!indexVars, A!stakeVars, A!boostVars
  <2> QED BY <2>1, AmountsAssumption DEF IdleA, PoolIdle
<1>3. ASSUME NEW rows \in Fees, A!ChangeWithdrawFees(rows)
      PROVE  IdleA' /\ UNCHANGED balanceA
  <2>1. Others /\ UNCHANGED depositFeeA /\ withdrawFeesA' = rows
    BY <1>3 DEF A!ChangeWithdrawFees, A!indexVars, A!stakeVars, A!boostVars
  <2> QED BY <2>1 DEF IdleA, PoolIdle
<1> DEFINE Row == [blockNumber : Nat, fee : Nat]
<1>4. /\ withdrawFeesA \in Seq(Row) /\ FeeRows \subseteq Row
      /\ [blockNumber |-> 0, fee |-> 0] \in Row
  BY AmountsAssumption DEF IdleA, PoolIdle, Fees
<1>5. ASSUME NEW row \in FeeRows, A!AddWithdrawFee(row)
      PROVE  IdleA' /\ UNCHANGED balanceA
  <2>1. Append(withdrawFeesA, row) \in Fees
    BY <1>4 DEF Fees
  <2> QED BY <1>3, <1>5, <2>1 DEF A!AddWithdrawFee
<1>6. ASSUME NEW row \in FeeRows, NEW id, A!UpdateWithdrawFee(id, row)
      PROVE  IdleA' /\ UNCHANGED balanceA
  <2>1. [withdrawFeesA EXCEPT ![id] = row] \in Fees
    BY <1>4, <1>6, RowIsReplaced DEF Fees, A!UpdateWithdrawFee
  <2> QED BY <1>3, <1>6, <2>1 DEF A!UpdateWithdrawFee
<1>7. ASSUME NEW id, A!RemoveWithdrawFee(id)
      PROVE  IdleA' /\ UNCHANGED balanceA
  <2>1. [withdrawFeesA EXCEPT ![id] = [blockNumber |-> 0, fee |-> 0]] \in Fees
    BY <1>4, <1>7, RowIsReplaced DEF Fees, A!RemoveWithdrawFee
  <2> QED BY <1>3, <1>7, <2>1 DEF A!RemoveWithdrawFee
<1>8. CASE Others /\ UNCHANGED <<depositFeeA, withdrawFeesA>>
  BY <1>8 DEF IdleA, PoolIdle
<1>9. \/ A!Pause
      \/ \E fee \in DepositFees : A!UpdateDepositFee(fee)
      \/ \E row \in FeeRows : A!AddWithdrawFee(row)
      \/ \E row \in FeeRows, id \in 1..MaxRows : A!UpdateWithdrawFee(id, row)
      \/ \E id \in 1..MaxRows : A!RemoveWithdrawFee(id)
      \/ Others /\ UNCHANGED <<depositFeeA, withdrawFeesA>>
  BY DEF A!OwnerStep, A!Unpause, A!UpdateBaseRateTokensPerBlock,
         A!AddRewardsMultiplier, A!UpdateRewardsMultiplier, A!RemoveRewardsMultiplier,
         A!ChangeRewardsMultipliers, A!indexVars, A!stakeVars, A!boostVars
<1> HIDE DEF Others
<1> QED BY <1>1, <1>2, <1>5, <1>6, <1>7, <1>8, <1>9

(* A pack that nobody holds cannot be burned.                              *)
LEMMA NothingToBurnA ==
    ASSUME NoPackHeld, NEW u \in Users, NEW id \in PackIds
    PROVE  ~A!BurnBP(u, id)
BY DEF NoPackHeld, InitPackBalance, A!BurnBP, A!TransferAndBurn, Accounts, EOAs

(* And no other transaction of the pool moves packs.                       *)
LEMMA PacksAreKeptA ==
    ASSUME NEW caller, NEW u, NEW amount,
           \/ A!Deposit(u, amount) \/ A!Withdraw(u, amount)
           \/ A!ClaimRewards(caller, u) \/ A!OwnerStep
    PROVE  UNCHANGED <<block, packBalance>>
BY DEF A!Deposit, A!Withdraw, A!ClaimRewards, A!packVars, A!OwnerStep, A!Pause,
       A!Unpause, A!UpdateBaseRateTokensPerBlock, A!UpdateDepositFee,
       A!AddRewardsMultiplier, A!UpdateRewardsMultiplier, A!RemoveRewardsMultiplier,
       A!ChangeRewardsMultipliers, A!AddWithdrawFee, A!UpdateWithdrawFee,
       A!RemoveWithdrawFee, A!ChangeWithdrawFees

-----------------------------------------------------------------------------
(* The second pool.                                                       *)

(* The arithmetic of the second pool is that of PoolMath.                  *)
LEMMA ArithmeticOfB ==
    /\ \A amount, rate : B!FeeAmount(amount, rate) = FeeAmount(amount, rate)
    /\ \A bal, from, amount : B!Covers(bal, from, amount) = Covers(bal, from, amount)
    /\ \A bal, from, to, amount :
         B!Transfer(bal, from, to, amount) = Transfer(bal, from, to, amount)
    /\ \A percent : B!Thousandths(percent) = Thousandths(percent)
    /\ \A deposits, fees, first, k, rest :
         B!FeesFit(deposits, fees, first, k, rest) = FeesFit(deposits, fees, first, k, rest)
    /\ \A deposits, fees, first, amount, k :
         /\ B!DrainsThrough(deposits, fees, first, amount, k)
              = DrainsThrough(deposits, fees, first, amount, k)
         /\ B!Withdrawal(deposits, fees, first, amount, k)
              = Withdrawal(deposits, fees, first, amount, k)
<1>0. \A percent : B!Thousandths(percent) = Thousandths(percent)
  BY DEF Thousandths, B!Thousandths, MULTIPLIER, B!MULTIPLIER
<1>1. \A amount, rate : B!FeeAmount(amount, rate) = FeeAmount(amount, rate)
  BY DEF FeeAmount, B!FeeAmount, MULTIPLIER, B!MULTIPLIER
<1>2. \A fees, blockNumber : B!WithdrawFeeRate(fees, blockNumber)
                               = WithdrawFeeRate(fees, blockNumber)
  <2>1. \A fees, blockNumber : B!CalcWithdrawFeePerBlock(fees, blockNumber)
                                 = CalcWithdrawFeePerBlock(fees, blockNumber)
    BY DEF CalcWithdrawFeePerBlock, B!CalcWithdrawFeePerBlock, Min, B!Min
  <2>2. \A n : B!ToUint64(n) = ToUint64(n)
    BY DEF ToUint64, B!ToUint64
  <2> QED BY <1>0, <2>1, <2>2 DEF WithdrawFeeRate, B!WithdrawFeeRate
<1>3. \A deposit, fees : B!DepositFeeAmount(deposit, fees) = DepositFeeAmount(deposit, fees)
  BY <1>1, <1>2 DEF DepositFeeAmount, B!DepositFeeAmount
<1>4. \A deposit, fees : B!NetAmount(deposit, fees) = NetAmount(deposit, fees)
  BY <1>3 DEF NetAmount, B!NetAmount
<1>5. \A deposits, fees : B!NetAmounts(deposits, fees) = NetAmounts(deposits, fees)
  BY <1>4 DEF NetAmounts, B!NetAmounts
<1>6. \A f, S : B!SumOver(f, S) = SumOver(f, S)
  <2>1. \A f, S : B!Units(f, S) = Units(f, S)
    BY DEF Units, B!Units
  <2>2. \A S : B!Cardinality(S) = Cardinality(S)
    BY DEF Cardinality, B!Cardinality, IsFiniteSet, B!IsFiniteSet
  <2> QED BY <2>1, <2>2 DEF SumOver, B!SumOver
<1>7. \A deposits, fees, first, k, rest :
         B!FeesFit(deposits, fees, first, k, rest) = FeesFit(deposits, fees, first, k, rest)
  BY <1>2, <1>4 DEF FeesFit, B!FeesFit, FeeFits, B!FeeFits
<1>8. \A nets, first, amount, i :
         B!Drains(nets, first, amount, i) = Drains(nets, first, amount, i)
  BY <1>6 DEF Drains, B!Drains
<1>9. \A deposits, fees, first, amount, k :
         B!DrainsThrough(deposits, fees, first, amount, k)
           = DrainsThrough(deposits, fees, first, amount, k)
  BY <1>5, <1>8 DEF DrainsThrough, B!DrainsThrough
<1>10. \A deposits, fees, first, amount, k :
         B!Remainder(deposits, fees, first, amount, k)
           = Remainder(deposits, fees, first, amount, k)
  BY <1>5, <1>6 DEF Remainder, B!Remainder
<1>11. \A deposits, fees, first, k, rest :
         B!WithdrawalFee(deposits, fees, first, k, rest)
           = WithdrawalFee(deposits, fees, first, k, rest)
  <2> SUFFICES ASSUME NEW deposits, NEW fees, NEW first, NEW k, NEW rest
               PROVE  B!WithdrawalFee(deposits, fees, first, k, rest)
                        = WithdrawalFee(deposits, fees, first, k, rest)
    OBVIOUS
  <2>1. [i \in DOMAIN deposits |-> B!DepositFeeAmount(deposits[i], fees)]
          = [i \in DOMAIN deposits |-> DepositFeeAmount(deposits[i], fees)]
    BY <1>3
  <2> QED BY <1>1, <1>2, <1>6, <2>1 DEF WithdrawalFee, B!WithdrawalFee
<1>12. \A deposits, fees, first, amount, k :
         B!Withdrawal(deposits, fees, first, amount, k)
           = Withdrawal(deposits, fees, first, amount, k)
  BY <1>5, <1>6, <1>10, <1>11
     DEF Withdrawal, DepositsLeft, NextToRemove,
         B!Withdrawal, B!DepositsLeft, B!NextToRemove
<1> QED BY <1>0, <1>1, <1>7, <1>9, <1>12 DEF Covers, Transfer, B!Covers, B!Transfer

(* Its records are written like those of the other.                        *)
LEMMA RecordsOfB ==
    /\ \A r, amount, index : B!AfterDeposit(r, amount, index) = A!AfterDeposit(r, amount, index)
    /\ \A r, w : B!AfterWithdrawal(r, w) = A!AfterWithdrawal(r, w)
    /\ \A r, total : B!AfterClaim(r, total) = A!AfterClaim(r, total)
BY DEF A!AfterDeposit, A!AfterWithdrawal, A!AfterClaim, A!StakeDebit,
       B!AfterDeposit, B!AfterWithdrawal, B!AfterClaim, B!StakeDebit

(* Without boosters there is nothing to settle.                            *)
LEMMA NothingToSettleB ==
    ASSUME IdleB, NEW caller
    PROVE  /\ B!SettledUsers(caller, B!NoVisits) = usersDataB
           /\ \A a \in Accounts : B!CreditAfter(caller, a, B!NoVisits[a]) = 0
           /\ B!CalcBPRewards = B!NoVisits
           /\ B!VisitsOfWithdraw = B!NoVisits
           /\ \A a \in Accounts : /\ B!CheckBPExpired(a) = B!NoVisits
                                  /\ B!ListAfterCheck(a) = <<>>
<1>1. usersDataB \in [Accounts -> IdleUser] /\ usersWithBoosterPacksB = <<>>
  BY DEF IdleB, PoolIdle
<1>2. \A a \in Accounts : /\ usersDataB[a] \in IdleUser
                          /\ usersDataB[a].activeBoosterPack = 0
                          /\ usersDataB[a].boosterPackActivationBlock = 0
                          /\ usersDataB[a].claimableRewardsBP = 0
                          /\ usersDataB[a].accumRewardsBP = 0
  BY <1>1 DEF IdleUser
<1>3. \A a \in Accounts : B!NoVisits[a] = 0
  BY DEF B!NoVisits
<1>4. \A a \in Accounts : B!CreditAfter(caller, a, B!NoVisits[a]) = 0
  BY <1>2, <1>3 DEF B!CreditAfter
<1>5. B!SettledUsers(caller, B!NoVisits) = usersDataB
  <2> DEFINE settled == B!SettledUsers(caller, B!NoVisits)
  <2>1. ASSUME NEW a \in Accounts PROVE settled[a] = usersDataB[a]
    <3> DEFINE b == B!Boost(caller, a, B!NoVisits[a])
    <3>1. /\ b.claimable = 0 /\ b.accum = 0 /\ b.pack = 0 /\ b.start = 0
      BY <1>2, <1>3, <1>4 DEF B!Boost, B!AccumAfter, B!Activation
    <3>2. settled[a] = [usersDataB[a] EXCEPT !.claimableRewardsBP = b.claimable,
                                      !.accumRewardsBP = b.accum,
                                      !.activeBoosterPack = b.pack,
                                      !.boosterPackActivationBlock = b.start]
      BY DEF B!SettledUsers
    <3> HIDE DEF b, settled
    <3> QED BY <1>2, <3>1, <3>2, IdleUserIsKept
  <2>2. settled = [a \in Accounts |-> settled[a]]
    BY DEF B!SettledUsers
  <2> HIDE DEF settled
  <2> QED BY <1>1, <2>1, <2>2 DEF settled
<1>6. B!CalcBPRewards = B!NoVisits
  <2>1. \A a : {i \in DOMAIN usersWithBoosterPacksB : usersWithBoosterPacksB[i] = a} = {}
    BY <1>1
  <2>2. B!Cardinality({}) = 0
    <3>1. B!Cardinality({}) = Cardinality({})
      BY DEF Cardinality, B!Cardinality, IsFiniteSet, B!IsFiniteSet
    <3> QED BY <3>1, FS_EmptySet
  <2> QED BY <2>1, <2>2 DEF B!CalcBPRewards, B!NoVisits
<1>7. \A a \in Accounts : /\ B!CheckBPExpired(a) = B!NoVisits
                          /\ B!ListAfterCheck(a) = <<>>
  BY <1>1, <1>2 DEF B!CheckBPExpired, B!ListAfterCheck, B!PackExpires
<1> QED BY <1>4, <1>5, <1>6, <1>7 DEF B!VisitsOfWithdraw

(* The index of the second pool stays an amount.                           *)
LEMMA IndexMovesB ==
    ASSUME IdleB, B!UpdateUnlessPaused
    PROVE  /\ rewardsPerTokenB' \in Nat
           /\ rewardsPerTokenB' =
                rewardsPerTokenB + (IF pausedB THEN 0 ELSE B!AccruedTo(block))
<1>1. rewardsPerTokenB \in Nat
  BY DEF IdleB, PoolIdle
<1>2. CASE pausedB
  BY <1>1, <1>2 DEF B!UpdateUnlessPaused, B!indexVars
<1>3. CASE ~pausedB
  <2>1. /\ B!AccruedTo(block) \in Nat
        /\ rewardsPerTokenB' = rewardsPerTokenB + B!AccruedTo(block)
    BY <1>3 DEF B!UpdateUnlessPaused, B!UpdateRewardsPerToken, B!Uint128
  <2> QED BY <1>1, <1>3, <2>1
<1> QED BY <1>2, <1>3

(* A deposit keeps the pool without boosters, and the supply.              *)
LEMMA DepositIsIdleB ==
    ASSUME IdleB, block \in Nat, NEW u \in Users, NEW amount \in Amounts, B!Deposit(u, amount)
    PROVE  IdleB' /\ SumOver(balanceB', Accounts) = SumOver(balanceB, Accounts)
<1> DEFINE deposited == amount - FeeAmount(amount, Thousandths(depositFeeB))
           after     == Transfer(Transfer(balanceB, u, FeeRecipient, amount - deposited),
                                 u, PoolB, deposited)
           written   == A!AfterDeposit(usersDataB[u], deposited, rewardsPerTokenB')
<1>1. /\ u \in Accounts /\ PoolB \in Accounts /\ amount \in Nat
      /\ usersDataB \in [Accounts -> IdleUser] /\ balanceB \in [Accounts -> Nat]
      /\ depositFeeB \in Nat
  BY AccountsAreFinite, AmountsAssumption DEF IdleB, PoolIdle
<1>2. rewardsPerTokenB' \in Nat
  BY IndexMovesB DEF B!Deposit, B!WhenNotPaused, B!UpdateUnlessPaused
<1>3. /\ deposited >= 0
      /\ Covers(balanceB, u, amount - deposited)
      /\ Covers(Transfer(balanceB, u, FeeRecipient, amount - deposited), u, deposited)
      /\ balanceB' = after
  BY ArithmeticOfB DEF B!Deposit
<1>4. usersDataB' = [usersDataB EXCEPT ![u] = written]
  <2>1. usersDataB' = [usersDataB EXCEPT
          ![u] = B!AfterDeposit(usersDataB[u], amount - B!FeeAmount(amount, Thousandths(depositFeeB)),
                             rewardsPerTokenB')]
    BY NothingToSettleB, ArithmeticOfB DEF B!Deposit
  <2> QED BY <2>1, ArithmeticOfB, RecordsOfB
<1>5. /\ after \in [Accounts -> Nat] /\ written \in IdleUser
      /\ SumOver(after, Accounts) = SumOver(balanceB, Accounts)
  <2>1. PICK rate \in Nat : rate = Thousandths(depositFeeB)
    BY <1>1, ThousandthsAreTyped
  <2>2. deposited = amount - FeeAmount(amount, rate)
    BY <2>1
  <2> HIDE DEF deposited
  <2> QED BY <1>1, <1>2, <1>3, <2>2, DepositMoves
<1>6. UNCHANGED <<depositFeeB, withdrawFeesB, usersWithBoosterPacksB>>
  BY DEF B!Deposit, B!configVars
<1> HIDE DEF after, written
<1> QED BY <1>1, <1>2, <1>3, <1>4, <1>5, <1>6 DEF IdleB, PoolIdle

(* A withdrawal does, paused or not.                                       *)
LEMMA WithdrawIsIdleB ==
    ASSUME IdleB, NEW u \in Users, NEW amount \in Amounts, B!Withdraw(u, amount)
    PROVE  IdleB' /\ SumOver(balanceB', Accounts) = SumOver(balanceB, Accounts)
<1> DEFINE deposits == usersDataB[u].deposits
           first    == usersDataB[u].nextDepositIdToRemove
<1>1. /\ u \in Accounts /\ PoolB \in Accounts /\ amount \in Nat
      /\ usersDataB \in [Accounts -> IdleUser] /\ balanceB \in [Accounts -> Nat]
      /\ withdrawFeesB \in Fees
  BY AccountsAreFinite, AmountsAssumption DEF IdleB, PoolIdle
<1>2. rewardsPerTokenB' \in Nat
  BY IndexMovesB DEF B!Withdraw
<1>3. B!SettledUsers(u, B!VisitsOfWithdraw) = usersDataB
  BY NothingToSettleB
<1>4. PICK k \in (first - 1)..Len(deposits) :
         LET w      == B!Withdrawal(deposits, withdrawFeesB, first, amount, k)
             afterW == B!Transfer(balanceB, PoolB, u, w.paid)
         IN
         /\ B!DrainsThrough(deposits, withdrawFeesB, first, amount, k)
         /\ B!FeesFit(deposits, withdrawFeesB, first, k, w.rest)
         /\ B!StakeDebit(w) <= B!Stake(u)
         /\ B!Covers(balanceB, PoolB, w.paid)
         /\ B!Covers(afterW, PoolB, w.fee)
         /\ balanceB' = B!Transfer(afterW, PoolB, FeeRecipient, w.fee)
         /\ usersDataB' = [usersDataB EXCEPT
                               ![u] = B!AfterWithdrawal(usersDataB[u], w)]
  BY <1>3 DEF B!Withdraw
<1>5. PICK w :
         /\ w = Withdrawal(deposits, withdrawFeesB, first, amount, k)
         /\ DrainsThrough(deposits, withdrawFeesB, first, amount, k)
         /\ FeesFit(deposits, withdrawFeesB, first, k, w.rest)
         /\ w.drained + w.rest <= usersDataB[u].totalAmountDeposited
         /\ Covers(balanceB, PoolB, w.paid)
         /\ Covers(Transfer(balanceB, PoolB, u, w.paid), PoolB, w.fee)
         /\ balanceB' = Transfer(Transfer(balanceB, PoolB, u, w.paid),
                                 PoolB, FeeRecipient, w.fee)
         /\ usersDataB' = [usersDataB EXCEPT
                               ![u] = A!AfterWithdrawal(usersDataB[u], w)]
  BY <1>4, ArithmeticOfB, RecordsOfB DEF B!StakeDebit, B!Stake
<1>6. w \in [paid : Nat, fee : Nat, drained : Nat, rest : Nat,
             next : Nat \ {0}, left : Deposits]
  <2>1. PICK ds \in Deposits, n \in Nat \ {0} : ds = deposits /\ n = first
    BY <1>1 DEF IdleUser, Deposits, DepositData
  <2>2. /\ k \in (n - 1)..Len(ds)
        /\ DrainsThrough(ds, withdrawFeesB, n, amount, k)
        /\ FeesFit(ds, withdrawFeesB, n, k, w.rest)
        /\ w = Withdrawal(ds, withdrawFeesB, n, amount, k)
    BY <1>4, <1>5, <2>1
  <2>3. NetsFit(ds, withdrawFeesB, n, k)
    BY <2>2, FittingNets
  <2> HIDE DEF deposits, first
  <2> QED BY <1>1, <2>2, <2>3, WithdrawalIsTyped
<1>7. PICK paid \in Nat, kept \in Nat : paid = w.paid /\ kept = w.fee
  BY <1>6
<1>8. /\ balanceB' \in [Accounts -> Nat]
      /\ SumOver(balanceB', Accounts) = SumOver(balanceB, Accounts)
  <2>1. /\ Covers(balanceB, PoolB, paid)
        /\ Covers(Transfer(balanceB, PoolB, u, paid), PoolB, kept)
    BY <1>5, <1>7
  <2> DEFINE after == Transfer(Transfer(balanceB, PoolB, u, paid), PoolB, FeeRecipient, kept)
  <2>2. /\ after \in [Accounts -> Nat]
        /\ SumOver(after, Accounts) = SumOver(balanceB, Accounts)
    BY <1>1, <2>1, AccountsAreFinite, TwoTransfers
  <2>3. balanceB' = after
    BY <1>5, <1>7
  <2> HIDE DEF after
  <2> QED BY <2>2, <2>3
<1>9. A!AfterWithdrawal(usersDataB[u], w) \in IdleUser
  BY <1>1, <1>5, <1>6, WithdrawalKeepsIdle
<1>10. UNCHANGED <<depositFeeB, withdrawFeesB, usersWithBoosterPacksB>>
  BY DEF B!Withdraw, B!configVars
<1> QED BY <1>1, <1>2, <1>5, <1>8, <1>9, <1>10 DEF IdleB, PoolIdle

(* A claim pays what is due, whoever sends it, and creates what it records. *)
LEMMA ClaimIsIdleB ==
    ASSUME IdleB, NEW caller, NEW u \in Users, B!ClaimRewards(caller, u)
    PROVE  /\ IdleB'
           /\ balanceB'[u] - balanceB[u] = DueInB(u)
           /\ SumOver(balanceB', Accounts) - SumOver(balanceB, Accounts)
                = usersDataB'[u].accumRewards - usersDataB[u].accumRewards
<1> DEFINE index == rewardsPerTokenB'
           r     == usersDataB[u]
<1>1. /\ u \in Accounts
      /\ usersDataB \in [Accounts -> IdleUser] /\ balanceB \in [Accounts -> Nat]
      /\ usersWithBoosterPacksB = <<>>
  BY AccountsAreFinite DEF IdleB, PoolIdle
<1>2. /\ index \in Nat
      /\ index = rewardsPerTokenB + (IF pausedB THEN 0 ELSE B!AccruedTo(block))
  BY IndexMovesB DEF B!ClaimRewards
<1> DEFINE visits == IF pausedB THEN B!NoVisits ELSE B!CheckBPExpired(u)
           credit == B!CreditAfter(caller, u, visits[u])
<1>3. /\ visits = B!NoVisits /\ credit = 0
      /\ B!SettledUsers(caller, visits) = usersDataB
  BY <1>1, NothingToSettleB
<1>4. PICK total : total = B!TotalRewards(u, index)
  OBVIOUS
<1>5. /\ balanceB' = [balanceB EXCEPT ![u] = @ + (total - r.accumRewards + credit)]
      /\ usersDataB' = [B!SettledUsers(caller, visits) EXCEPT
                            ![u] = B!AfterClaim(B!SettledUsers(caller, visits)[u], total)]
      /\ r.rewardsPerToken <= index /\ r.accumRewards <= total
      /\ usersWithBoosterPacksB' = IF pausedB THEN usersWithBoosterPacksB
                                   ELSE B!ListAfterCheck(u)
      /\ UNCHANGED <<depositFeeB, withdrawFeesB>>
  BY <1>4 DEF B!ClaimRewards, B!configVars
<1>6. total = ToUint64(((index - r.rewardsPerToken) * r.totalAmountDeposited) \div MULTIPLIER)
  BY <1>4 DEF B!TotalRewards, B!Stake, B!ToUint64, B!MULTIPLIER, ToUint64, MULTIPLIER
<1>7. DueInB(u) = total - r.accumRewards
  BY <1>2, <1>4 DEF DueInB
<1>8. /\ usersDataB' = [usersDataB EXCEPT ![u] = A!AfterClaim(r, total)]
      /\ usersWithBoosterPacksB' = <<>>
  BY <1>1, <1>3, <1>5, NothingToSettleB, RecordsOfB
<1> HIDE DEF visits, credit, index
<1> DEFINE paid  == total - r.accumRewards
           after == [balanceB EXCEPT ![u] = @ + paid]
<1>9. total \in Nat /\ r \in IdleUser
  <2>1. r \in IdleUser /\ r.rewardsPerToken \in Nat /\ r.totalAmountDeposited \in Nat
    BY <1>1 DEF IdleUser
  <2>2. PICK i \in Nat, start \in Nat, stake \in Nat :
           i = index /\ start = r.rewardsPerToken /\ stake = r.totalAmountDeposited
    BY <1>2, <2>1
  <2>3. start <= i /\ total = ToUint64(((i - start) * stake) \div MULTIPLIER)
    BY <1>5, <1>6, <2>2 DEF index
  <2>4. ToUint64(((i - start) * stake) \div MULTIPLIER) \in Nat
    BY <2>3, RewardsAreAmounts
  <2> QED BY <2>1, <2>3, <2>4
<1>10. paid \in Nat
  BY <1>5, <1>9 DEF IdleUser
<1> HIDE DEF paid
<1>11. /\ after \in [Accounts -> Nat] /\ after[u] - balanceB[u] = paid
       /\ SumOver(after, Accounts) - SumOver(balanceB, Accounts) = paid
  <2>1. /\ after \in [Accounts -> Nat] /\ after[u] = balanceB[u] + paid
        /\ balanceB[u] \in Nat
        /\ \A a \in Accounts \ {u} : balanceB[a] = after[a]
    BY <1>1, <1>10
  <2> HIDE DEF after
  <2>2. SumOver(after, Accounts) - SumOver(balanceB, Accounts) = after[u] - balanceB[u]
    BY <1>1, <2>1, SupplyMovesWithPurse
  <2> QED BY <1>10, <2>1, <2>2
<1>12. A!AfterClaim(r, total) \in IdleUser /\ A!AfterClaim(r, total).accumRewards = total
  BY <1>9, ClaimKeepsIdle
<1>13. balanceB' = after
  <2>1. total - r.accumRewards + credit = paid
    BY <1>3, <1>9, <1>10 DEF paid
  <2> QED BY <1>5, <2>1
<1>14. usersDataB'[u].accumRewards = total
  BY <1>1, <1>8, <1>12
<1> HIDE DEF after, r
<1>15. IdleB'
  BY <1>1, <1>2, <1>5, <1>8, <1>11, <1>12, <1>13 DEF IdleB, PoolIdle, index
<1> QED BY <1>7, <1>11, <1>13, <1>14, <1>15 DEF r, paid

(* Nor does the owner start a booster or move a token.                     *)
LEMMA OwnerIsIdleB ==
    ASSUME IdleB, B!OwnerStep
    PROVE  IdleB' /\ UNCHANGED balanceB
<1>1. CASE B!Pause
  <2>1. rewardsPerTokenB' \in Nat
    <3>1. /\ rewardsPerTokenB \in Nat /\ B!AccruedTo(block) \in Nat
          /\ rewardsPerTokenB' = rewardsPerTokenB + B!AccruedTo(block)
      BY <1>1 DEF B!Pause, B!UpdateRewardsPerToken, B!Uint128, IdleB, PoolIdle
    <3> QED BY <3>1
  <2>2. UNCHANGED <<usersDataB, balanceB, usersWithBoosterPacksB, depositFeeB, withdrawFeesB>>
    BY <1>1, NothingToSettleB DEF B!Pause
  <2> QED BY <2>1, <2>2 DEF IdleB, PoolIdle
<1> DEFINE Others == UNCHANGED <<usersDataB, balanceB, rewardsPerTokenB,
                                 usersWithBoosterPacksB>>
<1>2. ASSUME NEW fee \in DepositFees, B!UpdateDepositFee(fee)
      PROVE  IdleB' /\ UNCHANGED balanceB
  <2>1. Others /\ depositFeeB' = fee /\ UNCHANGED withdrawFeesB
    BY <1>2 DEF B!UpdateDepositFee, B!indexVars, B!stakeVars, B!boostVars
  <2> QED BY <2>1, AmountsAssumption DEF IdleB, PoolIdle
<1>3. ASSUME NEW rows \in Fees, B!ChangeWithdrawFees(rows)
      PROVE  IdleB' /\ UNCHANGED balanceB
  <2>1. Others /\ UNCHANGED depositFeeB /\ withdrawFeesB' = rows
    BY <1>3 DEF B!ChangeWithdrawFees, B!indexVars, B!stakeVars, B!boostVars
  <2> QED BY <2>1 DEF IdleB, PoolIdle
<1> DEFINE Row == [blockNumber : Nat, fee : Nat]
<1>4. /\ withdrawFeesB \in Seq(Row) /\ FeeRows \subseteq Row
      /\ [blockNumber |-> 0, fee |-> 0] \in Row
  BY AmountsAssumption DEF IdleB, PoolIdle, Fees
<1>5. ASSUME NEW row \in FeeRows, B!AddWithdrawFee(row)
      PROVE  IdleB' /\ UNCHANGED balanceB
  <2>1. Append(withdrawFeesB, row) \in Fees
    BY <1>4 DEF Fees
  <2> QED BY <1>3, <1>5, <2>1 DEF B!AddWithdrawFee
<1>6. ASSUME NEW row \in FeeRows, NEW id, B!UpdateWithdrawFee(id, row)
      PROVE  IdleB' /\ UNCHANGED balanceB
  <2>1. [withdrawFeesB EXCEPT ![id] = row] \in Fees
    BY <1>4, <1>6, RowIsReplaced DEF Fees, B!UpdateWithdrawFee
  <2> QED BY <1>3, <1>6, <2>1 DEF B!UpdateWithdrawFee
<1>7. ASSUME NEW id, B!RemoveWithdrawFee(id)
      PROVE  IdleB' /\ UNCHANGED balanceB
  <2>1. [withdrawFeesB EXCEPT ![id] = [blockNumber |-> 0, fee |-> 0]] \in Fees
    BY <1>4, <1>7, RowIsReplaced DEF Fees, B!RemoveWithdrawFee
  <2> QED BY <1>3, <1>7, <2>1 DEF B!RemoveWithdrawFee
<1>8. CASE Others /\ UNCHANGED <<depositFeeB, withdrawFeesB>>
  BY <1>8 DEF IdleB, PoolIdle
<1>9. \/ B!Pause
      \/ \E fee \in DepositFees : B!UpdateDepositFee(fee)
      \/ \E row \in FeeRows : B!AddWithdrawFee(row)
      \/ \E row \in FeeRows, id \in 1..MaxRows : B!UpdateWithdrawFee(id, row)
      \/ \E id \in 1..MaxRows : B!RemoveWithdrawFee(id)
      \/ Others /\ UNCHANGED <<depositFeeB, withdrawFeesB>>
  BY DEF B!OwnerStep, B!Unpause, B!UpdateBaseRateTokensPerBlock,
         B!AddRewardsMultiplier, B!UpdateRewardsMultiplier, B!RemoveRewardsMultiplier,
         B!ChangeRewardsMultipliers, B!indexVars, B!stakeVars, B!boostVars
<1> HIDE DEF Others
<1> QED BY <1>1, <1>2, <1>5, <1>6, <1>7, <1>8, <1>9

(* A pack that nobody holds cannot be burned.                              *)
LEMMA NothingToBurnB ==
    ASSUME NoPackHeld, NEW u \in Users, NEW id \in PackIds
    PROVE  ~B!BurnBP(u, id)
BY DEF NoPackHeld, InitPackBalance, B!BurnBP, B!TransferAndBurn, Accounts, EOAs

(* And no other transaction of the pool moves packs.                       *)
LEMMA PacksAreKeptB ==
    ASSUME NEW caller, NEW u, NEW amount,
           \/ B!Deposit(u, amount) \/ B!Withdraw(u, amount)
           \/ B!ClaimRewards(caller, u) \/ B!OwnerStep
    PROVE  UNCHANGED <<block, packBalance>>
BY DEF B!Deposit, B!Withdraw, B!ClaimRewards, B!packVars, B!OwnerStep, B!Pause,
       B!Unpause, B!UpdateBaseRateTokensPerBlock, B!UpdateDepositFee,
       B!AddRewardsMultiplier, B!UpdateRewardsMultiplier, B!RemoveRewardsMultiplier,
       B!ChangeRewardsMultipliers, B!AddWithdrawFee, B!UpdateWithdrawFee,
       B!RemoveWithdrawFee, B!ChangeWithdrawFees

-----------------------------------------------------------------------------
(* The deployment. *)

(* What keeps packs from being minted, and with them boosters: the         *)
(* whitelist holds pools only.                                             *)
PacksInv ==
    /\ RecordsInv
    /\ NoPackHeld
    /\ IdleA /\ IdleB
    /\ block \in Nat

(* Nobody with a key mints, and there is nothing to burn or to send.       *)
LEMMA PackTransactionsMintNothing ==
    ASSUME PacksInv, StepPacks PROVE UNCHANGED packBalance
<1>1. PICK caller \in EOAs :
         \/ \E id \in PackIds, n \in 0..MaxPacks :
              \/ Packs!Burn(caller, id, n)
              \/ \E to \in Holders : Packs!SafeTransferFrom(caller, to, id, n)
              \/ \E to \in Holders, attr \in AttributeChoices :
                   Packs!Mint(caller, to, id, n, attr)
         \/ OnlyOwner(BoosterPacks, caller)
  BY DEF StepPacks, OwnerStepPacks
<1>2. ~OnlyOwner(BoosterPacks, caller)
  BY OwnersHaveNoKey DEF PacksInv
<1>3. caller \notin whitelistedAddrBP /\ caller \in Accounts
  BY DeploymentAssumption DEF PacksInv, RecordsInv, RecordsAgree, OwnersKnown, Accounts
<1>4. PICK id \in PackIds, n \in 0..MaxPacks :
         \E to \in Holders : Packs!SafeTransferFrom(caller, to, id, n)
  BY <1>1, <1>2, <1>3 DEF Packs!Burn, Packs!Mint
<1>5. PICK to \in Holders : Packs!SafeTransferFrom(caller, to, id, n)
  BY <1>4
<1>6. /\ n <= packBalance[caller][id]
      /\ LET taken == [packBalance EXCEPT ![caller][id] = @ - n]
         IN  packBalance' = [taken EXCEPT ![to][id] = @ + n]
  BY <1>5 DEF Packs!SafeTransferFrom
<1>7. packBalance = [a \in Accounts |-> [i \in PackIds |-> 0]] /\ to \in Accounts
  BY DEF PacksInv, NoPackHeld, InitPackBalance, Holders, Accounts
<1>8. n = 0
  BY <1>3, <1>6, <1>7
<1> DEFINE taken == [packBalance EXCEPT ![caller][id] = @ - n]
<1>9. taken = packBalance
  BY <1>3, <1>7, <1>8
<1> HIDE DEF taken
<1>10. packBalance' = [taken EXCEPT ![to][id] = @ + n]
  BY <1>6 DEF taken
<1> QED BY <1>7, <1>8, <1>9, <1>10

(* What a transaction sent to the first pool leaves, and what it creates:  *)
(* tokens come from claims only, as many as the records say.               *)
LEMMA StepAMoves ==
    ASSUME PacksInv, StepA
    PROVE  /\ IdleA' /\ UNCHANGED <<block, packBalance, poolB, owner>>
           /\ \/ SupplyA' = SupplyA
              \/ /\ MayMint(PoolA, TokenA)
                 /\ \E u \in Users : SupplyA' - SupplyA =
                      usersDataA'[u].accumRewards - usersDataA[u].accumRewards
<1>1. \/ \E u \in Users, n \in Amounts : A!Deposit(u, n) \/ A!Withdraw(u, n)
      \/ \E caller \in EOAs, u \in Users :
           MayMint(PoolA, TokenA) /\ A!ClaimRewards(caller, u)
      \/ A!OwnerStep
  BY NothingToBurnA DEF StepA, OwnerStepA, PacksInv
<1>2. UNCHANGED <<block, packBalance>>
  BY <1>1, PacksAreKeptA
<1>3. UNCHANGED <<poolB, owner>>
  BY DEF StepA, registry
<1>4. ASSUME NEW u \in Users, NEW n \in Amounts, A!Deposit(u, n) \/ A!Withdraw(u, n)
      PROVE  IdleA' /\ SupplyA' = SupplyA
  BY <1>4, DepositIsIdleA, WithdrawIsIdleA DEF PacksInv, SupplyA
<1>5. ASSUME NEW caller \in EOAs, NEW u \in Users, A!ClaimRewards(caller, u)
      PROVE  /\ IdleA'
             /\ SupplyA' - SupplyA =
                  usersDataA'[u].accumRewards - usersDataA[u].accumRewards
  BY <1>5, ClaimIsIdleA DEF PacksInv, SupplyA
<1>6. ASSUME A!OwnerStep
      PROVE  IdleA' /\ SupplyA' = SupplyA
  BY <1>6, OwnerIsIdleA DEF PacksInv, SupplyA
<1> QED BY <1>1, <1>2, <1>3, <1>4, <1>5, <1>6

(* A transaction sent to the second pool leaves the first alone.           *)
LEMMA StepBMoves ==
    ASSUME PacksInv, StepB
    PROVE  IdleB' /\ UNCHANGED <<block, packBalance, poolA, owner>>
<1>1. \/ \E u \in Users, n \in Amounts : B!Deposit(u, n) \/ B!Withdraw(u, n)
      \/ \E caller \in EOAs, u \in Users : B!ClaimRewards(caller, u)
      \/ B!OwnerStep
  BY NothingToBurnB DEF StepB, OwnerStepB, PacksInv
<1>2. UNCHANGED <<block, packBalance>>
  BY <1>1, PacksAreKeptB
<1>3. UNCHANGED <<poolA, owner>>
  BY DEF StepB, registry
<1>4. IdleB'
  BY <1>1, DepositIsIdleB, WithdrawIsIdleB, ClaimIsIdleB, OwnerIsIdleB DEF PacksInv
<1> QED BY <1>2, <1>3, <1>4

(* A claim through the manager is a claim in each pool of the list.        *)
LEMMA BatchMoves ==
    ASSUME PacksInv, NEW u \in Users, NEW list, BatchClaim(u, list)
    PROVE  /\ IdleA' /\ IdleB' /\ UNCHANGED <<block, packBalance, owner>>
           /\ IF PoolA \in list
              THEN /\ MayMint(PoolA, TokenA)
                   /\ balanceA'[u] - balanceA[u] = DueInA(u)
                   /\ SupplyA' - SupplyA =
                        usersDataA'[u].accumRewards - usersDataA[u].accumRewards
              ELSE UNCHANGED balanceA
           /\ IF PoolB \in list
              THEN balanceB'[u] - balanceB[u] = DueInB(u)
              ELSE UNCHANGED balanceB
<1>1. UNCHANGED <<block, packBalance, owner>>
  BY DEF BatchClaim, packs, registry
<1>2. /\ IdleA'
      /\ IF PoolA \in list
         THEN /\ MayMint(PoolA, TokenA)
              /\ balanceA'[u] - balanceA[u] = DueInA(u)
              /\ SupplyA' - SupplyA =
                   usersDataA'[u].accumRewards - usersDataA[u].accumRewards
         ELSE UNCHANGED balanceA
  <2>1. CASE PoolA \in list
    <3>1. MayMint(PoolA, TokenA) /\ A!ClaimRewards(Manager, u)
      BY <2>1 DEF BatchClaim
    <3> QED BY <2>1, <3>1, ClaimIsIdleA DEF PacksInv, SupplyA
  <2>2. CASE PoolA \notin list
    <3>1. UNCHANGED poolA
      BY <2>2 DEF BatchClaim
    <3> QED BY <2>2, <3>1 DEF poolA, PacksInv, IdleA, PoolIdle
  <2> QED BY <2>1, <2>2
<1>3. /\ IdleB'
      /\ IF PoolB \in list
         THEN balanceB'[u] - balanceB[u] = DueInB(u)
         ELSE UNCHANGED balanceB
  <2>1. CASE PoolB \in list
    <3>1. B!ClaimRewards(Manager, u)
      BY <2>1 DEF BatchClaim
    <3> QED BY <2>1, <3>1, ClaimIsIdleB DEF PacksInv
  <2>2. CASE PoolB \notin list
    <3>1. UNCHANGED poolB
      BY <2>2 DEF BatchClaim
    <3> QED BY <2>2, <3>1 DEF poolB, PacksInv, IdleB, PoolIdle
  <2> QED BY <2>1, <2>2
<1> QED BY <1>1, <1>2, <1>3

(* The owner of an asset mints to a purse.                                 *)
LEMMA MintKeepsIdle ==
    ASSUME PacksInv, NEW caller, NEW to \in Users, NEW n \in MintAmounts,
           MintA(caller, to, n)
    PROVE  IdleA' /\ UNCHANGED <<block, packBalance, poolB>>
<1>1. balanceA \in [Accounts -> Nat] /\ to \in Accounts /\ n \in Nat
  BY AmountsAssumption, AccountsAreFinite DEF PacksInv, IdleA, PoolIdle
<1>2. /\ balanceA' = [balanceA EXCEPT ![to] = @ + n]
      /\ UNCHANGED <<block, packs, poolB, usersDataA, rewardsPerTokenA,
                     usersWithBoosterPacksA, depositFeeA, withdrawFeesA>>
  BY DEF MintA
<1>3. balanceA' \in [Accounts -> Nat]
  BY <1>1, <1>2
<1> QED BY <1>2, <1>3 DEF packs, PacksInv, IdleA, PoolIdle

(* Every transaction keeps it so.                                          *)
LEMMA NextKeepsPacks ==
    ASSUME PacksInv, [DeploymentNext]_vars
    PROVE  PacksInv'
<1>1. RecordsInv'
  BY NextKeepsRecords DEF PacksInv
<1>2. CASE UNCHANGED <<packBalance, poolA, poolB>> /\ block' \in Nat
  BY <1>1, <1>2 DEF PacksInv, NoPackHeld, poolA, poolB, IdleA, IdleB, PoolIdle
<1>3. CASE StepA
  <2>1. IdleA' /\ UNCHANGED <<block, packBalance, poolB>>
    BY <1>3, StepAMoves
  <2> QED BY <1>1, <2>1 DEF PacksInv, NoPackHeld, poolB, IdleB, PoolIdle
<1>4. CASE StepB
  <2>1. IdleB' /\ UNCHANGED <<block, packBalance, poolA>>
    BY <1>4, StepBMoves
  <2> QED BY <1>1, <2>1 DEF PacksInv, NoPackHeld, poolA, IdleA, PoolIdle
<1>5. CASE StepPacks
  BY <1>2, <1>5, PackTransactionsMintNothing DEF StepPacks, PacksInv
<1>6. ASSUME NEW u \in Users, NEW list, BatchClaim(u, list)
      PROVE  PacksInv'
  <2>1. IdleA' /\ IdleB' /\ UNCHANGED <<block, packBalance>>
    BY <1>6, BatchMoves
  <2> QED BY <1>1, <2>1 DEF PacksInv, NoPackHeld
<1>7. ASSUME NEW caller, NEW to \in Users, NEW n \in MintAmounts, MintA(caller, to, n)
      PROVE  PacksInv'
  <2>1. IdleA' /\ UNCHANGED <<block, packBalance, poolB>>
    BY <1>7, MintKeepsIdle
  <2> QED BY <1>1, <2>1 DEF PacksInv, NoPackHeld, poolB, IdleB, PoolIdle
<1>8. CASE NextBlock
  BY <1>2, <1>8 DEF NextBlock, packs, PacksInv
<1>9. \/ StepA \/ StepB \/ StepPacks \/ NextBlock
      \/ UNCHANGED <<block, packBalance, poolA, poolB>>
      \/ \E u \in Users, list \in (SUBSET {PoolA, PoolB}) \ {{}} : BatchClaim(u, list)
      \/ \E caller \in EOAs, to \in Users, n \in MintAmounts : MintA(caller, to, n)
  BY DEF DeploymentNext, AddWhitelistedToken, RemoveWhitelistedToken, CreatePool,
         DeployPool, TransferOwnership, vars, packs
<1>10. CASE UNCHANGED <<block, packBalance, poolA, poolB>>
  BY <1>2, <1>10 DEF PacksInv
<1> QED BY <1>3, <1>4, <1>5, <1>6, <1>7, <1>8, <1>9, <1>10

(* And so it is when the contracts are deployed.                           *)
LEMMA InitHasNoPacks == DeploymentInit => PacksInv
<1> SUFFICES ASSUME DeploymentInit PROVE PacksInv
  OBVIOUS
<1>1. /\ usersDataA = [a \in Accounts |-> A!NoUserData]
      /\ usersDataB = [a \in Accounts |-> A!NoUserData]
      /\ packBalance = InitPackBalance /\ block = 1
  BY DEF DeploymentInit, A!Init, B!Init, A!NoUserData, B!NoUserData
<1>2. A!NoUserData \in IdleUser
  BY DEF A!NoUserData, IdleUser
<1>3. /\ balanceA = InitBalance /\ rewardsPerTokenA = 0 /\ usersWithBoosterPacksA = <<>>
      /\ depositFeeA = InitDepositFee /\ withdrawFeesA = InitFees
      /\ balanceB = InitBalance /\ rewardsPerTokenB = 0 /\ usersWithBoosterPacksB = <<>>
      /\ depositFeeB = InitDepositFee /\ withdrawFeesB = InitFees
  BY DEF DeploymentInit, A!Init, B!Init
<1>4. IdleA /\ IdleB
  BY <1>1, <1>2, <1>3, AmountsAssumption DEF IdleA, IdleB, PoolIdle, Fees
<1> QED BY <1>1, <1>4, InitRecordsAgree DEF PacksInv, NoPackHeld

(* No account ever holds a pack, and no account has a booster in a pool.   *)
NoPackIsEverMinted ==
    /\ packBalance = InitPackBalance
    /\ \A a \in Accounts : /\ usersDataA[a].activeBoosterPack = 0
                            /\ usersDataB[a].activeBoosterPack = 0

(* No pack of the manager's BoosterPack ever exists and no booster is ever *)
(* active in a pool, whoever holds the manager: the whitelist admits pools *)
(* only, and a pool mints no packs.                                        *)
THEOREM NoPackExists == DeploymentSpec => []NoPackIsEverMinted
<1>1. PacksInv => NoPackIsEverMinted
  BY DEF PacksInv, NoPackHeld, IdleA, IdleB, PoolIdle, IdleUser, NoPackIsEverMinted
<1> QED BY <1>1, InitHasNoPacks, NextKeepsPacks, PTL DEF DeploymentSpec

-----------------------------------------------------------------------------
(* Supply. *)

(* An asset whose owner has no key keeps its owner.                        *)
LEMMA OwnedAssetKeepsOwner ==
    ASSUME PacksInv, [DeploymentNext]_vars, owner[TokenA] \notin EOAs
    PROVE  owner'[TokenA] = owner[TokenA]
<1>1. TokenA \in DOMAIN owner /\ TokenA \notin {PoolA, PoolB}
  BY DeploymentAssumption DEF PacksInv, RecordsInv, OwnersKnown, Contracts, Tokens
<1>2. ASSUME NEW caller \in EOAs, NEW pool \in {PoolA, PoolB},
             CreatePool(caller, pool) \/ DeployPool(caller, pool)
      PROVE  owner'[TokenA] = owner[TokenA]
  BY <1>1, <1>2 DEF CreatePool, DeployPool, Owned
<1>3. ASSUME NEW caller \in EOAs, NEW h \in Handovers, TransferOwnership(caller, h[1], h[2])
      PROVE  owner'[TokenA] = owner[TokenA]
  BY <1>1, <1>3 DEF TransferOwnership, OnlyOwner
<1>4. CASE UNCHANGED owner
  BY <1>4
<1>5. \/ UNCHANGED owner
      \/ \E caller \in EOAs, pool \in {PoolA, PoolB} :
           CreatePool(caller, pool) \/ DeployPool(caller, pool)
      \/ \E caller \in EOAs, h \in Handovers : TransferOwnership(caller, h[1], h[2])
  BY DEF DeploymentNext, AddWhitelistedToken, RemoveWhitelistedToken, MintA, BatchClaim,
         StepA, StepB, StepPacks, NextBlock, vars, registry
<1> QED BY <1>2, <1>3, <1>4, <1>5

(* Only rewards add to the supply of an asset that is not open to all and  *)
(* whose owner has no key.                                                 *)
LEMMA OwnedAssetGrowsByClaims ==
    ASSUME PacksInv, [DeploymentNext]_vars, owner[TokenA] \notin EOAs,
           TokenA \notin OpenTokens, SupplyA' # SupplyA
    PROVE  /\ owner[TokenA] = PoolA
           /\ \E u \in Users : SupplyA' - SupplyA =
                usersDataA'[u].accumRewards - usersDataA[u].accumRewards
<1>1. \A caller : MayMint(caller, TokenA) => owner[TokenA] = caller
  BY DEF MayMint
<1>2. CASE StepA
  BY <1>1, <1>2, StepAMoves
<1>3. ASSUME NEW u \in Users, NEW list, BatchClaim(u, list)
      PROVE  /\ owner[TokenA] = PoolA
             /\ SupplyA' - SupplyA =
                  usersDataA'[u].accumRewards - usersDataA[u].accumRewards
  <2>1. PoolA \in list
    BY <1>3, BatchMoves DEF SupplyA
  <2> QED BY <1>1, <1>3, <2>1, BatchMoves
<1>4. ~ UNCHANGED balanceA
  BY DEF SupplyA
<1>5. ~ \E caller \in EOAs, to \in Users, n \in MintAmounts : MintA(caller, to, n)
  BY <1>1 DEF MintA
<1>6. StepA \/ \E u \in Users, list \in (SUBSET {PoolA, PoolB}) \ {{}} : BatchClaim(u, list)
  BY <1>4, <1>5 DEF DeploymentNext, AddWhitelistedToken, RemoveWhitelistedToken, CreatePool,
         DeployPool, TransferOwnership, StepB, StepPacks, NextBlock, vars, poolA
<1> QED BY <1>2, <1>3, <1>6

(* The right to mint an asset is final once it is not with an account that *)
(* has a key, and from then on each new token is one more in the           *)
(* accumulated rewards of the pool that owns the asset.  (An asset open to *)
(* all has no such right.)                                                 *)
THEOREM OwnedAssetGrows ==
    TokenA \notin OpenTokens => (DeploymentSpec => OwnedAssetGrowsByRewards)
<1> DEFINE Grows ==
        owner[TokenA] \notin EOAs =>
          /\ owner'[TokenA] = owner[TokenA]
          /\ SupplyA' # SupplyA =>
               /\ owner[TokenA] = PoolA
               /\ \E u \in Users : SupplyA' - SupplyA =
                    usersDataA'[u].accumRewards - usersDataA[u].accumRewards
<1> SUFFICES ASSUME TokenA \notin OpenTokens
             PROVE  DeploymentSpec => OwnedAssetGrowsByRewards
  OBVIOUS
<1>1. PacksInv /\ [DeploymentNext]_vars => Grows
  BY OwnedAssetKeepsOwner, OwnedAssetGrowsByClaims
<1>2. PacksInv /\ [DeploymentNext]_vars => PacksInv'
  BY NextKeepsPacks
<1> QED BY <1>1, <1>2, InitHasNoPacks, PTL DEF DeploymentSpec, OwnedAssetGrowsByRewards

-----------------------------------------------------------------------------
(* Claims through the manager. *)

(* A claim through the manager pays in every pool of the list what is due  *)
(* there in this block, whoever owns the pool, and nothing in the others.  *)
THEOREM BatchPays == DeploymentSpec => BatchPaysWhatIsDue
<1> DEFINE Pays ==
        \A u \in Users, list \in SUBSET {PoolA, PoolB} : BatchClaim(u, list) =>
          /\ balanceA'[u] - balanceA[u] = IF PoolA \in list THEN DueInA(u) ELSE 0
          /\ balanceB'[u] - balanceB[u] = IF PoolB \in list THEN DueInB(u) ELSE 0
<1>1. PacksInv => Pays
  <2> SUFFICES ASSUME PacksInv, NEW u \in Users, NEW list \in SUBSET {PoolA, PoolB},
                      BatchClaim(u, list)
               PROVE  /\ balanceA'[u] - balanceA[u] = IF PoolA \in list THEN DueInA(u) ELSE 0
                      /\ balanceB'[u] - balanceB[u] = IF PoolB \in list THEN DueInB(u) ELSE 0
    OBVIOUS
  <2>1. balanceA[u] \in Nat /\ balanceB[u] \in Nat
    BY AccountsAreFinite DEF PacksInv, IdleA, IdleB, PoolIdle
  <2>2. /\ PoolA \notin list => balanceA'[u] - balanceA[u] = 0
        /\ PoolB \notin list => balanceB'[u] - balanceB[u] = 0
    BY <2>1, BatchMoves
  <2> QED BY <2>2, BatchMoves
<1>2. PacksInv /\ [DeploymentNext]_vars => PacksInv'
  BY NextKeepsPacks
<1> QED BY <1>1, <1>2, InitHasNoPacks, PTL DEF DeploymentSpec, BatchPaysWhatIsDue
=============================================================================
