----------------------------- MODULE Deployment -----------------------------
(***************************************************************************)
(* src/PoolManager.sol, src/PoolFactory.sol and src/TheToken.sol, composed *)
(* with two pools: who owns which contract, and which functions can        *)
(* therefore be reached.  The manager deploys the factory and the          *)
(* BoosterPack and owns both; the factory deploys pools and owns them; a   *)
(* pool can pay rewards only while it may mint its asset.                  *)
(*                                                                         *)
(* PoolA takes TokenA and PoolB TokenB.  Both exist from the start as the  *)
(* state their constructor leaves, and take transactions once created.     *)
(* They share the block and the BoosterPack of the manager.                *)
(***************************************************************************)
EXTENDS PoolMath, SequencesExt

CONSTANTS
    Users, Deployer, FeeRecipient, Zero,
    Manager, Factory, BoosterPacks, PoolA, PoolB, TokenA, TokenB,
    OpenTokens,     \* assets whose mint is open to all, as in the tests' mocks
    Handovers,      \* bound: <<contract, account>> pairs for transferOwnership
    DirectPools,    \* bound: pools that may be deployed without the manager
    MintAmounts,    \* bound: amounts the owner of an asset mints
    RateA, RateB,   \* _baseRateTokensPerBlock of the two pools
    InitDepositFee, InitMultipliers, InitFees, InitBalance,
    Amounts, BaseRates, DepositFees, Tiers, FeeRows,
    IdSpace, PackIds, AttributeChoices, MaxPacks,
    MaxBlock, MaxDeposits, MaxBurns, MaxRows, MaxBalance

VARIABLES
    block, packBalance, attributes, whitelistedAddrBP,
    pausedA, baseRateA, depositFeeA, rewardsMultipliersA, withdrawFeesA,
    totalAmountA, rewardsPerTokenA, lastBlockUpdatedA, usersDataA,
    usersWithBoosterPacksA, rewardsPerTokenBPA, balanceA,
    pausedB, baseRateB, depositFeeB, rewardsMultipliersB, withdrawFeesB,
    totalAmountB, rewardsPerTokenB, lastBlockUpdatedB, usersDataB,
    usersWithBoosterPacksB, rewardsPerTokenBPB, balanceB,
    owner,              \* Ownable._owner of each contract
    whitelistedTokens,  \* PoolManager._whitelistedTokens
    pools,              \* PoolManager._pools
    created             \* pools that are deployed

packs == <<packBalance, attributes, whitelistedAddrBP>>
poolA == <<pausedA, baseRateA, depositFeeA, rewardsMultipliersA,
           withdrawFeesA, totalAmountA, rewardsPerTokenA, lastBlockUpdatedA,
           usersDataA, usersWithBoosterPacksA, rewardsPerTokenBPA, balanceA>>
poolB == <<pausedB, baseRateB, depositFeeB, rewardsMultipliersB,
           withdrawFeesB, totalAmountB, rewardsPerTokenB, lastBlockUpdatedB,
           usersDataB, usersWithBoosterPacksB, rewardsPerTokenBPB, balanceB>>
registry == <<owner, whitelistedTokens, pools, created>>
vars == <<block, packs, poolA, poolB, registry>>

Tokens == {TokenA, TokenB}

(* Accounts with a key, which can call anything; contracts call only what  *)
(* their code calls.                                                       *)
EOAs == Users \cup {Deployer}

Accounts == EOAs \cup {FeeRecipient, Zero, Manager, PoolA, PoolB}

(* Every contract has an address of its own, and none has a key.           *)
ASSUME DeploymentAssumption ==
    /\ PoolA # PoolB /\ TokenA # TokenB
    /\ {PoolA, PoolB} \cap {Manager, Factory, BoosterPacks, TokenA, TokenB} = {}
    /\ EOAs \cap {Manager, Factory, BoosterPacks, PoolA, PoolB, TokenA, TokenB} = {}

(* Purses, fees and the amounts of calls are numbers of tokens.            *)
ASSUME AmountsAssumption ==
    /\ IsFiniteSet(Users)
    /\ InitBalance \in [Accounts -> Nat]
    /\ Amounts \cup MintAmounts \subseteq Nat
    /\ DepositFees \cup {InitDepositFee} \subseteq Nat
    /\ InitFees \in Seq([blockNumber : Nat, fee : Nat])
    /\ FeeRows \subseteq [blockNumber : Nat, fee : Nat]

InitWhitelist == {}
Whitelistable == EOAs
Holders == EOAs
Slots == 0..(IdSpace - 1)
InitPackBalance == [a \in Accounts |-> [id \in PackIds |-> 0]]
InitAttributes ==
    [s \in Slots |-> [duration |-> 0, expirationDate |-> 0, multiplier |-> 0]]

A == INSTANCE Pool WITH
    PoolAddr <- PoolA, Owner <- Deployer, InitBaseRate <- RateA,
    paused <- pausedA, baseRate <- baseRateA, depositFee <- depositFeeA,
    rewardsMultipliers <- rewardsMultipliersA, withdrawFees <- withdrawFeesA,
    totalAmount <- totalAmountA, rewardsPerToken <- rewardsPerTokenA,
    lastBlockUpdated <- lastBlockUpdatedA, usersData <- usersDataA,
    usersWithBoosterPacks <- usersWithBoosterPacksA,
    rewardsPerTokenBP <- rewardsPerTokenBPA, balance <- balanceA

B == INSTANCE Pool WITH
    PoolAddr <- PoolB, Owner <- Deployer, InitBaseRate <- RateB,
    paused <- pausedB, baseRate <- baseRateB, depositFee <- depositFeeB,
    rewardsMultipliers <- rewardsMultipliersB, withdrawFees <- withdrawFeesB,
    totalAmount <- totalAmountB, rewardsPerToken <- rewardsPerTokenB,
    lastBlockUpdated <- lastBlockUpdatedB, usersData <- usersDataB,
    usersWithBoosterPacks <- usersWithBoosterPacksB,
    rewardsPerTokenBP <- rewardsPerTokenBPB, balance <- balanceB

Packs == INSTANCE BoosterPack

AssetOf(pool) == IF pool = PoolA THEN TokenA ELSE TokenB

-----------------------------------------------------------------------------
(* PoolManager's constructor, called by Deployer, after the tokens were    *)
(* deployed by the same account.                                           *)
DeploymentInit ==
    /\ A!Init
    /\ B!Init
    /\ owner = [c \in {Manager, Factory, BoosterPacks} \cup Tokens |->
                    IF c \in {Factory, BoosterPacks} THEN Manager ELSE Deployer]
    /\ whitelistedTokens = {}
    /\ pools = <<>>
    /\ created = {}

(* onlyOwner, for a call that comes from an account with a key to a        *)
(* contract that is deployed.                                              *)
OnlyOwner(contract, caller) ==
    caller \in EOAs /\ contract \in DOMAIN owner /\ owner[contract] = caller

AddWhitelistedToken(caller, token) ==
    /\ OnlyOwner(Manager, caller)
    /\ token \notin whitelistedTokens
    /\ whitelistedTokens' = whitelistedTokens \cup {token}
    /\ UNCHANGED <<block, packs, poolA, poolB, owner, pools, created>>

RemoveWhitelistedToken(caller, token) ==
    /\ OnlyOwner(Manager, caller)
    /\ token \in whitelistedTokens
    /\ whitelistedTokens' = whitelistedTokens \ {token}
    /\ UNCHANGED <<block, packs, poolA, poolB, owner, pools, created>>

(* The contract of a new pool, which `by' owns. *)
Owned(pool, by) ==
    [c \in DOMAIN owner \cup {pool} |-> IF c = pool THEN by ELSE owner[c]]

(* The factory passes the pool on to the owner of the manager. *)
OwnerOfNewPoolMutant(caller) == caller

(* The factory deploys the pool, and the deployer of an Ownable owns it. *)
OwnerOfNewPool(caller) == Factory

(* The manager lets the owner of the manager mint and burn. *)
MayBurnAfterMutant(pool, caller) == whitelistedAddrBP \cup {pool, caller}

MayBurnAfter(pool, caller) == whitelistedAddrBP \cup {pool}

(* createPool of the manager, with createPool of the factory in it.  Bound: *)
(* one pool for each token; the code does not ask.                         *)
CreatePool(caller, pool) ==
    /\ OnlyOwner(Manager, caller)
    /\ AssetOf(pool) \in whitelistedTokens
    /\ pool \notin created
    /\ created' = created \cup {pool}
    /\ owner' = Owned(pool, OwnerOfNewPool(caller))
    /\ pools' = Append(pools, pool)
    /\ whitelistedAddrBP' = MayBurnAfter(pool, caller)
    /\ UNCHANGED <<block, packBalance, attributes, poolA, poolB, whitelistedTokens>>

(* A pool deployed without the manager, as the tests of Pool do. *)
DeployPool(caller, pool) ==
    /\ caller = Deployer
    /\ pool \in DirectPools \ created
    /\ created' = created \cup {pool}
    /\ owner' = Owned(pool, caller)
    /\ UNCHANGED <<block, packs, poolA, poolB, whitelistedTokens, pools>>

-----------------------------------------------------------------------------
(* Ownership and the right to mint. *)

(* Ownable.transferOwnership; address(0) stands for renounceOwnership. *)
TransferOwnership(caller, contract, to) ==
    /\ OnlyOwner(contract, caller)
    /\ owner' = [owner EXCEPT ![contract] = to]
    /\ UNCHANGED <<block, packs, poolA, poolB, whitelistedTokens, pools, created>>

MayMintMutant(caller, token) == TRUE

(* TheToken.mint is onlyOwner. *)
MayMint(caller, token) == token \in OpenTokens \/ owner[token] = caller

(* mint of an asset, called by an account with a key. *)
MintA(caller, to, amount) ==
    /\ MayMint(caller, TokenA)
    /\ balanceA[to] + amount <= MaxBalance
    /\ balanceA' = [balanceA EXCEPT ![to] = @ + amount]
    /\ UNCHANGED <<block, packs, poolB, registry, pausedA, baseRateA, depositFeeA,
                   rewardsMultipliersA, withdrawFeesA, totalAmountA,
                   rewardsPerTokenA, lastBlockUpdatedA, usersDataA,
                   usersWithBoosterPacksA, rewardsPerTokenBPA>>

-----------------------------------------------------------------------------
(* What only the owner of a pool may call, if the owner has a key.  (A     *)
(* pool's own transferOwnership is TransferOwnership.)                     *)

OwnerStepA == (\E caller \in EOAs : OnlyOwner(PoolA, caller)) /\ A!OwnerStep

OwnerStepB == (\E caller \in EOAs : OnlyOwner(PoolB, caller)) /\ B!OwnerStep

(* Transactions sent to a pool. *)

StepA ==
    /\ PoolA \in created
    /\ \/ \E u \in Users, n \in Amounts : A!Deposit(u, n) \/ A!Withdraw(u, n)
       \/ \E u \in Users, id \in PackIds : A!BurnBP(u, id)
       \/ \E caller \in EOAs, u \in Users :
            MayMint(PoolA, TokenA) /\ A!ClaimRewards(caller, u)
       \/ OwnerStepA
    /\ UNCHANGED <<poolB, registry>>

StepB ==
    /\ PoolB \in created
    /\ \/ \E u \in Users, n \in Amounts : B!Deposit(u, n) \/ B!Withdraw(u, n)
       \/ \E u \in Users, id \in PackIds : B!BurnBP(u, id)
       \/ \E caller \in EOAs, u \in Users :
            MayMint(PoolB, TokenB) /\ B!ClaimRewards(caller, u)
       \/ OwnerStepB
    /\ UNCHANGED <<poolA, registry>>

(* What only the owner of the BoosterPack may call. *)
OwnerStepPacks(caller) ==
    /\ OnlyOwner(BoosterPacks, caller)
    /\ \/ \E addr \in Whitelistable :
            Packs!AddWhitelistedAddrBP(addr) \/ Packs!RemoveWhitelistedAddrBP(addr)
       \/ \E id \in PackIds, attr \in AttributeChoices : Packs!SetAttributes(id, attr)

(* Transactions sent to the BoosterPack. *)
StepPacks ==
    /\ \E caller \in EOAs :
         \/ \E id \in PackIds, n \in 0..MaxPacks :
              \/ Packs!Burn(caller, id, n)
              \/ \E to \in Holders : Packs!SafeTransferFrom(caller, to, id, n)
              \/ \E to \in Holders, attr \in AttributeChoices :
                   Packs!Mint(caller, to, id, n, attr)
         \/ OwnerStepPacks(caller)
    /\ UNCHANGED <<block, poolA, poolB, registry>>

(* The last pool of the list is left out. *)
BatchClaimMutant(u, list) ==
    /\ PoolA \in list \cap created /\ MayMint(PoolA, TokenA)
    /\ A!ClaimRewards(Manager, u)
    /\ UNCHANGED <<poolB, registry>>

(* PoolManager.claimRewards: each pool of the list sees the manager as the *)
(* caller, and one claim that reverts undoes all.  (Without boosters a     *)
(* second claim in the same block changes nothing, so a list is a set.)    *)
BatchClaim(u, list) ==
    /\ list \subseteq created
    /\ IF PoolA \in list THEN MayMint(PoolA, TokenA) /\ A!ClaimRewards(Manager, u)
       ELSE UNCHANGED poolA
    /\ IF PoolB \in list THEN MayMint(PoolB, TokenB) /\ B!ClaimRewards(Manager, u)
       ELSE UNCHANGED poolB
    /\ UNCHANGED <<block, packs, registry>>

NextBlock ==
    /\ block < MaxBlock
    /\ block' = block + 1
    /\ UNCHANGED <<packs, poolA, poolB, registry>>

DeploymentNext ==
    \/ \E caller \in EOAs, token \in Tokens :
         AddWhitelistedToken(caller, token) \/ RemoveWhitelistedToken(caller, token)
    \/ \E caller \in EOAs, pool \in {PoolA, PoolB} :
         CreatePool(caller, pool) \/ DeployPool(caller, pool)
    \/ \E caller \in EOAs, h \in Handovers : TransferOwnership(caller, h[1], h[2])
    \/ \E caller \in EOAs, to \in Users, n \in MintAmounts : MintA(caller, to, n)
    \/ \E u \in Users, list \in (SUBSET {PoolA, PoolB}) \ {{}} : BatchClaim(u, list)
    \/ StepA \/ StepB \/ StepPacks \/ NextBlock

DeploymentSpec == DeploymentInit /\ [][DeploymentNext]_vars

-----------------------------------------------------------------------------
(* Three contracts agree on which pools the manager made: the manager      *)
(* lists them, each once, the BoosterPack lets them and nobody else mint   *)
(* and burn, and the factory owns them, whoever holds the manager and      *)
(* whatever pools are deployed without it or handed to the factory.        *)
RecordsAgree ==
    /\ ToSet(pools) = whitelistedAddrBP
    /\ \A p \in ToSet(pools) : owner[p] = Factory
    /\ Len(pools) = Cardinality(ToSet(pools))

(* README: the owner can freeze a pool, change its rate and its fees, and  *)
(* say who may mint and burn packs.  In the code a pool that the manager   *)
(* made belongs to the factory and the BoosterPack to the manager, neither *)
(* of which has a function that passes the call of an owner on.            *)
OwnerGoverns ==
    pools # <<>> => \/ ENABLED OwnerStepA \/ ENABLED OwnerStepB
                    \/ \E caller \in EOAs : ENABLED OwnerStepPacks(caller)

SupplyA == SumOver(balanceA, Accounts)

(* The right to mint an asset is final once it is not with an account that *)
(* has a key, and from then on the supply grows only by rewards: each new  *)
(* token is one more in the accumulated rewards of the pool that owns it.  *)
OwnedAssetGrowsByRewards ==
    [][owner[TokenA] \notin EOAs =>
         /\ owner'[TokenA] = owner[TokenA]
         /\ SupplyA' # SupplyA =>
              /\ owner[TokenA] = PoolA
              /\ \E u \in Users : SupplyA' - SupplyA =
                   usersDataA'[u].accumRewards - usersDataA[u].accumRewards]_vars

(* What claimRewards of the pool would pay the user in this block. *)
DueInA(u) == A!TotalRewards(u, rewardsPerTokenA + (IF pausedA THEN 0 ELSE A!AccruedTo(block)))
                - usersDataA[u].accumRewards
DueInB(u) == B!TotalRewards(u, rewardsPerTokenB + (IF pausedB THEN 0 ELSE B!AccruedTo(block)))
                - usersDataB[u].accumRewards

(* A claim through the manager pays in every pool of the list what a claim *)
(* sent to that pool would have paid, and in all others nothing.           *)
BatchPaysWhatIsDue ==
    [][\A u \in Users, list \in SUBSET {PoolA, PoolB} : BatchClaim(u, list) =>
         /\ balanceA'[u] - balanceA[u] = IF PoolA \in list THEN DueInA(u) ELSE 0
         /\ balanceB'[u] - balanceB[u] = IF PoolB \in list THEN DueInB(u) ELSE 0]_vars
=============================================================================
