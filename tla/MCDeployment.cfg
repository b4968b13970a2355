SPECIFICATION DeploymentSpec
CONSTANTS
    u1 = u1
    Users = {u1}
    Deployer = Deployer
    FeeRecipient = Deployer
    Zero = Zero
    Manager = Manager
    Factory = Factory
    BoosterPacks = BoosterPacks
    PoolA = PoolA
    PoolB = PoolB
    TokenA = TokenA
    TokenB = TokenB
    OpenTokens = {TokenB}
    Handovers <- MCHandovers
    DirectPools = {PoolB}
    MintAmounts = {2}
    RateA = 1
    RateB = 2
    InitDepositFee = 0
    InitMultipliers <- MCTiers
    InitFees <- MCFees
    InitBalance <- MCPurse
    Amounts = {10}
    BaseRates = {}
    DepositFees = {}
    Tiers = {}
    FeeRows = {}
    MaxUint64 = 1000000
    MaxUint128 = 1000000000
    IdSpace = 2
    PackIds = {1}
    AttributeChoices <- MCAttributes
    MaxPacks = 1
    MaxBlock = 2
    MaxDeposits = 1
    MaxBurns = 1
    MaxRows = 0
    MaxBalance = 12
INVARIANTS
    RecordsAgree
PROPERTIES
    OwnedAssetGrowsByRewards
    BatchPaysWhatIsDue
