SPECIFICATION Spec
CONSTANTS
    u1 = u1
    u2 = u2
    deployer = deployer
    Zero = Zero
    PoolAddr = PoolAddr
    Owner = deployer
    FeeRecipient = deployer
    MaxUint64 = 1000000
    MaxUint128 = 1000000000
    IdSpace = 2
    Whitelistable = {}
    Holders = {}
    PackIds = {1}
    AttributeChoices = {}
    MaxPacks = 2
    InitBaseRate = 1
    InitDepositFee = 0
    Amounts = {10}
    BaseRates = {}
    DepositFees = {}
    Tiers = {}
    FeeRows = {}
    MaxBlock = 3
    MaxDeposits = 1
    MaxBurns = 1
    MaxRows = 2
    MaxBalance = 1000
    Users = {u1}
    Accounts <- MCAccounts
    InitMultipliers <- OneTier
    InitFees <- NoFees
    InitBalance <- Purse10
    InitPackBalance <- PacksEach
    InitAttributes <- ShortPack
    InitWhitelist <- PoolWhitelisted
INVARIANTS
    FreezeOpen
