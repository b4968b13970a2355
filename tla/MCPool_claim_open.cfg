SPECIFICATION Spec
CONSTANTS
    u1 = u1
    u2 = u2
    deployer = deployer
    Zero = Zero
    PoolAddr = PoolAddr
    Owner = deployer
    FeeRecipient = deployer
    MaxUint64 = 1000000
    MaxUint128 = 1000000000
    IdSpace = 2
    Whitelistable = {}
    Holders = {}
    PackIds = {}
    AttributeChoices = {}
    MaxPacks = 0
    InitBaseRate = 1
    InitDepositFee = 0
    Amounts = {10}
    BaseRates = {}
    DepositFees = {}
    Tiers = {}
    FeeRows = {}
    MaxBlock = 3
    MaxDeposits = 1
    MaxBurns = 0
    MaxRows = 2
    MaxBalance = 1000
    InitWhitelist = {}
    Users = {u1}
    Accounts <- MCAccounts
    InitMultipliers <- OneTier
    InitFees <- NoFees
    InitBalance <- Purse10
    InitPackBalance <- NoPacks
    InitAttributes <- NoAttr
INVARIANTS
    ClaimOpen
