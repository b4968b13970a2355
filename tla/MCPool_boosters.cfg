SPECIFICATION Spec
CONSTANTS
    u1 = u1
    u2 = u2
    deployer = deployer
    Zero = Zero
    PoolAddr = PoolAddr
    Owner = deployer
    FeeRecipient = deployer
    MaxUint64 = 1000000
    MaxUint128 = 1000000000
    IdSpace = 2
    Whitelistable = {}
    Holders = {}
    PackIds = {1}
    AttributeChoices = {}
    MaxPacks = 2
    InitBaseRate = 1
    InitDepositFee = 0
    Amounts = {4, 10}
    BaseRates = {}
    DepositFees = {}
    Tiers = {}
    FeeRows = {}
    MaxBlock = 3
    MaxDeposits = 1
    MaxBurns = 2
    MaxRows = 2
    MaxBalance = 12
    Accounts <- MCAccounts
    Users <- MCUsers
    InitMultipliers <- OneTier
    InitFees <- NoFees
    InitBalance <- Purse10
    InitPackBalance <- PacksEach
    InitAttributes <- ShortPack
    InitWhitelist <- PoolWhitelisted
INVARIANTS
    EveryMintAccounted
    SettlementsInOrder
    BoosterRegistered
    OnePackPerActivation
    PoolBacksStakes
    PausedExitOpen
    ClaimsWithinEmission
PROPERTIES
    PausedUsersOnlyLeave
CONSTRAINT PacksOrParts
SYMMETRY UserSymmetry
