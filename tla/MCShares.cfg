SPECIFICATION SharesSpec
CONSTANTS
    u1 = u1
    u2 = u2
    deployer = deployer
    Zero = Zero
    PoolAddr = PoolAddr
    Owner = deployer
    FeeRecipient = deployer
    MaxUint64 = 1000000
    MaxUint128 = 1000000000
    IdSpace = 2
    Whitelistable = {}
    Holders = {}
    PackIds = {}
    AttributeChoices = {}
    MaxPacks = 0
    InitBaseRate = 0
    InitDepositFee = 0
    Amounts = {4}
    BaseRates = {}
    DepositFees = {}
    Tiers = {}
    FeeRows = {}
    MaxBlock = 1
    MaxDeposits = 1
    MaxBurns = 0
    MaxRows = 0
    MaxBalance = 1000
    InitWhitelist = {}
    ShareAmounts = {1, 3, 4}
    MaxShares = 8
    Accounts <- MCAccounts
    Users <- MCUsers
    InitMultipliers <- OneTier
    InitFees <- OneFee
    InitBalance <- Purse7
    InitPackBalance <- NoPacks
    InitAttributes <- NoAttr
INVARIANTS
    SharesTypeOK
    SharesAddUp
    MaxExitIsPaid
PROPERTIES
    SharePriceNeverFalls
SYMMETRY UserSymmetry
