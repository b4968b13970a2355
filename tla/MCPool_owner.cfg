SPECIFICATION Spec
CONSTANTS
    u1 = u1
    u2 = u2
    deployer = deployer
    Zero = Zero
    PoolAddr = PoolAddr
    Owner = deployer
    FeeRecipient = deployer
    MaxUint64 = 1000000
    MaxUint128 = 1000000000
    IdSpace = 2
    Whitelistable = {deployer, PoolAddr}
    PackIds = {0, 1, 3}
    MaxPacks = 1
    InitBaseRate = 0
    InitDepositFee = 10
    Amounts = {4, 10}
    BaseRates = {2}
    DepositFees = {50}
    MaxBlock = 4
    MaxDeposits = 2
    MaxBurns = 2
    MaxRows = 3
    MaxBalance = 1000
    InitWhitelist = {}
    Accounts <- MCAccounts
    Users <- MCUsers
    InitMultipliers <- TwoTiers
    InitFees <- OneFee
    InitBalance <- Purse10
    InitPackBalance <- NoPacks
    InitAttributes <- NoAttr
    FeeRows <- OwnerFees
    Tiers <- OwnerTiers
    Holders <- PackHolders
    AttributeChoices <- MintedAttributes
INVARIANTS
    TypeOK
    DepositsBackStakes
    TotalCoversStakes
    MintedPackExists
PROPERTIES
    FirstInFirstOut
    OverdraftBoundedByFee
    ImplementsLedger
    EachBlockPaidAtMostOnce
    WhitelistGovernsPacks
CONSTRAINT OneConcern
SYMMETRY UserSymmetry
