SPECIFICATION LoopsSpec
CONSTANTS
    MaxUint64 = 1999
    MaxUint128 = 15000
    Schedules <- MCSchedules
    DepositLists <- MCDepositLists
    FeeTables <- MCFeeTables
    LoopRates = {1, 2}
    LoopTotals = {0, 1, 7}
    LoopBlocks = {0, 1, 2, 3, 4, 5}
    WithdrawAmounts = {0, 1, 3, 12, 20, 30}
INVARIANTS
    LoopComputesAccrual
    LoopComputesWithdrawal
CHECK_DEADLOCK FALSE
