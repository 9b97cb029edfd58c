SPECIFICATION FairSpec
CONSTANTS
    Bots = {b1}
    NoBot = NoBot
    Workers = {w1}
    MaxBots = 1
    MaxPerTick = 1
    MaxFailures = 2
    NoLimit = NoLimit
    Limits = {1}
    Prices = {1, 2}
    FillPrices = {1, 2}
    OrderSize = 2
    MinNotional = 2
    TakeProfit = 50
    StopLoss = 50
    Bands <- TradeHigh
    MaxBar = 2
    MaxOps = 1
    MaxFaults = 1
INVARIANTS StoppedBotsWindDown OnlyHoldingsAreSold ProfitsAgree
PROPERTIES StopLossFires LossesStopTheBot
CHECK_DEADLOCK FALSE
