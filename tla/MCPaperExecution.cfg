CONSTANTS
    One = 4
    Slip = 1
    FracNum = 1
    FracDen = 2
    MaxNotional = 8
    MaxPosition = 6
    MaxOpen = 1
    MaxDrawdown = 0
    MinLiquidity = 1
    t1 = t1
    t2 = t2
    Tokens = {t1, t2}
    None = None
    Orders <- SomeOrders
    Markets <- SomeMarkets
    Portfolios <- SomePortfolios
SPECIFICATION OrderSpec
INVARIANTS LimitsKept LiquidityRespected FillIsHonest
CHECK_DEADLOCK FALSE
