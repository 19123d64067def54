CONSTANTS
    One = 400
    Slip = 1
    FracNum = 1
    FracDen = 10
    MaxNotional = 60
    MaxPosition = 30
    MaxOpen = 3
    MaxDrawdown = 50
    MinLiquidity = 10
    t1 = t1
    t2 = t2
    Tokens = {t1, t2}
    None = None
    Orders = {}
    Markets = {}
    Portfolios = {}
    Fixtures <- SomeFixtures
    MetaToken = t1
    ObservedLiquidity = 20
    Qty = 2
    Rise = 15
    Fall = 20
    Windows = {1, 2}
    Decimals <- SomeDecimals
    Float <- SomeFloat
    Gain <- SomeGain
SPECIFICATION RunSpec
INVARIANTS LimitAllowsSlippage
CHECK_DEADLOCK FALSE
