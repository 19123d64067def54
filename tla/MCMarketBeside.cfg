SPECIFICATION HistoryFairSpec
CONSTANTS
    h1 = h1
    h2 = h2
    l1 = l1
    c1 = c1
    btc = btc
    poolA = poolA
    poolB = poolB
    Bought = Bought
    Sold = Sold
    Refused = Refused
    NoText = NoText
    PerSecond = 2
    Threshold = 10
    Earliest <- MCEarliest
    Latest = 21
    Null = Null
    NoRow = NoRow
    Nobody = Nobody
    NoBatch = NoBatch
    Sessions = {h1, l1, c1}
    Pollers = {c1}
    Historians = {h1}
    Loaders = {l1}
    Keys = {poolA, poolB}
    Times = {0, 12, 14}
    Symbols <- MCSymbols
    Answers <- MCAnswers
    Heard <- PoolsHeard
    SpotName <- MCSpotName
    Commands <- PoolCommands
    MarketAnswers <- MCMarketAnswers
    MarketHeard <- PoolHeard
    Loads <- CrossLoads
INVARIANTS RowsTellVenues
PROPERTIES SessionsEnd
CHECK_DEADLOCK FALSE
