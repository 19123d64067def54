SPECIFICATION HistorySpec
CONSTANTS
    h1 = h1
    h2 = h2
    l1 = l1
    c1 = c1
    btc = btc
    poolA = poolA
    poolB = poolB
    Bought = Bought
    Sold = Sold
    Refused = Refused
    NoText = NoText
    PerSecond = 2
    Threshold = 10
    Earliest <- MCEarliest
    Latest = 21
    Null = Null
    NoRow = NoRow
    Nobody = Nobody
    NoBatch = NoBatch
    Sessions = {h1}
    Pollers = {}
    Historians = {h1}
    Loaders = {}
    Keys = {poolA, poolB}
    Times = {12, 14}
    Symbols <- MCSymbols
    Answers <- MCAnswers
    Heard <- NothingHeard
    SpotName <- MCSpotName
    Commands <- PoolCommands
    MarketAnswers <- MCMarketAnswers
    MarketHeard <- PoolHeard
    Loads <- MCLoads
INVARIANTS StampedWhenKnown
CHECK_DEADLOCK FALSE
