SPECIFICATION HistorySpec
CONSTANTS
    h1 = h1
    h2 = h2
    l1 = l1
    c1 = c1
    btc = btc
    poolA = poolA
    poolB = poolB
    Bought = Bought
    Sold = Sold
    Refused = Refused
    NoText = NoText
    PerSecond = 2
    Threshold = 10
    Earliest <- MCEarliest
    Latest = 21
    Null = Null
    NoRow = NoRow
    Nobody = Nobody
    NoBatch = NoBatch
    Sessions = {h1, h2, l1}
    Pollers = {}
    Historians = {h1, h2}
    Loaders = {l1}
    Keys = {btc}
    Times = {12, 14}
    Symbols <- MCSymbols
    Answers <- MCAnswers
    Heard <- NothingHeard
    SpotName <- MCSpotName
    Commands <- SpotCommands
    MarketAnswers <- MCMarketAnswers
    MarketHeard <- SpotHeard
    Loads <- MCLoads
INVARIANTS OneRowPerKey ConflictIsReadable MarketUnderToken
PROPERTIES RunsAreAtomic
CHECK_DEADLOCK FALSE
