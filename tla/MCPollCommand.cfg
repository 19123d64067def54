SPECIFICATION CommandFairSpec
CONSTANTS
    p1 = p1
    p2 = p2
    mintA = mintA
    mintB = mintB
    Null = Null
    NoRow = NoRow
    Nobody = Nobody
    NoBatch = NoBatch
    NoLimit = NoLimit
    Sessions = {p1, p2}
    Pollers = {p1}
    Keys = {mintA, mintB}
    Times = {1}
    Symbols <- MCSymbols
    Limits = {2}
    Answers <- MCAnswers
INVARIANTS LoopMatchesStore ResultsAreDurable
PROPERTIES CommandsEnd
CHECK_DEADLOCK FALSE
