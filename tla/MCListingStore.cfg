SPECIFICATION Spec
CONSTANTS
    p1 = p1
    p2 = p2
    btc = btc
    halted = halted
    mintA = mintA
    mintB = mintB
    Null = Null
    NoRow = NoRow
    Nobody = Nobody
    NoBatch = NoBatch
    NoText = NoText
    Refused = Refused
    Sessions = {p1, p2}
    Pollers = {p1}
    Keys = {btc, halted, mintA, mintB}
    Times <- MCTimes
    Symbols <- MCSymbols
    Answers <- MCAnswers
    Heard <- MCHeard
    PerSecond = 2
    Threshold = 10
    Earliest <- MCEarliest
    Latest = 40
INVARIANTS FirstSeenIsEarliest LockDiscipline TimesAgree TableTellsVenues
PROPERTIES KnowledgeKept CyclesAreAtomic
CHECK_DEADLOCK FALSE
