SPECIFICATION LimiterFairSpec
CONSTANTS
    c1 = c1
    c2 = c2
    c3 = c3
    Callers = {c1, c2, c3}
    Nobody = Nobody
    Rate = 2
    Cost = 5
    Capacity = 10
    FullAge = 5
    MaxWindow = 4
INVARIANTS WindowBound OneSleepSuffices
PROPERTIES EveryCallerServed
