SPECIFICATION ClientFairSpec
CONSTANTS
    c1 = c1
    c2 = c2
    Callers = {c1, c2}
    Nobody = Nobody
    None = None
    Rate = 1
    Cost = 2
    Capacity = 2
    FullAge = 2
    MaxWindow = 0
    MaxAttempts = 2
INVARIANTS OnlyRetryableRetried OutcomeTellsLastAnswer LimiterFreeOfOthers
PROPERTIES GetsEnd
