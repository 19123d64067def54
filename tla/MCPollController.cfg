SPECIFICATION PollFairSpec
CONSTANTS
    c1 = c1
    c2 = c2
    Controllers = {c1, c2}
    Limits = {1, 2, 3}
    NoLimit = NoLimit
INVARIANTS LimitBoundsCycles
PROPERTIES NoCycleAfterStop StopEndsRun
CHECK_DEADLOCK FALSE
