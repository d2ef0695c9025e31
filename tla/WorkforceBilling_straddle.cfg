CONSTANTS
    Turns = {t1, t2, t3}
    TurnIds = {i1, i2}
    Costs = {1}
    Limits = {2}
    None = None
    MaxMonth = 2
    MaxOps = 0
    MaxFaults = 0
    Straddle = TRUE
SPECIFICATION Spec
INVARIANT CounterCoversPeriod
CHECK_DEADLOCK FALSE
