CONSTANTS
    Turns = {t1, t2}
    TurnIds = {i1, i2}
    Costs = {1, 2}
    Limits = {2}
    None = None
    MaxMonth = 2
    MaxOps = 1
    MaxFaults = 1
    Straddle = FALSE
SPECIFICATION FairSpec
INVARIANTS TypeOK CounterCoversPeriod PausedWhenSpent SpentNeverRuns AnswerHasRow
PROPERTIES TurnsSettle
CHECK_DEADLOCK FALSE
