CONSTANTS
    MaxTurns = 3
SPECIFICATION FairSpec
INVARIANTS TypeOK AnswerStaysInTurn OneStreamWhereShown
PROPERTIES SpinnerEnds
CHECK_DEADLOCK FALSE
