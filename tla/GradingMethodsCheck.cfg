SPECIFICATION HistorySpec
CONSTANTS
    TieUp <- MCTieUp
    ScoreValues = {0, 50, 133, 200}
    MaxLength = 8
INVARIANTS
    AverageIsNearest
PROPERTIES
    AttemptMovesScore
CHECK_DEADLOCK FALSE
