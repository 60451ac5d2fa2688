SPECIFICATION Spec
CONSTANTS
    TieUp <- MCTieUp
    Answers = {"a", "b", "malformed", "corrupt"}
    MalformedAnswers = {"malformed"}
    CorruptAnswers = {"corrupt"}
    NoAnswer = "none"
    Keys = {1, 2}
    Seeds = {1}
    Points <- MCPoints
    MaxPoints = 2
    MaxAttempts = 3
    Unlimited = Unlimited
    GradingMethod = "highest_score"
    Rerandomize = "never"
    HasWait = TRUE
    HistoryBound = 4
INVARIANTS
    HistoriesAgree
    DoneMeansGraded
PROPERTIES
    ClosedIsFinal
    OnlySkewedRescoreMislabels
    AnswerTakenBackForCause
