SPECIFICATION Spec
CONSTANTS
    TieUp <- MCTieUp
    Answers = {"a", "b", "malformed", "corrupt", "garbled"}
    MalformedAnswers = {"malformed", "garbled"}
    CorruptAnswers = {"corrupt", "garbled"}
    NoAnswer = "none"
    Keys = {1, 2}
    Seeds = {1, 2}
    Points <- MCSamePoints
    MaxPoints = 2
    MaxAttempts = 2
    Unlimited = Unlimited
    GradingMethod = "last_score"
    Rerandomize = "always"
    HasWait = FALSE
    HistoryBound = 4
INVARIANTS
    CorrectIsEarned
PROPERTIES
    AnswerStaysVisible
    KeepsThePromise
