SPECIFICATION FairSpec
CONSTANTS
    Inputs = {1, 2}
    Points = {0, 1}
    MaxAttempts = 2
    WaitTime = 1
    MaxClock = 3
    MaxSubmissions = 2
INVARIANTS
    GradebookFollowsMap
    StaleOnlyWithinASecond
PROPERTIES
    QueuedIsAnswered
CHECK_DEADLOCK FALSE
