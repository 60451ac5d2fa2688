SPECIFICATION Spec
CONSTANTS
    FirstIds = {0, 1}
    MaxCalls = 2
    MaxWork = 1
    MaxClicks = 2
    MaxTries = 3
    MaxEdits = 4
    Tags = {"x", "y"}
    Comments = {"", "good"}
    Students = {"l1", "l2"}
    Scores = {337, 1001}
    MaxResults = 3
    MaxFlying = 2
INVARIANTS
    FrameIsHeard
    ShownIsCurrent
    GradebookAgrees
PROPERTIES
    AskedIsAnswered
CHECK_DEADLOCK FALSE
