SPECIFICATION Spec
CONSTANTS
    Thread = "post"
    Responses = {"r1", "r2"}
    MaxClicks = 3
    MaxKinds = 2
    Threads = {"t1", "t2"}
    InitialSize = 1
    NextSize = 2
    Ids = {1, 2, 3, 4, 5}
    NextId = 5
    MaxViews = 2
    MaxChanges = 2
    MaxPosts = 2
    Old = {1, 2, 3, 4}
    New = {5}
    Pinned = {2}
    Filters = {"all", "unread"}
    Groups = {"all", "g"}
    PageSize = 2
    MaxRequests = 4
    Comments = {"c1", "c2"}
    MaxSaves = 3
    Answers = {"yes", "no"}
    num_inputs = 2
    num_top_words = 1
    MaxVotes = 6
    MaxWords = 4
    MaxFlying = 2
INVARIANTS
    ShownIsKept
    NothingSkipped
    ViewsTakeTurns
    ListIsAsAsked
    CountsAreOfTheLearners
\* A discussion may be left as it is.
CHECK_DEADLOCK FALSE
