SPECIFICATION Spec
CONSTANTS
    NumInputs = 2
    MaxAttempts = 2
    AlertAfter = 4
    RequestsFail = TRUE
    OthersOnPage = TRUE
    Ids = {2, 3}
INVARIANTS
    PageKeepsUp
    SubmitComesBack
PROPERTIES
    WaitingEnds
