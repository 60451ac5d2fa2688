SPECIFICATION Spec
CONSTANTS
    Values = {1, 2}
    MaxAttempts = 2
    MaxHints = 3
    MaxRequests = 3
    MaxFlying = 2
    Blocks = {"x", "y"}
    MaxClicks = 3
    Ids = {"a", "b"}
    Reusable = {"b"}
    Slow = {"a"}
    Fits = 2
    MaxCopies = 2
    MaxDrops = 3
    Columns = 2
    Rows = 2
    Kinds = {"g"}
    MaxComponents = 7
    MaxEdits = 2
INVARIANTS
    PagesTell
    DraggablesAgree
    DiagramIsSound
PROPERTIES
    EditsKeepConnections
    ClicksDoWhatTheySay
\* A page may be left as it is.
CHECK_DEADLOCK FALSE
