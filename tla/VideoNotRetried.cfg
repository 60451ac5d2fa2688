SPECIFICATION Spec
CONSTANTS
    Duration = 2
    SlideTo = {2}
    CaptionAt = {0}
    CompletionOf <- MCCompletionOf
    Configs <- MCConfigs
    MaxEvents = 2
PROPERTY FailedPostIsRetried
CHECK_DEADLOCK FALSE
