SPECIFICATION Spec
CONSTANTS
    Videos = {v1, v2}
    Kinds <- MCKinds
    MaxTimers = 2
    Languages = {"en", "fr"}
    Google = {"fr"}
    MaxBuilds = 2
    Configs <- MCConfigs
    MaxTime = 3
    MaxCaptions = 4
    Cookies <- MCCookies
    Slides = {0, 30}
    Html5Speeds = {75, 100, 125, 150, 200}
    YoutubeRates = {25, 50, 75, 100, 125, 150, 175, 200}
    SavedSpeeds = {25, 50, 75, 100, 125, 150, 175, 200}
    Qualities = {"hd720", "large"}
    MaxRequests = 2
    TranscriptLanguages = {"en", "fr"}
    Translated = {"fr"}
    Entries = 3
    Items = 3
    Captions = 6
INVARIANTS
    StartupIsSound
    TranscriptIsRight
    ControlsAgree
    ThumbsAreTheServices
    PageIsUsable
PROPERTIES
    AskedForComes
    DecidedStands
CHECK_DEADLOCK FALSE
