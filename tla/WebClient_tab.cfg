SPECIFICATION FairSpec
CONSTANTS
    Sessions = {s, t}
    Saved = {t}
    NoSession = NoSession
    Capacity = 4
    Scripts <- MCScripts
    Logged = {4, 5}
    MaxEvents = 5
    MaxCalls = 2
    MaxClicks = 2
    MaxPrompts = 1
INVARIANTS
    ShownIsCurrent
    TranscriptIsFaithful
PROPERTIES
    EverythingIsShown
CHECK_DEADLOCK FALSE
