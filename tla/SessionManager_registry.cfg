SPECIFICATION FairSpec
CONSTANTS
    Ids = {a, b}
    MaxChildren = 3
INVARIANTS
    RoutesToLiveChild
    EveryStreamIsEnded
    OneProcessPerSession
PROPERTIES
    TerminatedIsCollected
    NoOrphans
CHECK_DEADLOCK FALSE
