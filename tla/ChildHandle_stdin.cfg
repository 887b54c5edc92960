SPECIFICATION HandleSpec
CONSTANTS
    MaxRequests = 1
    MaxNotices = 0
    MaxBadLines = 0
INVARIANT OthersSurvive
CHECK_DEADLOCK FALSE
