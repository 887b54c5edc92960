SPECIFICATION FairHandleSpec
CONSTANTS
    MaxRequests = 3
    MaxNotices = 2
    MaxBadLines = 1
INVARIANT HandleTypeOK
PROPERTIES
    AnswersAfterNotices
    ChannelSpec
    CorruptionEnds
    TerminateReturns
CHECK_DEADLOCK FALSE
