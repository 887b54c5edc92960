SPECIFICATION MFairSpec
CONSTANTS
    MaxTurns = 1
    MaxChunks = 6
    MaxFaults = 1
    MaxToolEvents = 1
    MaxCalls = 1
    ToolKinds = {"any"}
    HasTools = TRUE
    MaxRaw = 7
INVARIANTS
    RequestAnswersCalls
PROPERTIES
    PortRespected
CHECK_DEADLOCK FALSE
