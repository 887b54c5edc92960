SPECIFICATION FairSpec
CONSTANTS
    MaxTurns = 2
    MaxChunks = 2
    MaxFaults = 1
    MaxToolEvents = 2
    MaxCalls = 1
    ToolKinds = {"any"}
    HasTools = TRUE
INVARIANTS
    NoGaps
    DurableThenVisible
    ReturnedTurnIsWhole
PROPERTIES
    CancelStopsWork
    SlotIsReleased
CHECK_DEADLOCK FALSE
