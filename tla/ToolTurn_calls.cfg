SPECIFICATION ToolFairSpec
CONSTANTS
    MaxTurns = 1
    MaxChunks = 2
    MaxFaults = 1
    MaxToolEvents = 14
    MaxCalls = 2
    MaxDeltas = 1
    ToolKinds = {"requested", "allowed", "denied", "started", "delta", "completed", "failed"}
    HasTools = TRUE
    Policy <- DefaultPolicy
INVARIANTS
    AuditBeforeEffect
    OneTerminalEvent
    ResultsMixOnlyAbandoned
    SerializedUnlessAbandoned
PROPERTY EveryCallReturns
CHECK_DEADLOCK FALSE
