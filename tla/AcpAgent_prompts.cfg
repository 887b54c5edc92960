SPECIFICATION AgentSpec
CONSTANTS
    MaxTurns = 2
    MaxChunks = 1
    MaxFaults = 1
    MaxToolEvents = 1
    MaxCalls = 1
    ToolKinds = {"any"}
    HasTools = TRUE
    MaxPrompts = 2
INVARIANTS
    AnswerTellsLog
    ReplayRepeatsWire
PROPERTIES
    PromptIsAnswered
CHECK_DEADLOCK FALSE
