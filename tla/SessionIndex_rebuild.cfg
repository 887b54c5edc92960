SPECIFICATION Spec
CONSTANTS
    Sessions = {s1}
    MaxLog = 4
    MaxTurns = 2
    MaxRebuilds = 2
    MaxApplies = 2
    MaxResets = 1
INVARIANTS
    CountMatchesTurns
    TransactionEnds
PROPERTY RebuildIsProjection
CHECK_DEADLOCK FALSE
