\* What SPEC.md says of the mapping of a session to its process.
SPECIFICATION Spec
CONSTANTS
    Ids = {a}
    MaxChildren = 2
INVARIANT MappingKept
CHECK_DEADLOCK FALSE
