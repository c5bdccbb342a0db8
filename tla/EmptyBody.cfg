CONSTANTS
    Size = 2
SPECIFICATION Spec
CHECK_DEADLOCK FALSE
INVARIANT EndedStreamIsWhole
