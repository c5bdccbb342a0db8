CONSTANTS
    MaxVersion = 3
    Entries = 2
    MaxOperations = 4
    Helpers = {1, 2, 3}
SPECIFICATION Spec
CONSTRAINT OneAtATime
CHECK_DEADLOCK FALSE
INVARIANTS ProgramRecoverable RollbackRestores InstalledIsWhole StatusTells
PROPERTIES NoDowngrade
