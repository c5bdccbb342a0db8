SPECIFICATION PausingSpec
CONSTANTS
  Files = {f1}
  NoFile = NoFile
  NoVector = NoVector
  MaxGen = 8
  Callers = {a, b}
  Worker = Worker
  NoTask = NoTask
  Kinds = {"direct"}
  Finishable = {}
  MaxToggles = 1
  MaxRequests = 3
  MayAbandon = TRUE
CHECK_DEADLOCK FALSE
PROPERTIES SelectionResolves PermitsDrain IdlePauseConfirmed
