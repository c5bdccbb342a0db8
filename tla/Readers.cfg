SPECIFICATION Spec
CONSTANTS
  Files = {f1, f2}
  NoFile = NoFile
  NoVector = NoVector
  MaxGen = 6
  Callers = {a, b}
  Worker = Worker
  NoTask = NoTask
  Kinds = {"direct", "download", "background"}
  Finishable = {f1}
  MaxToggles = 1
  MaxRequests = 2
  MayAbandon = TRUE
SYMMETRY CallerSymmetry
CHECK_DEADLOCK FALSE
INVARIANTS TypeOK SinglePriorityWriter PermitsAccounted DownloadOwnsSelection
PROPERTY BackgroundNeverCancels
