SPECIFICATION Spec
CONSTANTS
  Files = {f1}
  NoFile = NoFile
  NoVector = NoVector
  MaxGen = 7
  Callers = {a, b}
  Worker = Worker
  NoTask = NoTask
  Kinds = {"direct", "hls", "endhls"}
  Finishable = {f1}
  MaxToggles = 2
  MaxRequests = 2
  MayAbandon = TRUE
SYMMETRY CallerSymmetry
CHECK_DEADLOCK FALSE
INVARIANT PlayingIsConnected
PROPERTIES IdlePauseIsUnheld IsPlaybackLease
