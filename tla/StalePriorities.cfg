SPECIFICATION Spec
CONSTANTS
  Files = {f1, f2}
  NoFile = NoFile
  NoVector = NoVector
  MaxGen = 6
  Callers = {a, b}
  Worker = Worker
  NoTask = NoTask
  Kinds = {"direct"}
  Finishable = {}
  MaxToggles = 0
  MaxRequests = 3
  MayAbandon = FALSE
SYMMETRY CallerSymmetry
CHECK_DEADLOCK FALSE
INVARIANT PlayingIsPrioritised
