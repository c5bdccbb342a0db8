SPECIFICATION Spec
CONSTANTS
  Streams = {s1, s2}
  Files = {1, 2}
  NoFile = NoFile
  Pieces = {1, 2}
  PiecesOf <- BoundaryShared
  Deadlines = {0}
  NoDeadline = 1
  Nothing = Nothing
  Unchanged = Unchanged
  Worker = Worker
  NoTask = NoTask
  MaxMoves = 1
  MayAbandon = TRUE
SYMMETRY StreamSymmetry
CHECK_DEADLOCK FALSE
INVARIANTS LibtorrentFollows NoOrphanWindow
