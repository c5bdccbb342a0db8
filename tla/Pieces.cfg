SPECIFICATION FairSpec
CONSTANTS
  Readers = {r1, r2}
  MayClose = {r1}
  MaxCalls = 2
CHECK_DEADLOCK FALSE
INVARIANT AnswersAreHeard
PROPERTY ReaderServed
