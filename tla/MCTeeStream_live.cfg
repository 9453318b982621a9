SPECIFICATION FairSpec
CONSTANTS
  Pipes = {1, 2}
  WritesCount = 0
  BufSize = 1
  MaxBytes = 1
  Users = {u1}
  InputErrs = {"end"}
  MaxEmptyReads = 2
  StopClosesInput = FALSE
INVARIANTS
  StoppedOnce
PROPERTIES
  StopEndsRun RunEnds ReaderEnds
