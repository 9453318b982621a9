SPECIFICATION FairSpec
CONSTANTS
  Pipes = {1}
  WritesCount = 0
  BufSize = 1
  MaxBytes = 1
  Users = {}
  InputErrs = {"end", "fail"}
  MaxEmptyReads = 2
  StopClosesInput = TRUE
PROPERTIES
  ReaderEnds
CHECK_DEADLOCK FALSE
