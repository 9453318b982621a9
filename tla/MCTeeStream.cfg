SPECIFICATION Spec
CONSTANTS
  Pipes = {1, 2}
  WritesCount = 0
  BufSize = 1
  MaxBytes = 4
  Users = {}
  InputErrs = {"end", "fail"}
  MaxEmptyReads = 2
  StopClosesInput = TRUE
INVARIANTS
  StreamTypeOK DeliveredToTheEnd ConsumerErrsExact ReleasedOnReturn ReadErrReported
  ReadAheadBounded
PROPERTIES
  PipeSpec KeepsContract
CHECK_DEADLOCK FALSE
