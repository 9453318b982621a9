SPECIFICATION Spec
CONSTANTS
  Pipes = {1}
  WritesCount = 0
  BufSize = 1
  MaxBytes = 1
  Users = {}
  InputErrs = {"end"}
  MaxEmptyReads = 2
  StopClosesInput = TRUE
INVARIANTS
  EmptyReadsBounded
