SPECIFICATION Spec
CONSTANTS
  Streams = {1, 2}
  MaxChunk = 1
  MaxWrites <- OneAndNone
  Users = {"main", "runner"}
  Waiters = {"main", "runner"}
  OsCapacity = 1
INVARIANTS
  NoStoppedResult
CHECK_DEADLOCK FALSE
