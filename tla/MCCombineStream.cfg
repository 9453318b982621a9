SPECIFICATION MCSpec
CONSTANTS
  Streams = {1, 2, 3}
  MaxChunk = 1
  Users = {u1, u2}
  Waiters = {u2}
  MaxWrites <- OnlyThird
INVARIANTS
  CleanerClosesOnce StopClosesAll ErrorsTold
PROPERTIES
  StopFreesAll
CHECK_DEADLOCK FALSE
