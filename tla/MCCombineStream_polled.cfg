SPECIFICATION FairCombineSpec
CONSTANTS
  Streams = {1}
  MaxChunk = 1
  Users = {u1, u2}
  Waiters = {u2}
  MaxWrites <- Never
PROPERTIES
  StopEndsReads
CHECK_DEADLOCK FALSE
