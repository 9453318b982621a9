SPECIFICATION FairSpec
CONSTANTS
  Streams = {1, 2}
  MaxChunk = 1
  MaxWrites <- TwoAndNone
  Users = {"main", "runner"}
  Waiters = {"main", "runner"}
  OsCapacity = 1
INVARIANTS
  CmdTypeOK OutputComplete CutOnlyForCause AllClosedOnReturn RunWaits
PROPERTIES
  CombineSpec RunCmdReturns NothingLeft
CHECK_DEADLOCK FALSE
