SPECIFICATION FairSpec
CONSTANTS
  Streams = {1, 2}
  MaxChunk = 1
  MaxWrites <- ThreeAndNone
  Users = {"main", "runner"}
  Waiters = {"main", "runner"}
  OsCapacity = 1
PROPERTIES
  ExitRunsCleaner
CHECK_DEADLOCK FALSE
