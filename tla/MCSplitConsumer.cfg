SPECIFICATION FairSpec
CONSTANTS
  MaxInput = 6
  StartBufSize = 2
  MaxTokenSize = 3
  MaxEmpties = 2
INVARIANTS
  SplitTypeOK BufferInOrder TokensAreLines NoByteTwice LinesExact NothingLost GivesUpOnlyIfLong FailureStopsTokens
PROPERTIES
  WriteReturns IsConsumer
