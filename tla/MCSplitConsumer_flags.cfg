SPECIFICATION Spec
CONSTANTS
  MaxInput = 4
  StartBufSize = 2
  MaxTokenSize = 2
  MaxEmpties = 2
INVARIANTS
  ScanErrTold
