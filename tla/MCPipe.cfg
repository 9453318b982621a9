SPECIFICATION FairPipeSpec
CONSTANTS
  Pipes = {p1}
  WritesCount = 2
  BufSize = 2
  MaxBytes = 4
INVARIANTS
  PipeTypeOK NoChannelPanic DrainedBeforeClose FailureReported
PROPERTIES
  CallsReturn DrivesConsumers
