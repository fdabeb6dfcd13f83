SPECIFICATION SinkFairSpec
CONSTANTS
  Producers = {p1, p2}
  Buffer = 2
  MaxSize = 2
  Overrun = 2
INVARIANTS
  DrainedBeforeReturn
PROPERTIES
  RotationKeepsLog
  CloseReturns
