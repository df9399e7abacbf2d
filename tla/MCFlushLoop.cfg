CONSTANTS
  r1 = r1
  r2 = r2
  Row = {r1, r2}
  BufferSize = 2
  MaxRows = 4
  DefaultSize = 2
  DefaultInterval = 3
  ConfiguredSize = 0
  ConfiguredInterval = 0
  MaxRequest = 2
SPECIFICATION FlushLoopFairSpec
INVARIANTS
  FlushLoopTypeOK
  PointerInBuffer
  GaugeIsBufferLength
  WaitBounded
PROPERTIES
  CommittedRowsStay
  ImplementsCommitLog
  CommittedIsDelivered
