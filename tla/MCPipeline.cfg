CONSTANTS
  Wal <- MCWal
  Row <- MCRow
  Unusable <- MCUnusable
  BufferSize = 1
  MaxRows = 4
  MaxStarts = 2
  Faults = {"bulkError", "signal", "crash", "disconnect"}
SPECIFICATION PipelineSpec
INVARIANTS
  PipelineTypeOK
  PositionCoversHandled
  DeliveredOnceInOrder
  TxnsAllOrNothing
  RunHasNoGaps
  SignalledRowsFlushed
PROPERTIES
  ImplementsMirror
CHECK_DEADLOCK FALSE
