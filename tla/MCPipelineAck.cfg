CONSTANTS
  Wal <- MCWal
  Row <- MCRow
  Unusable <- MCUnusable
  BufferSize = 2
  MaxRows = 4
  MaxStarts = 1
  Faults = {"crash"}
SPECIFICATION PipelineSpec
INVARIANTS
  ConsumedIsWritten
CHECK_DEADLOCK FALSE
