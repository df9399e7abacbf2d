CONSTANTS
  Wal <- MCWal
  Row <- MCRow
  Unusable <- MCUnusable
  BufferSize = 2
  MaxRows = 4
  MaxStarts = 1
  Faults = {}
SPECIFICATION PipelineSpec
INVARIANTS
  RunStartsAtSlot
CHECK_DEADLOCK FALSE
