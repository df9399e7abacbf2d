CONSTANTS
  Wal <- MCWal
  Row <- MCRow
  Unusable <- MCUnusable
  BufferSize = 2
  MaxRows = 4
  MaxStarts = 1
  Faults = {"signal"}
SPECIFICATION PipelineSpec
INVARIANTS
  ShutdownFlushesBatch
CHECK_DEADLOCK FALSE
