CONSTANTS
  Wal <- MCWalShort
  Row <- MCRowShort
  Unusable = {}
  BufferSize = 1
  MaxRows = 4
  MaxStarts = 1
  Faults = {"bulkError", "signal", "crash"}
SPECIFICATION PipelineFairSpec
PROPERTIES
  StreamDelivered
  ShutdownCompletes
CHECK_DEADLOCK FALSE
