CONSTANTS
  Columns <- MCColumns
  IdColumn = "id"
  Toasted = {"blob"}
  Odd = {}
  Ids = {1, 2}
  Identities = {"key"}
  MaxItems = 3
  Row <- MCRow
  Transports = {"http", "grpc"}
  Existing = {1}
  Unindexed = {}
  Refusing = {"http"}
  Faults = {}
  BufferSize = 2
  MaxRows = 3
SPECIFICATION DeliverySpec
INVARIANTS
  DroppedIsApplied
CHECK_DEADLOCK FALSE
