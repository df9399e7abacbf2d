CONSTANTS
  Columns <- MCColumns
  IdColumn = "id"
  Toasted = {"blob"}
  Odd = {}
  Ids = {1}
  Identities = {"key"}
  MaxItems = 3
  Row <- MCRow
  Transports = {"http", "grpc"}
  Existing = {1}
  Unindexed = {}
  Refusing = {}
  Faults = {"noAnswer"}
  BufferSize = 2
  MaxRows = 3
SPECIFICATION DeliveryFairSpec
PROPERTIES
  EverythingDelivered
CHECK_DEADLOCK FALSE
